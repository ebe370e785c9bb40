----------------------- MODULE BluetoothDataPathProofs -----------------------
(***************************************************************************)
(* The polling loops of the Bluetooth streams, for every size of frame,    *)
(* queue, write and read, and every timeout: a write or read comes back    *)
(* short for the reasons the code gives only, and the capture position     *)
(* stays behind what was read.                                             *)
(***************************************************************************)
EXTENDS BluetoothPcmPath, BluetoothStreamIn, TLAPS

\* A write that is under way without a session is one that lost it.
WriteKnowsLoss == pc # "idle" /\ ~ready => sessionLost

PcmInv == PcmTypeOK /\ WriteKnowsLoss /\ ShortOnlyAfterTimeout

-----------------------------------------------------------------------------
\* The arithmetic of a write.
LEMMA LeastIsLeast ==
  ASSUME NEW a \in Nat, NEW b \in Nat
  PROVE  Least(a, b) \in Nat /\ Least(a, b) <= a /\ Least(a, b) <= b
  BY DEF Least

\* Half of the frames of 16 bits, in bytes, stand for no more than what was given.
LEMMA MonoBytes ==
  ASSUME NEW n \in Nat
  PROVE  2 * (n \div 4) \in Nat /\ 2 * (2 * (n \div 4)) <= n
  OBVIOUS

LEMMA PcmInitInv == PcmInit => PcmInv
<1> SUFFICES ASSUME PcmInit PROVE PcmInv
  OBVIOUS
<1> USE PcmAssumption DEF PcmInit
<1>1. ready \in BOOLEAN /\ sessionLost \in BOOLEAN /\ is_stereo_to_mono \in BOOLEAN
  OBVIOUS
<1>2. StreamBytes(want) <= given
  BY DEF StreamBytes
<1>3. PcmTypeOK
  BY <1>1, <1>2 DEF PcmTypeOK
<1> QED BY <1>3 DEF PcmInv, WriteKnowsLoss, ShortOnlyAfterTimeout

LEMMA OutWriteInv ==
  ASSUME PcmInv, NEW bytes \in WriteSizes, OutWrite(bytes)
  PROVE  PcmInv'
<1> USE DEF session_vars, frame_vars
<1>1. bytes \in Nat /\ Polls \in Nat /\ MaxWrites \in Nat
  BY PcmAssumption
<1>2. want' \in Nat
  BY <1>1, MonoBytes DEF OutWrite
<1>3. StreamBytes(want)' <= given'
  <2>1. CASE is_stereo_to_mono
    BY <1>1, <2>1, MonoBytes DEF OutWrite, StreamBytes
  <2>2. CASE ~is_stereo_to_mono
    BY <1>1, <2>2 DEF OutWrite, StreamBytes
  <2> QED BY <2>1, <2>2
<1>4. ready' \in BOOLEAN /\ sessionLost' \in BOOLEAN /\ is_stereo_to_mono' \in BOOLEAN
  BY DEF OutWrite, PcmInv, PcmTypeOK
<1>5. writes' \in 0 .. MaxWrites
  BY <1>1 DEF OutWrite, PcmInv, PcmTypeOK
<1>6. total_written' = 0 /\ total_written' \in 0 .. want' /\ polls' \in 0 .. Polls
  BY <1>1, <1>2 DEF OutWrite
<1>7. PcmTypeOK'
  BY <1>2, <1>3, <1>4, <1>5, <1>6 DEF OutWrite, PcmInv, PcmTypeOK
<1>8. WriteKnowsLoss'
  BY DEF OutWrite, WriteKnowsLoss
<1>9. ShortOnlyAfterTimeout'
  <2>1. pc' = "count" => want' = 0
    BY DEF OutWrite
  <2> QED BY <1>6, <2>1 DEF ShortOnlyAfterTimeout
<1> QED BY <1>7, <1>8, <1>9 DEF PcmInv

LEMMA WriteSomeInv ==
  ASSUME PcmInv, WriteSome
  PROVE  PcmInv'
<1> USE DEF frame_vars
<1>1. /\ queued \in 0 .. MqSize /\ MqSize \in Nat /\ queued < MqSize
      /\ want \in Nat /\ total_written \in 0 .. want
  BY PcmAssumption DEF WriteSome, PcmInv, PcmTypeOK
<1>2. PICK n \in Nat : /\ n <= want - total_written /\ n <= MqSize - queued
                       /\ queued' = queued + n /\ total_written' = total_written + n
  <2>1. want - total_written \in Nat /\ MqSize - queued \in Nat
    BY <1>1
  <2> QED BY <2>1, LeastIsLeast DEF WriteSome
<1>3. queued' \in 0 .. MqSize /\ total_written' \in 0 .. want
  <2>1. \A a, b, c \in Nat : b <= a /\ c <= a - b => b + c \in 0 .. a
    OBVIOUS
  <2> QED BY <1>1, <1>2, <2>1
<1>4. UNCHANGED StreamBytes(want)
  BY DEF WriteSome, StreamBytes
<1>5. PcmTypeOK'
  BY <1>3, <1>4 DEF WriteSome, PcmInv, PcmTypeOK
<1>6. WriteKnowsLoss'
  BY DEF WriteSome, WriteKnowsLoss
<1>7. pc' = "count" => ~(total_written' < want')
  BY DEF WriteSome
<1> QED BY <1>5, <1>6, <1>7 DEF PcmInv, ShortOnlyAfterTimeout

\* The steps of the write that put nothing into the queue.
LEMMA WriteGoesOnInv ==
  ASSUME PcmInv, Sleep \/ GiveUp \/ CountFrames
  PROVE  PcmInv'
<1> USE DEF session_vars, frame_vars
<1>1. CASE Sleep
  <2>1. polls' \in 0 .. Polls
    BY <1>1, PcmAssumption DEF Sleep, PcmInv, PcmTypeOK
  <2> QED BY <1>1, <2>1 DEF Sleep, PcmInv, PcmTypeOK, StreamBytes, WriteKnowsLoss, ShortOnlyAfterTimeout
<1>2. CASE GiveUp
  <2>1. sessionLost \/ polls = 0
    BY <1>2 DEF GiveUp, PcmInv, WriteKnowsLoss
  <2> QED BY <1>2, <2>1 DEF GiveUp, PcmInv, PcmTypeOK, StreamBytes, WriteKnowsLoss, ShortOnlyAfterTimeout
<1>3. CASE CountFrames
  <2>1. PICK frames \in Nat : frames_rendered' = frames_rendered + frames
                              /\ frames_presented' = frames_presented + frames
    <3>1. given \in Nat /\ FrameSize \in Nat \ {0}
      BY PcmAssumption DEF PcmInv, PcmTypeOK
    <3>2. given \div FrameSize \in Nat
      BY <3>1
    <3> QED BY <1>3, <3>2 DEF CountFrames
  <2>2. frames_rendered' \in Nat /\ frames_presented' \in Nat
    BY <2>1 DEF PcmInv, PcmTypeOK
  <2> QED BY <1>3, <2>2 DEF CountFrames, PcmInv, PcmTypeOK, StreamBytes, WriteKnowsLoss, ShortOnlyAfterTimeout
<1> QED BY <1>1, <1>2, <1>3

\* The framework between writes, and the stack.
LEMMA OthersInv ==
  ASSUME PcmInv, \/ Standby \/ Closing \/ SessionEnds \/ SessionStarts
                 \/ \E n \in 1 .. MqSize : StackReads(n)
  PROVE  PcmInv'
<1> USE DEF session_vars, write_vars, frame_vars
<1>1. CASE Standby \/ Closing
  BY <1>1 DEF Standby, Closing, PcmInv, PcmTypeOK, StreamBytes, WriteKnowsLoss, ShortOnlyAfterTimeout
<1>2. CASE SessionEnds \/ SessionStarts
  <2>0. queued' \in 0 .. MqSize
    BY <1>2, PcmAssumption DEF SessionEnds, SessionStarts
  <2>1. ready' \in BOOLEAN /\ sessionLost' \in BOOLEAN /\ queued' \in 0 .. MqSize
    BY <1>2, <2>0 DEF SessionEnds, SessionStarts, PcmInv, PcmTypeOK
  <2>2. WriteKnowsLoss'
    BY <1>2 DEF SessionEnds, SessionStarts, WriteKnowsLoss
  <2>3. ShortOnlyAfterTimeout'
    BY <1>2 DEF SessionEnds, SessionStarts, PcmInv, ShortOnlyAfterTimeout
  <2>4. UNCHANGED << write_vars, frame_vars >>
    BY <1>2 DEF SessionEnds, SessionStarts
  <2>5. PcmTypeOK'
    BY <2>1, <2>4 DEF PcmInv, PcmTypeOK, StreamBytes
  <2> QED BY <2>2, <2>3, <2>5 DEF PcmInv
<1>3. ASSUME NEW n \in 1 .. MqSize, StackReads(n) PROVE PcmInv'
  <2>1. queued' \in 0 .. MqSize
    BY <1>3, PcmAssumption DEF StackReads, PcmInv, PcmTypeOK
  <2> QED BY <1>3, <2>1 DEF StackReads, PcmInv, PcmTypeOK, StreamBytes, WriteKnowsLoss, ShortOnlyAfterTimeout
<1> QED BY <1>1, <1>2, <1>3

LEMMA PcmInvariant == PcmSpec => []PcmInv
<1>1. PcmInv /\ [PcmNext]_pcmVars => PcmInv'
  <2> SUFFICES ASSUME PcmInv, [PcmNext]_pcmVars PROVE PcmInv'
    OBVIOUS
  <2>1. CASE UNCHANGED pcmVars
    BY <2>1 DEF pcmVars, session_vars, write_vars, frame_vars, PcmInv, PcmTypeOK, StreamBytes, WriteKnowsLoss,
                ShortOnlyAfterTimeout
  <2> QED BY <2>1, OutWriteInv, WriteSomeInv, WriteGoesOnInv, OthersInv DEF PcmNext, WriteGoesOn
<1> QED BY <1>1, PcmInitInv, PTL DEF PcmSpec

-----------------------------------------------------------------------------
\* Type correctness of a stream's writes: no write overfills the queue (OutWritePcmData) or
\* puts more than the stream was given.
THEOREM PcmTypeCorrect == PcmSpec => []PcmTypeOK
BY PcmInvariant, PTL DEF PcmInv

\* OutWritePcmData comes back short only after a lost session or its whole timeout.
THEOREM PcmShortOnlyAfterTimeout == PcmSpec => []ShortOnlyAfterTimeout
BY PcmInvariant, PTL DEF PcmInv

-----------------------------------------------------------------------------
\* The input stream: the values its variables range over.
InLabels ==
  { "idle", "STARTING", "asleep_STARTING", "isStarted", "isStandby", "isSuspending", "isDisabled", "start",
    "setStarting", "startStream", "startWait", "read", "count", "SUSPENDING", "asleep_SUSPENDING", "suspend",
    "setSuspending", "suspendStream", "suspendWait" }
InTypeOK ==
  /\ in_ready \in BOOLEAN /\ in_lost \in BOOLEAN
  /\ in_queue \in 0 .. InMqSize
  /\ in_pc \in [ InThreads -> InLabels ]
  /\ read_size \in Nat /\ total_read \in 0 .. read_size /\ read_polls \in 0 .. ReadPolls
  /\ frames_read \in Nat /\ position \in Nat

\* A read that is under way without a session is one that lost it.
ReadKnowsLoss == in_pc["reader"] # "idle" /\ ~in_ready => in_lost

InInv == InTypeOK /\ ReadKnowsLoss /\ ShortReadOnlyAfterTimeout /\ CapturePositionWasRead

-----------------------------------------------------------------------------
LEMMA InInitInv == InInit => InInv
<1> SUFFICES ASSUME InInit PROVE InInv
  OBVIOUS
<1>1. InTypeOK
  <2>1. in_ready \in BOOLEAN /\ in_lost \in BOOLEAN
    BY DEF InInit
  <2>2. /\ in_queue \in 0 .. InMqSize
        /\ read_size \in Nat /\ total_read \in 0 .. read_size /\ read_polls \in 0 .. ReadPolls
        /\ frames_read \in Nat /\ position \in Nat
    BY InAssumption DEF InInit
  <2>3. in_pc \in [ InThreads -> InLabels ]
    BY DEF InInit, InLabels
  <2> QED BY <2>1, <2>2, <2>3 DEF InTypeOK
<1>2. in_pc["reader"] = "idle" /\ position = 0 /\ frames_read = 0
  BY DEF InInit, InThreads
<1>3. CapturePositionWasRead
  BY <1>2 DEF CapturePositionWasRead
<1> QED BY <1>1, <1>2, <1>3 DEF InInv, ReadKnowsLoss, ShortReadOnlyAfterTimeout

\* A step of the threads that moves no data: the reader, if it goes on, goes on with its read.
LEMMA MoveInv ==
  ASSUME InInv, NEW t \in InThreads, NEW to \in InLabels, in_pc[t] # "idle", in_pc[t] # "count", to # "count",
         InGoto(t, to), UNCHANGED << in_session, read_vars, counter_vars, in_lost >>
  PROVE  InInv'
<1> USE DEF in_session, read_vars, counter_vars
<1>1. /\ in_pc' \in [ InThreads -> InLabels ]
      /\ in_pc'["reader"] = in_pc["reader"] \/ (t = "reader" /\ in_pc'["reader"] = to)
  BY DEF InGoto, InInv, InTypeOK, InThreads
<1>2. InTypeOK'
  BY <1>1 DEF InInv, InTypeOK
<1>3. ReadKnowsLoss'
  BY <1>1 DEF InInv, ReadKnowsLoss
<1>4. ShortReadOnlyAfterTimeout' /\ CapturePositionWasRead'
  BY <1>1 DEF InInv, ShortReadOnlyAfterTimeout, CapturePositionWasRead
<1> QED BY <1>2, <1>3, <1>4 DEF InInv

\* The tests, waits and sleeps move no data.
LEMMA TestsInv ==
  ASSUME InInv, \/ ReaderTests \/ InStarts \/ StandbyGoesOn
  PROVE  InInv'
<1>1. ASSUME NEW t \in InThreads, NEW st \in { "STARTING", "SUSPENDING" }, NEW after \in { "isStarted", "idle" },
             Awaits(t, st, after)
      PROVE  InInv'
  <2>1. PICK to \in { "asleep_STARTING", "asleep_SUSPENDING", "isStarted", "idle" } : InGoto(t, to)
    BY <1>1 DEF Awaits, InReturn
  <2>2. to \in InLabels /\ to # "count" /\ in_pc[t] # "idle" /\ in_pc[t] # "count"
    BY <1>1, <2>1 DEF Awaits, InLabels
  <2> QED BY <1>1, <2>1, <2>2, MoveInv DEF Awaits
<1>2. ASSUME NEW t \in InThreads, NEW st \in { "STARTING", "SUSPENDING" },
             NEW label \in { "asleep_STARTING", "asleep_SUSPENDING" }, Wakes(t, st, label)
      PROVE  InInv'
  <2>1. PICK to \in { "STARTING", "SUSPENDING", "idle" } : InGoto(t, to)
    BY <1>2 DEF Wakes, InReturn
  <2>2. to \in InLabels /\ to # "count" /\ in_pc[t] # "idle" /\ in_pc[t] # "count"
    BY <1>2, <2>1 DEF Wakes, InLabels
  <2> QED BY <1>2, <2>1, <2>2, MoveInv DEF Wakes
<1>3. ASSUME NEW t \in InThreads, NEW label \in InLabels \ { "idle", "count" }, NEW st,
             NEW yes \in InLabels \ { "count" }, NEW no \in InLabels \ { "count" }, InTest(t, label, st, yes, no)
      PROVE  InInv'
  <2>1. PICK to \in { yes, no } : InGoto(t, to)
    BY <1>3 DEF InTest, InReturn
  <2>2. to \in InLabels /\ to # "count" /\ in_pc[t] # "idle" /\ in_pc[t] # "count"
    BY <1>3, <2>1 DEF InTest
  <2> QED BY <1>3, <2>1, <2>2, MoveInv DEF InTest
<1> USE DEF InThreads
<1>4. CASE ReaderTests
  BY <1>1, <1>2, <1>3, <1>4 DEF ReaderTests, InLabels
<1>5. CASE InStarts
  <2>1. CASE InTest("reader", "start", "STANDBY", "setStarting", "idle")
    BY <1>3, <2>1 DEF InLabels
  <2>2. CASE InTest("reader", "startWait", "STARTED", "read", "idle")
    BY <1>3, <2>2 DEF InLabels
  <2>3. CASE /\ InMove("reader", "setStarting", "startStream")
             /\ UNCHANGED << in_session, read_vars, counter_vars, in_lost >>
    BY <2>3, MoveInv DEF InMove, InLabels
  <2>4. CASE /\ in_pc["reader"] = "startStream"
             /\ InGoto("reader", "startWait") \/ InReturn("reader")
             /\ UNCHANGED << in_session, read_vars, counter_vars, in_lost >>
    BY <2>4, MoveInv DEF InReturn, InLabels
  <2> QED BY <1>5, <2>1, <2>2, <2>3, <2>4 DEF InStarts
<1>6. CASE StandbyGoesOn
  <2>1. CASE \/ Awaits("standby", "STARTING", "isStarted") \/ Awaits("standby", "SUSPENDING", "idle")
             \/ Wakes("standby", "STARTING", "asleep_STARTING") \/ Wakes("standby", "SUSPENDING", "asleep_SUSPENDING")
    BY <1>1, <1>2, <2>1
  <2>2. CASE \/ InTest("standby", "isStarted", "STARTED", "suspend", "isSuspending")
             \/ InTest("standby", "isSuspending", "SUSPENDING", "SUSPENDING", "idle")
             \/ InTest("standby", "suspend", "STARTED", "setSuspending", "SUSPENDING")
             \/ InTest("standby", "suspendWait", "STANDBY", "SUSPENDING", "SUSPENDING")
    BY <1>3, <2>2 DEF InLabels
  <2>3. CASE /\ InMove("standby", "setSuspending", "suspendStream")
             /\ UNCHANGED << in_session, read_vars, counter_vars, in_lost >>
    BY <2>3, MoveInv DEF InMove, InLabels
  <2>4. CASE /\ in_pc["standby"] = "suspendStream"
             /\ InGoto("standby", "suspendWait") \/ InGoto("standby", "SUSPENDING")
             /\ UNCHANGED << in_session, read_vars, counter_vars, in_lost >>
    BY <2>4, MoveInv DEF InLabels
  <2> QED BY <1>6, <2>1, <2>2, <2>3, <2>4 DEF StandbyGoesOn
<1> QED BY <1>4, <1>5, <1>6

\* A read starts with nothing taken, or a standby beside it.
LEMMA BeginsInv ==
  ASSUME InInv, StandbyBegins \/ \E bytes \in ReadSizes : ReadBegins(bytes)
  PROVE  InInv'
<1> USE DEF in_session, read_vars, counter_vars, InGoto
<1>1. ASSUME NEW bytes \in ReadSizes, ReadBegins(bytes) PROVE InInv'
  <2>1. in_pc' \in [ InThreads -> InLabels ] /\ in_pc'["reader"] = "STARTING"
    BY <1>1 DEF ReadBegins, InInv, InTypeOK, InThreads, InLabels
  <2>2. read_size' \in Nat /\ total_read' \in 0 .. read_size' /\ read_polls' \in 0 .. ReadPolls
    BY <1>1, InAssumption DEF ReadBegins
  <2>3. in_ready' \in BOOLEAN /\ in_lost' \in BOOLEAN
    BY <1>1 DEF ReadBegins, InInv, InTypeOK
  <2>4. InTypeOK'
    BY <1>1, <2>1, <2>2, <2>3 DEF ReadBegins, InInv, InTypeOK
  <2>5. ReadKnowsLoss'
    BY <1>1 DEF ReadBegins, ReadKnowsLoss
  <2>6. ShortReadOnlyAfterTimeout' /\ CapturePositionWasRead'
    BY <1>1, <2>1 DEF ReadBegins, InInv, ShortReadOnlyAfterTimeout, CapturePositionWasRead
  <2> QED BY <2>4, <2>5, <2>6 DEF InInv
<1>2. CASE StandbyBegins
  <2>1. in_pc' \in [ InThreads -> InLabels ] /\ in_pc'["reader"] = in_pc["reader"]
    BY <1>2 DEF StandbyBegins, InInv, InTypeOK, InThreads, InLabels
  <2>2. InTypeOK'
    BY <1>2, <2>1 DEF StandbyBegins, InInv, InTypeOK
  <2>3. ReadKnowsLoss' /\ ShortReadOnlyAfterTimeout' /\ CapturePositionWasRead'
    BY <1>2, <2>1 DEF StandbyBegins, InInv, ReadKnowsLoss, ShortReadOnlyAfterTimeout, CapturePositionWasRead
  <2> QED BY <2>2, <2>3 DEF InInv
<1> QED BY <1>1, <1>2

\* The loop of InReadPcmData takes what it finds, up to what was asked for.
LEMMA ReadSomeInv ==
  ASSUME InInv, ReadSome
  PROVE  InInv'
<1> USE DEF counter_vars, InGoto
<1>1. /\ in_queue \in 0 .. InMqSize /\ InMqSize \in Nat /\ read_size \in Nat /\ total_read \in 0 .. read_size
  BY InAssumption DEF InInv, InTypeOK
<1>2. PICK n \in Nat : /\ n <= in_queue /\ n <= read_size - total_read
                       /\ in_queue' = in_queue - n /\ total_read' = total_read + n
  BY <1>1 DEF ReadSome
<1>3. in_queue' \in 0 .. InMqSize /\ total_read' \in 0 .. read_size
  <2>1. \A a, b, c \in Nat : b <= a /\ c <= a - b => b + c \in 0 .. a
    OBVIOUS
  <2>2. \A a, b, c \in Nat : b <= a /\ c <= b => b - c \in 0 .. a
    OBVIOUS
  <2> QED BY <1>1, <1>2, <2>1, <2>2
<1>4. /\ in_pc' \in [ InThreads -> InLabels ]
      /\ in_pc["reader"] = "read" /\ in_pc'["reader"] = (IF total_read' < read_size THEN "read" ELSE "count")
  BY DEF ReadSome, InInv, InTypeOK, InThreads, InLabels
<1>5. InTypeOK'
  BY <1>3, <1>4 DEF ReadSome, InInv, InTypeOK
<1>6. ReadKnowsLoss' /\ CapturePositionWasRead'
  BY <1>4 DEF ReadSome, InInv, ReadKnowsLoss, CapturePositionWasRead
<1>7. ShortReadOnlyAfterTimeout'
  <2>1. UNCHANGED read_size
    BY DEF ReadSome
  <2>2. in_pc'["reader"] = "count" => ~(total_read' < read_size)
    BY <1>4
  <2> QED BY <2>1, <2>2 DEF ShortReadOnlyAfterTimeout
<1> QED BY <1>5, <1>6, <1>7 DEF InInv

LEMMA ReadEndsInv ==
  ASSUME InInv, ReadSleeps \/ ReadGivesUp \/ ReadCounts
  PROVE  InInv'
<1> USE DEF in_session, read_vars, counter_vars, InGoto, InMove
<1>1. CASE ReadSleeps
  <2>1. read_polls' \in 0 .. ReadPolls
    BY <1>1, InAssumption DEF ReadSleeps, InInv, InTypeOK
  <2> QED BY <1>1, <2>1 DEF ReadSleeps, InInv, InTypeOK, ReadKnowsLoss, ShortReadOnlyAfterTimeout, CapturePositionWasRead
<1>2. CASE ReadGivesUp
  <2>1. in_lost \/ read_polls = 0
    BY <1>2 DEF ReadGivesUp, InInv, ReadKnowsLoss
  <2>2. in_pc' \in [ InThreads -> InLabels ] /\ in_pc["reader"] = "read"
    BY <1>2 DEF ReadGivesUp, InInv, InTypeOK, InThreads, InLabels
  <2>3. InTypeOK'
    BY <1>2, <2>2 DEF ReadGivesUp, InInv, InTypeOK
  <2>4. ReadKnowsLoss' /\ ShortReadOnlyAfterTimeout' /\ CapturePositionWasRead'
    BY <1>2, <2>1, <2>2 DEF ReadGivesUp, InInv, ReadKnowsLoss, ShortReadOnlyAfterTimeout, CapturePositionWasRead
  <2> QED BY <2>3, <2>4 DEF InInv
<1>3. CASE ReadCounts
  <2>1. total_read \in Nat /\ InFrameSize \in Nat \ {0} /\ frames_read \in Nat
    BY InAssumption DEF InInv, InTypeOK
  <2>2. total_read \div InFrameSize \in Nat
    BY <2>1
  <2>3. PICK n \in Nat : frames_read' = frames_read + n
    BY <1>3, <2>2 DEF ReadCounts
  <2>4. frames_read' \in Nat /\ (position <= frames_read => position <= frames_read')
    BY <2>1, <2>3 DEF InInv, InTypeOK
  <2>5. in_pc' \in [ InThreads -> InLabels ] /\ in_pc'["reader"] = "idle"
    BY <1>3 DEF ReadCounts, InInv, InTypeOK, InThreads, InLabels
  <2>6. InTypeOK'
    BY <1>3, <2>4, <2>5 DEF ReadCounts, InInv, InTypeOK
  <2>7. CapturePositionWasRead'
    BY <1>3, <2>4 DEF ReadCounts, InInv, CapturePositionWasRead
  <2> QED BY <2>5, <2>6, <2>7 DEF InInv, ReadKnowsLoss, ShortReadOnlyAfterTimeout
<1> QED BY <1>1, <1>2, <1>3

\* What the position told is at most what was read.
LEMMA CapturedWasRead ==
  ASSUME NEW reported \in Nat, NEW latency \in Nat, frames_read \in Nat
  PROVE  Captured(reported, latency) \in Nat /\ Captured(reported, latency) <= frames_read
  BY DEF Captured

\* Position queries, a stream opened anew, and the stack.
LEMMA InOthersInv ==
  ASSUME InInv, \/ \E reported \in Reports, latency \in Latencies : GetCapturePosition(reported, latency)
                \/ Reopen
                \/ \E success \in BOOLEAN : InControlResult(success)
                \/ InSessionChanges
                \/ \E n \in 1 .. InMqSize : StackFeeds(n)
  PROVE  InInv'
<1> USE DEF in_session, read_vars, counter_vars
<1>1. ASSUME NEW reported \in Reports, NEW latency \in Latencies, GetCapturePosition(reported, latency)
      PROVE  InInv'
  <2>1. position' \in Nat /\ position' <= frames_read
    BY <1>1, CapturedWasRead, InAssumption DEF GetCapturePosition, InInv, InTypeOK
  <2>2. CapturePositionWasRead'
    BY <1>1, <2>1 DEF GetCapturePosition, CapturePositionWasRead
  <2> QED BY <1>1, <2>1, <2>2 DEF GetCapturePosition, InInv, InTypeOK, ReadKnowsLoss, ShortReadOnlyAfterTimeout
<1>2. CASE Reopen
  <2>1. frames_read' = 0 /\ position' = 0 /\ in_pc["reader"] = "idle"
    BY <1>2 DEF Reopen, InThreads
  <2>2. CapturePositionWasRead'
    BY <2>1 DEF CapturePositionWasRead
  <2> QED BY <1>2, <2>1, <2>2 DEF Reopen, InInv, InTypeOK, ReadKnowsLoss, ShortReadOnlyAfterTimeout
<1>3. CASE \E success \in BOOLEAN : InControlResult(success)
  BY <1>3 DEF InControlResult, InInv, InTypeOK, ReadKnowsLoss, ShortReadOnlyAfterTimeout, CapturePositionWasRead
<1>4. CASE InSessionChanges
  <2>1. in_ready' \in BOOLEAN /\ in_lost' \in BOOLEAN /\ in_lost'
    BY <1>4 DEF InSessionChanges, InInv, InTypeOK
  <2>2. in_queue' \in 0 .. InMqSize
    BY <1>4, InAssumption DEF InSessionChanges
  <2>3. InTypeOK'
    BY <1>4, <2>1, <2>2 DEF InSessionChanges, InInv, InTypeOK
  <2>4. CapturePositionWasRead'
    BY <1>4 DEF InSessionChanges, InInv, CapturePositionWasRead
  <2> QED BY <2>1, <2>3, <2>4 DEF InInv, ReadKnowsLoss, ShortReadOnlyAfterTimeout
<1>5. ASSUME NEW n \in 1 .. InMqSize, StackFeeds(n) PROVE InInv'
  <2>1. in_queue' \in 0 .. InMqSize
    BY <1>5, InAssumption DEF StackFeeds, InInv, InTypeOK
  <2> QED BY <1>5, <2>1 DEF StackFeeds, InInv, InTypeOK, ReadKnowsLoss, ShortReadOnlyAfterTimeout, CapturePositionWasRead
<1> QED BY <1>1, <1>2, <1>3, <1>4, <1>5

LEMMA InInvariant == InSpec => []InInv
<1>1. InInv /\ [InNext]_inVars => InInv'
  <2> SUFFICES ASSUME InInv, [InNext]_inVars PROVE InInv'
    OBVIOUS
  <2>1. CASE UNCHANGED inVars
    BY <2>1 DEF inVars, in_session, read_vars, counter_vars, InInv, InTypeOK, ReadKnowsLoss,
                ShortReadOnlyAfterTimeout, CapturePositionWasRead
  <2> QED BY <2>1, BeginsInv, TestsInv, ReadSomeInv, ReadEndsInv, InOthersInv DEF InNext, ReaderGoesOn
<1> QED BY <1>1, InInitInv, PTL DEF InSpec

-----------------------------------------------------------------------------
\* InReadPcmData comes back short only after a lost session or its whole timeout.
THEOREM InShortOnlyAfterTimeout == InSpec => []ShortReadOnlyAfterTimeout
BY InInvariant, PTL DEF InInv

\* in_get_capture_position never tells more frames than in_read has counted, whatever
\* counters and delays a stack reports.
THEOREM InCapturePositionWasRead == InSpec => []CapturePositionWasRead
BY InInvariant, PTL DEF InInv

===============================================================================
