--------------------------- MODULE BluetoothPcmPath ---------------------------
(***************************************************************************)
(* The PCM data of one output stream: out_write of stream_apis.cc once the *)
(* stream is started, WriteData of its port with the stereo to mono mix,   *)
(* the polling loop of OutWritePcmData over the data queue of the session, *)
(* and the two frame counters of the stream.  The stack reads the queue,   *)
(* ends the session and starts another with a new queue while the loop     *)
(* sleeps with the session mutex free.  Sizes are in bytes.                *)
(***************************************************************************)
EXTENDS Naturals

CONSTANTS
  FrameSize,    \* bytes of a stereo frame of the stream
  MqSize,       \* bytes the data queue holds
  WriteSizes,   \* bytes the framework passes to out_write
  Polls,        \* kFmqSendTimeoutMs / kWritePollMs
  MaxWrites     \* bound: calls of out_write

ASSUME PcmAssumption ==
  /\ FrameSize \in Nat \ {0} /\ MqSize \in Nat /\ Polls \in Nat /\ MaxWrites \in Nat
  /\ WriteSizes \subseteq Nat \ {0}

VARIABLES
  ready,             \* the session is ready and has a queue
  queued,            \* bytes in the queue
  pc,                \* where the playback thread is
  given,             \* bytes passed to out_write
  want,              \* bytes passed to OutWritePcmData
  total_written,     \* bytes it has put into a queue
  polls,             \* sleeps it has left
  frames_rendered,   \* frames_rendered_
  frames_presented,  \* frames_presented_
  is_stereo_to_mono, \* is_stereo_to_mono_: half of the bytes reach the queue
  writes,            \* calls of out_write so far
  sessionLost        \* history: the session was not ready at some time of this write

session_vars == << ready, queued >>
write_vars   == << is_stereo_to_mono, pc, given, want, total_written, polls, writes >>
frame_vars   == << frames_rendered, frames_presented >>
pcmVars      == << session_vars, write_vars, frame_vars, sessionLost >>

-----------------------------------------------------------------------------
Least(a, b) == IF a < b THEN a ELSE b

\* The bytes of the stream that n bytes in the queue stand for.
StreamBytes(n) == IF is_stereo_to_mono THEN 2 * n ELSE n

\* out_write with the port started; WriteData mixes bytes >> 2 frames of 16 bits.
OutWrite(bytes) ==
  /\ pc = "idle" /\ writes < MaxWrites
  /\ given' = bytes
  /\ want' = IF is_stereo_to_mono THEN 2 * (bytes \div 4) ELSE bytes
  /\ total_written' = 0
  /\ polls' = Polls
  /\ writes' = writes + 1
  /\ pc' = IF want' = 0 THEN "count" ELSE "write"
  /\ sessionLost' = ~ready
  /\ UNCHANGED << is_stereo_to_mono, session_vars, frame_vars >>

\* Mutant of WriteSome: the loop is left with what fitted at first.
WriteSome_Once ==
  /\ pc = "write"
  /\ ready /\ queued < MqSize
  /\ LET n == Least(want - total_written, MqSize - queued) IN
       /\ queued' = queued + n
       /\ total_written' = total_written + n
  /\ pc' = "count"
  /\ UNCHANGED << is_stereo_to_mono, ready, given, want, polls, writes, frame_vars, sessionLost >>

\* One turn of the loop of OutWritePcmData finds room and fills what it needs of it.
WriteSome ==
  /\ pc = "write"
  /\ ready /\ queued < MqSize
  /\ LET n == Least(want - total_written, MqSize - queued) IN
       /\ queued' = queued + n
       /\ total_written' = total_written + n
  /\ pc' = IF total_written' < want THEN "write" ELSE "count"
  /\ UNCHANGED << is_stereo_to_mono, ready, given, want, polls, writes, frame_vars, sessionLost >>

\* Mutant of Sleep: the time slept is not taken off the timeout.
Sleep_Forever ==
  /\ pc = "write"
  /\ ready /\ queued = MqSize
  /\ polls > 0
  /\ UNCHANGED pcmVars

\* No room: sleep without the mutex, for as long as the timeout allows.
Sleep ==
  /\ pc = "write"
  /\ ready /\ queued = MqSize
  /\ polls > 0
  /\ polls' = polls - 1
  /\ UNCHANGED << is_stereo_to_mono, session_vars, pc, given, want, total_written, writes, frame_vars,
                  sessionLost >>

GiveUp ==
  /\ pc = "write"
  /\ ~ready \/ (queued = MqSize /\ polls = 0)
  /\ pc' = "count"
  /\ UNCHANGED << is_stereo_to_mono, session_vars, given, want, total_written, polls, writes, frame_vars,
                  sessionLost >>

\* out_write counts the frames it was passed if any byte was taken, and returns.
CountFrames ==
  /\ pc = "count"
  /\ LET frames == IF total_written > 0 THEN given \div FrameSize ELSE 0 IN
       /\ frames_rendered' = frames_rendered + frames
       /\ frames_presented' = frames_presented + frames
  /\ pc' = "idle"
  /\ UNCHANGED << is_stereo_to_mono, session_vars, given, want, total_written, polls, writes, sessionLost >>

\* out_standby and out_pause of a started stream, A2dpSuspended=true: the rendered frames start over.
Standby ==
  /\ pc = "idle"
  /\ frames_rendered' = 0
  /\ UNCHANGED << session_vars, write_vars, frames_presented, sessionLost >>

\* out_set_parameters with closing=true or exiting=1 resets both counters.
Closing ==
  /\ pc = "idle"
  /\ frames_rendered' = 0
  /\ frames_presented' = 0
  /\ UNCHANGED << session_vars, write_vars, sessionLost >>

-----------------------------------------------------------------------------
\* The stack: it reads the queue, ends the session, starts one with a new queue.

StackReads(n) ==
  /\ ready /\ n <= queued
  /\ queued' = queued - n
  /\ UNCHANGED << ready, write_vars, frame_vars, sessionLost >>

SessionEnds ==
  /\ ready
  /\ ready' = FALSE /\ queued' = 0
  /\ sessionLost' = TRUE
  /\ UNCHANGED << write_vars, frame_vars >>

SessionStarts ==
  /\ ready' = TRUE /\ queued' = 0
  /\ UNCHANGED << write_vars, frame_vars, sessionLost >>

-----------------------------------------------------------------------------
PcmInit ==
  /\ is_stereo_to_mono \in BOOLEAN
  /\ ready = TRUE
  /\ queued = 0
  /\ pc = "idle"
  /\ given = 0 /\ want = 0 /\ total_written = 0 /\ polls = 0 /\ writes = 0
  /\ frames_rendered = 0 /\ frames_presented = 0
  /\ sessionLost = FALSE

WriteGoesOn == WriteSome \/ Sleep \/ GiveUp \/ CountFrames

PcmNext ==
  \/ \E bytes \in WriteSizes : OutWrite(bytes)
  \/ WriteGoesOn
  \/ Standby \/ Closing
  \/ \E n \in 1 .. MqSize : StackReads(n)
  \/ SessionEnds \/ SessionStarts

PcmSpec     == PcmInit /\ [][PcmNext]_pcmVars
FairPcmSpec == PcmSpec /\ WF_pcmVars(WriteGoesOn)

-----------------------------------------------------------------------------
\* The values the variables range over; the queue is never overfilled, and a write never
\* puts more than it was given.
PcmTypeOK ==
  /\ ready \in BOOLEAN /\ sessionLost \in BOOLEAN /\ is_stereo_to_mono \in BOOLEAN
  /\ queued \in 0 .. MqSize
  /\ pc \in { "idle", "write", "count" }
  /\ given \in WriteSizes \cup {0}
  /\ want \in Nat /\ StreamBytes(want) <= given
  /\ total_written \in 0 .. want
  /\ polls \in 0 .. Polls
  /\ writes \in 0 .. MaxWrites
  /\ frames_rendered \in Nat /\ frames_presented \in Nat

\* A write comes back short only because the session was lost meanwhile or the queue was
\* full for the whole timeout (OutWritePcmData), however the stack reads.
ShortOnlyAfterTimeout ==
  pc = "count" /\ total_written < want => sessionLost \/ polls = 0

\* Every write comes back although the stack may read nothing and sessions may come and go.  The
\* mutex of the session is got at every poll: no other output is kept inside the stack with it.
WriteReturns == pc # "idle" ~> pc = "idle"
===============================================================================
