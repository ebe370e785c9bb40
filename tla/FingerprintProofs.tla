-------------------------- MODULE FingerprintProofs --------------------------
(***************************************************************************)
(* The fingerprint HALs.  That of Anakin keeps its commands apart from     *)
(* each other's presses, proved for any number of presses and any messages *)
(* of the vendor; that of Oppo answers for a vendor that does not, proved  *)
(* for any statuses, errors and lists of fingers.                          *)
(***************************************************************************)
EXTENDS AnakinFingerprint, OppoFingerprint, TLAPS

\* The mutex has the holder that has something to do under it.
MutexHeld ==
  /\ mCommandMutex = "commands" <=> sending # NoCommand
  /\ mCommandMutex \in { "framework", "vendor" } <=> handling # "none"

\* The sequence number stays in its bound: a press within it has begun.
PressBounded ==
  /\ handling \in { "storeDown", "queueDown" } => mFingerSequence \in 1 .. MaxSequence
  /\ mFingerDown /\ handling # "storeUp" => mFingerSequence <= MaxSequence

\* The finger is where the rest of the handler takes it to be.
HandlerKnowsFinger ==
  /\ handling = "queueDown" => mFingerDown
  /\ handling = "queueUp" => ~mFingerDown

\* No queued command is ahead of the press; one of this press or release is of that sort.
CommandIsPast(c) ==
  /\ c.sequence <= mFingerSequence
  /\ c.sequence = mFingerSequence =>
       /\ handling = "none"
       /\ c.command = "DOWN" => mFingerDown
       /\ c.command = "UP" => ~mFingerDown
QueueIsPast == \A i \in 1 .. Len(mCommandQueue) : CommandIsPast(mCommandQueue[i])

\* A finger that was handled as down has high brightness, or had it refused.
PressIsLit == mFingerDown /\ handling = "none" => hbm \/ refused = "on"

\* The daemon has been told of the press, or is being told, or will be told of it first.
DownIsFirst ==
  mFingerDown /\ handling = "none" =>
    \/ sent \in { "DOWN", "STABLE" }
    \/ sending # NoCommand /\ sending.command = "DOWN"
    \/ /\ sending = NoCommand
       /\ mCommandQueue # << >>
       /\ Head(mCommandQueue) = [ sequence |-> mFingerSequence, command |-> "DOWN" ]

FpInv ==
  /\ FpTypeOK
  /\ MutexHeld
  /\ PressBounded
  /\ HandlerKnowsFinger
  /\ QueueIsPast
  /\ CommandFitsFinger
  /\ PressIsLit
  /\ HbmWhileSampling
  /\ DownIsFirst


-----------------------------------------------------------------------------
\* Facts about the queue.

\* A command that was put into the queue is its last, and the first of one that was empty.
LEMMA Appended ==
  ASSUME NEW S, NEW q \in Seq(S), NEW c \in S
  PROVE  /\ Append(q, c) \in Seq(S)
         /\ Append(q, c) # << >>
         /\ Len(Append(q, c)) = Len(q) + 1 /\ Len(q) \in Nat
         /\ \A i \in 1 .. Len(q) : Append(q, c)[i] = q[i]
         /\ Append(q, c)[Len(q) + 1] = c
         /\ q # << >> => Head(Append(q, c)) = Head(q)
<1>1. /\ Append(q, c) \in Seq(S)
      /\ Len(Append(q, c)) = Len(q) + 1 /\ Len(q) \in Nat
      /\ \A i \in 1 .. Len(q) : Append(q, c)[i] = q[i]
      /\ Append(q, c)[Len(q) + 1] = c
  OBVIOUS
<1>2. Append(q, c) # << >>
  BY <1>1
<1>3. ASSUME q # << >> PROVE Head(Append(q, c)) = Head(q)
  <2>1. 1 \in 1 .. Len(q)
    BY <1>3
  <2>2. Append(q, c)[1] = q[1]
    BY <1>1, <2>1
  <2> QED BY <1>1, <1>2, <1>3, <2>2
<1> QED BY <1>1, <1>2, <1>3

\* What is left when the head was taken are commands of the queue.
LEMMA Taken ==
  ASSUME NEW S, NEW q \in Seq(S), q # << >>
  PROVE  /\ Tail(q) \in Seq(S)
         /\ Head(q) \in S /\ Head(q) = q[1] /\ 1 \in 1 .. Len(q)
         /\ \A i \in 1 .. Len(Tail(q)) : i + 1 \in 1 .. Len(q) /\ Tail(q)[i] = q[i + 1]
  OBVIOUS

\* A queue of one command.
LEMMA Single ==
  ASSUME NEW S, NEW c \in S
  PROVE  /\ << c >> \in Seq(S) /\ << c >> # << >> /\ Head(<< c >>) = c
         /\ \A i \in 1 .. Len(<< c >>) : << c >>[i] = c
  OBVIOUS

\* The sort of a command and its number.
LEMMA CommandFields ==
  ASSUME FpInv
  PROVE  /\ \A c \in Commands : c.sequence \in Nat /\ c.sequence \in Sequences
                                /\ c.command \in { "DOWN", "UP", "STABLE", "CLOSE" }
         /\ \A s \in Sequences, k \in { "DOWN", "UP", "STABLE", "CLOSE" } :
              /\ [ sequence |-> s, command |-> k ] \in Commands
              /\ [ sequence |-> s, command |-> k ] # NoCommand
              /\ [ sequence |-> s, command |-> k ].sequence = s
              /\ [ sequence |-> s, command |-> k ].command = k
         /\ NoCommand \notin Commands
         /\ mFingerSequence \in Nat /\ MaxSequence \in Nat /\ mFingerSequence \in Sequences
  BY FingerprintAssumption DEF Commands, Sequences, FpInv, FpTypeOK

\* There is a command of each sort and number.
LEMMA SomeCommand ==
  ASSUME FpInv, NEW s \in Sequences, NEW k \in { "DOWN", "UP", "STABLE", "CLOSE" }
  PROVE  \E c \in Commands :
           /\ c = [ sequence |-> s, command |-> k ]
           /\ c.sequence = s /\ c.command = k
<1>1. [ sequence |-> s, command |-> k ] \in Commands
  BY CommandFields
<1> QED BY <1>1

-----------------------------------------------------------------------------
\* Type correctness of each step.
LEMMA FpTypeStep ==
  ASSUME FpInv, [FpNext]_fpVars
  PROVE  FpTypeOK'
<1> USE DEF FpTypeOK, finger_vars, lock_vars, goodix_vars, hbm_vars, node_vars, spot_vars, client_vars
<1>1. CASE FingerDown
  <2>1. mFingerSequence' \in Sequences
    BY <1>1, CommandFields DEF FingerDown, Sequences, FpInv
  <2> QED BY <1>1, <2>1 DEF FingerDown, FpInv
<1>2. ASSUME NEW who \in { "framework", "vendor" }, FingerUp(who) \/ FingerUpAgain(who)
      PROVE  FpTypeOK'
  <2>1. CASE FingerUp(who)
    <3>1. handling # "storeUp"
      BY <2>1 DEF FingerUp, FpInv, MutexHeld
    <3>2. mFingerSequence' \in Sequences
      BY <2>1, <3>1, CommandFields DEF FingerUp, Sequences, FpInv, PressBounded
    <3> QED BY <2>1, <3>2 DEF FingerUp, FpInv
  <2>2. CASE FingerUpAgain(who)
    BY <2>2 DEF FingerUpAgain, DoneBy, FpInv
  <2> QED BY <1>2, <2>1, <2>2
<1>3. CASE StoreDown \/ StoreUp
  <2>1. mFingerDown' \in BOOLEAN
    BY <1>3 DEF StoreDown, StoreUp
  <2> QED BY <1>3, <2>1 DEF StoreDown, StoreUp, FpInv
<1>4. CASE QueueDown
  <2>1. mCommandQueue' \in Seq(Commands)
    BY <1>4, CommandFields, Single DEF QueueDown, FpInv
  <2>2. mFingerSequence \in 1 .. MaxSequence
    BY <1>4 DEF QueueDown, FpInv, PressBounded
  <2>3. waiter' \in [ 1 .. MaxSequence -> { "none", "wait", "isCurrent", "exchange", "enqueue", "done" } ]
    BY <1>4, <2>2 DEF QueueDown, FpInv
  <2>4. mLightAreaStable' \in BOOLEAN /\ hbm' \in BOOLEAN /\ refused' \in { "none", "on", "off" }
    BY <1>4 DEF QueueDown, RequestHbm, FpInv
  <2> QED BY <1>4, <2>1, <2>3, <2>4 DEF QueueDown, FpInv
<1>5. CASE QueueUp
  <2>1. mCommandQueue' \in Seq(Commands)
    BY <1>5, CommandFields, Single DEF QueueUp, FpInv
  <2>2. mLightAreaStable' \in BOOLEAN
    BY <1>5 DEF QueueUp
  <2>3. notifying' \in Messages \cup { NoMessage, LiftFinger }
    BY <1>5 DEF QueueUp, DoneBy, FpInv
  <2> QED BY <1>5, <2>1, <2>2, <2>3 DEF QueueUp, FpInv
<1>6. CASE TakeCommand
  <2>1. mCommandQueue' \in Seq(Commands) /\ Head(mCommandQueue) \in Commands
    BY <1>6, Taken DEF TakeCommand, FpInv
  <2>2. sending' \in Commands \cup { NoCommand } /\ mCommandMutex' \in { "free", "commands" }
    BY <1>6, <2>1 DEF TakeCommand, FpInv
  <2> QED BY <1>6, <2>1, <2>2 DEF TakeCommand, FpInv
<1>7. CASE CommandSent
  <2>1. sent' \in { "DOWN", "UP", "STABLE", "CLOSE" }
    <3>1. sending \in Commands /\ sent' = sending.command
      BY <1>7 DEF CommandSent, FpInv
    <3> QED BY <3>1, CommandFields
  <2>2. hbm' \in BOOLEAN /\ refused' \in { "none", "on", "off" }
    BY <1>7 DEF CommandSent, RequestHbm, FpInv
  <2>3. sending' \in Commands \cup { NoCommand } /\ mCommandMutex' = "free"
    BY <1>7 DEF CommandSent
  <2> HIDE DEF CommandSent
  <2>4. UNCHANGED << finger_vars, mLightAreaStable, handling, mCommandQueue, node_vars, spot_vars, waiter,
                     client_vars >>
    BY <1>7 DEF CommandSent
  <2> QED BY <2>1, <2>2, <2>3, <2>4 DEF FpInv
<1>9. CASE SpotThread
  <2> USE DEF SpotTo, SpotKeeps
  <2>1. CASE SpotPolls \/ SpotIsDown \/ SpotUnstable \/ SpotIsUp \/ SpotReadsSequence \/ SpotExchange
    <3> USE <2>1 DEF SpotPolls, SpotIsDown, SpotExchange, SpotUnstable, SpotIsUp, SpotReadsSequence
    <3>1. mLightAreaStable' \in BOOLEAN /\ spotEvent' \in BOOLEAN
      BY DEF FpInv
    <3>2. spotPc' \in { "poll", "exited", "isDown", "exchange", "sequence", "STABLE", "unstable", "isUp",
                        "sequenceUp", "CLOSE" }
      OBVIOUS
    <3>3. spotSequence' \in Sequences
      BY DEF FpInv
    <3>4. UNCHANGED << finger_vars, lock_vars, mCommandQueue, goodix_vars, spot, waiter, client_vars >>
      OBVIOUS
    <3> QED BY <3>1, <3>2, <3>3, <3>4 DEF FpInv
  <2>2. CASE SpotEnqueues
    <3>0. 0 \in Sequences /\ spotSequence \in Sequences
      BY CommandFields DEF FpInv, Sequences
    <3>1. [ sequence |-> spotSequence, command |-> spotPc ] \in Commands /\ 0 \in Sequences
      BY <2>2, <3>0, CommandFields DEF SpotEnqueues
    <3>2. mCommandQueue' \in Seq(Commands)
      BY <2>2, <3>1, Appended DEF SpotEnqueues, Enqueue, FpInv
    <3> QED BY <2>2, <3>1, <3>2 DEF SpotEnqueues, FpInv
  <2> QED BY <1>9, <2>1, <2>2 DEF SpotThread
<1>10. CASE DisplayFollows
  BY <1>10 DEF DisplayFollows, FpInv
<1>11. ASSUME NEW s \in 1 .. MaxSequence, Waiter(s)
       PROVE  FpTypeOK'
  <2> USE DEF WaiterTo, WaiterKeeps
  <2>1. CASE WaitEnds(s) \/ WaiterIsCurrent(s) \/ WaiterExchange(s)
    <3>1. mLightAreaStable' \in BOOLEAN
      BY <2>1 DEF WaitEnds, WaiterIsCurrent, WaiterExchange, FpInv
    <3>2. waiter' \in [ 1 .. MaxSequence -> { "none", "wait", "isCurrent", "exchange", "enqueue", "done" } ]
      BY <2>1 DEF WaitEnds, WaiterIsCurrent, WaiterExchange, FpInv
    <3> QED BY <2>1, <3>1, <3>2 DEF WaitEnds, WaiterIsCurrent, WaiterExchange, FpInv
  <2>2. CASE WaiterEnqueues(s)
    <3>0. s \in Sequences
      BY CommandFields DEF Sequences
    <3>1. [ sequence |-> s, command |-> "STABLE" ] \in Commands
      BY <3>0, CommandFields
    <3>2. mCommandQueue' \in Seq(Commands)
      BY <2>2, <3>1, Appended DEF WaiterEnqueues, Enqueue, FpInv
    <3> QED BY <2>2, <3>2 DEF WaiterEnqueues, FpInv
  <2> QED BY <1>11, <2>1, <2>2 DEF Waiter
<1>12. CASE SetNotify \/ (\E m \in Messages : Notify(m)) \/ ClientTold \/ ClientDies
  BY <1>12 DEF SetNotify, Notify, ClientTold, ClientDies, FpInv
<1>13. CASE UNCHANGED fpVars
  BY <1>13 DEF fpVars, FpInv
<1> QED BY <1>1, <1>2, <1>3, <1>4, <1>5, <1>6, <1>7, <1>9, <1>10, <1>11, <1>12, <1>13
        DEF FpNext, Handler

-----------------------------------------------------------------------------
\* The rest of the invariant, one lemma for each kind of step.

CoreInv ==
  /\ MutexHeld
  /\ PressBounded
  /\ HandlerKnowsFinger
  /\ QueueIsPast
  /\ CommandFitsFinger
  /\ PressIsLit
  /\ HbmWhileSampling
  /\ DownIsFirst

\* A step that neither moves the finger nor touches commands or brightness.
LEMMA QuietStep ==
  ASSUME FpInv, UNCHANGED << finger_vars, lock_vars, mCommandQueue, goodix_vars >>
  PROVE  CoreInv'
BY DEF FpInv, CoreInv, finger_vars, lock_vars, goodix_vars, hbm_vars, MutexHeld, PressBounded, HandlerKnowsFinger,
       QueueIsPast, CommandIsPast, CommandFitsFinger, PressIsLit, HbmWhileSampling, DownIsFirst

\* A thread without the mutex queues a command behind what is there.
LEMMA EnqueueStep ==
  ASSUME FpInv, NEW c \in Commands, c.command \in { "STABLE", "CLOSE" }, Enqueue(c),
         UNCHANGED << finger_vars, lock_vars, goodix_vars >>
  PROVE  CoreInv'
<1> USE DEF finger_vars, lock_vars, goodix_vars, hbm_vars
<1>1. handling = "none" /\ sending = NoCommand
  BY DEF Enqueue, FpInv, MutexHeld
<1>2. mCommandQueue \in Seq(Commands)
  BY DEF FpInv, FpTypeOK
<1>3. QueueIsPast'
  <2>1. CASE mCommandQueue' = mCommandQueue
    BY <2>1 DEF FpInv, QueueIsPast, CommandIsPast
  <2>2. CASE Fits(c) /\ mCommandQueue' = Append(mCommandQueue, c)
    <3>1. CommandIsPast(c)'
      BY <1>1, <2>2, CommandFields DEF CommandIsPast, Fits
    <3>2. \A d : CommandIsPast(d) => CommandIsPast(d)'
      BY DEF CommandIsPast
    <3>3. Len(mCommandQueue') = Len(mCommandQueue) + 1 /\ Len(mCommandQueue) \in Nat
      BY <1>2, <2>2, Appended
    <3>4. ASSUME NEW i \in 1 .. Len(mCommandQueue')
          PROVE  i = Len(mCommandQueue) + 1 \/ i \in 1 .. Len(mCommandQueue)
      BY <3>3
    <3>5. ASSUME NEW i \in 1 .. Len(mCommandQueue')
          PROVE  CommandIsPast(mCommandQueue[i])'
      <4>1. CASE i = Len(mCommandQueue) + 1
        <5>1. mCommandQueue'[i] = c
          BY <1>2, <2>2, <4>1, Appended
        <5> QED BY <3>1, <5>1 DEF CommandIsPast
      <4>2. CASE i \in 1 .. Len(mCommandQueue)
        <5>1. mCommandQueue'[i] = mCommandQueue[i]
          BY <1>2, <2>2, <4>2, Appended
        <5>2. CommandIsPast(mCommandQueue[i])
          BY <4>2 DEF FpInv, QueueIsPast
        <5> QED BY <3>2, <5>1, <5>2 DEF CommandIsPast
      <4> QED BY <3>4, <4>1, <4>2
    <3> QED BY <3>5 DEF QueueIsPast
  <2> QED BY <2>1, <2>2 DEF Enqueue
<1>4. DownIsFirst'
  <2>1. mCommandQueue # << >> => mCommandQueue' # << >> /\ Head(mCommandQueue') = Head(mCommandQueue)
    BY <1>2, Appended DEF Enqueue
  <2> QED BY <2>1 DEF FpInv, DownIsFirst
<1>5. MutexHeld' /\ PressBounded' /\ HandlerKnowsFinger' /\ CommandFitsFinger' /\ PressIsLit' /\ HbmWhileSampling'
  BY DEF FpInv, MutexHeld, PressBounded, HandlerKnowsFinger, CommandFitsFinger, PressIsLit, HbmWhileSampling
<1> QED BY <1>3, <1>4, <1>5 DEF CoreInv

\* A press or release begins: the commands of the last one are past.
LEMMA FingerStep ==
  ASSUME FpInv, FingerDown \/ \E who \in { "framework", "vendor" } : FingerUp(who)
  PROVE  CoreInv'
<1> USE DEF finger_vars, lock_vars, goodix_vars, hbm_vars
<1>1. /\ mCommandMutex = "free" /\ mCommandMutex' \in { "framework", "vendor" }
      /\ handling' \in { "storeDown", "storeUp" }
      /\ handling' = "storeDown" => mFingerSequence < MaxSequence
      /\ mFingerSequence' = mFingerSequence + 1
      /\ UNCHANGED << mFingerDown, mCommandQueue, goodix_vars >>
  BY DEF FingerDown, FingerUp
<1>2. handling = "none" /\ sending = NoCommand
  BY <1>1 DEF FpInv, MutexHeld
<1>3. QueueIsPast'
  <2>1. \A m \in Nat, n \in Nat : m <= n => m <= n + 1 /\ m # n + 1
    OBVIOUS
  <2>2. ASSUME NEW i \in 1 .. Len(mCommandQueue)
        PROVE  /\ mCommandQueue[i].sequence <= mFingerSequence + 1
               /\ mCommandQueue[i].sequence # mFingerSequence + 1
    <3>1. mCommandQueue[i] \in Commands
      BY DEF FpInv, FpTypeOK
    <3>2. mCommandQueue[i].sequence \in Nat /\ mFingerSequence \in Nat
      BY <3>1, CommandFields
    <3>3. mCommandQueue[i].sequence <= mFingerSequence
      BY DEF FpInv, QueueIsPast, CommandIsPast
    <3> QED BY <2>1, <3>2, <3>3
  <2> QED BY <1>1, <2>2 DEF QueueIsPast, CommandIsPast
<1>4. PressBounded'
  <2>1. \A n \in Nat : n < MaxSequence => n + 1 \in 1 .. MaxSequence /\ n + 1 <= MaxSequence
    BY CommandFields
  <2> QED BY <1>1, <2>1, CommandFields DEF PressBounded
<1>5. MutexHeld' /\ HandlerKnowsFinger' /\ CommandFitsFinger' /\ PressIsLit' /\ HbmWhileSampling' /\ DownIsFirst'
  BY <1>1, <1>2 DEF FpInv, MutexHeld, HandlerKnowsFinger, CommandFitsFinger, PressIsLit, HbmWhileSampling,
                    DownIsFirst
<1> QED BY <1>3, <1>4, <1>5 DEF CoreInv

\* The handler stores whether the finger is down.
LEMMA StoreStep ==
  ASSUME FpInv, StoreDown \/ StoreUp
  PROVE  CoreInv'
<1> USE DEF finger_vars, lock_vars, goodix_vars, hbm_vars
<1>1. /\ handling # "none"
      /\ \/ handling = "storeDown" /\ handling' = "queueDown" /\ mFingerDown'
         \/ handling = "storeUp" /\ handling' = "queueUp" /\ ~mFingerDown'
      /\ UNCHANGED << mFingerSequence, mCommandMutex, mCommandQueue, goodix_vars >>
  BY DEF StoreDown, StoreUp
<1>2. sending = NoCommand
  BY <1>1 DEF FpInv, MutexHeld
<1>3. QueueIsPast'
  BY <1>1 DEF FpInv, QueueIsPast, CommandIsPast
<1>4. PressBounded'
  <2>1. mFingerSequence \in 1 .. MaxSequence => mFingerSequence <= MaxSequence
    BY CommandFields
  <2> QED BY <1>1, <2>1 DEF FpInv, PressBounded
<1>5. MutexHeld' /\ HandlerKnowsFinger' /\ CommandFitsFinger' /\ PressIsLit' /\ HbmWhileSampling' /\ DownIsFirst'
  BY <1>1, <1>2 DEF FpInv, MutexHeld, HandlerKnowsFinger, CommandFitsFinger, PressIsLit, HbmWhileSampling,
                    DownIsFirst
<1> QED BY <1>3, <1>4, <1>5 DEF CoreInv

\* The handler leaves DOWN or UP as the only command.
LEMMA QueueStep ==
  ASSUME FpInv, QueueDown \/ QueueUp
  PROVE  CoreInv'
<1> USE DEF finger_vars, lock_vars, goodix_vars, hbm_vars
<1>0. PICK kind \in { "DOWN", "UP" }, command \in Commands :
        /\ kind = (IF handling = "queueDown" THEN "DOWN" ELSE "UP")
        /\ command = [ sequence |-> mFingerSequence, command |-> kind ]
        /\ command.sequence = mFingerSequence /\ command.command = kind
  <2>1. PICK kind \in { "DOWN", "UP" } : kind = (IF handling = "queueDown" THEN "DOWN" ELSE "UP")
    OBVIOUS
  <2> QED BY <2>1, SomeCommand, CommandFields
<1>1. /\ handling \in { "queueDown", "queueUp" } /\ handling' = "none" /\ mCommandMutex' = "free"
      /\ mCommandQueue' = << command >>
      /\ handling = "queueDown" => hbm' \/ refused' = "on"
      /\ handling = "queueUp" => UNCHANGED hbm_vars
      /\ UNCHANGED << finger_vars, sending, sent >>
  BY <1>0 DEF QueueDown, QueueUp, RequestHbm
<1>2. sending = NoCommand /\ (handling = "queueDown" <=> mFingerDown)
  BY <1>1 DEF FpInv, MutexHeld, HandlerKnowsFinger
<1>3. mFingerSequence <= mFingerSequence
  BY CommandFields
<1>4. /\ \A i \in 1 .. Len(mCommandQueue') : mCommandQueue'[i] = command
      /\ mCommandQueue' # << >> /\ Head(mCommandQueue') = command
  BY <1>0, <1>1, Single
<1>5. QueueIsPast'
  <2>1. CommandIsPast(command)'
    BY <1>0, <1>1, <1>2, <1>3 DEF CommandIsPast
  <2> QED BY <1>4, <2>1 DEF QueueIsPast, CommandIsPast
<1>6. PressBounded' /\ MutexHeld' /\ HandlerKnowsFinger' /\ CommandFitsFinger' /\ PressIsLit'
  BY <1>1, <1>2 DEF FpInv, MutexHeld, PressBounded, HandlerKnowsFinger, CommandFitsFinger, PressIsLit
<1>7. HbmWhileSampling'
  BY <1>1 DEF FpInv, HbmWhileSampling
<1>8. DownIsFirst'
  BY <1>0, <1>1, <1>2, <1>4 DEF DownIsFirst
<1> QED BY <1>5, <1>6, <1>7, <1>8 DEF CoreInv

\* The command thread takes a command and holds the mutex, or drops it.
LEMMA TakeStep ==
  ASSUME FpInv, TakeCommand
  PROVE  CoreInv'
<1> USE DEF finger_vars, lock_vars, goodix_vars, hbm_vars
<1>1. /\ handling = "none" /\ sending = NoCommand
      /\ mCommandQueue # << >> /\ mCommandQueue \in Seq(Commands)
      /\ mCommandQueue' = Tail(mCommandQueue)
      /\ UNCHANGED << finger_vars, handling, sent, hbm_vars >>
  BY DEF TakeCommand, FpInv, MutexHeld, FpTypeOK
<1>2. PICK first \in Commands : first = Head(mCommandQueue) /\ CommandIsPast(first) /\ first # NoCommand
  BY <1>1, Taken, CommandFields DEF FpInv, QueueIsPast
<1>3. \/ Fits(first) /\ sending' = first /\ mCommandMutex' = "commands"
      \/ ~Fits(first) /\ sending' = sending /\ mCommandMutex' = mCommandMutex
  BY <1>2 DEF TakeCommand
<1>4. QueueIsPast'
  <2>1. \A d : CommandIsPast(d) => CommandIsPast(d)'
    BY <1>1 DEF CommandIsPast
  <2>2. ASSUME NEW i \in 1 .. Len(mCommandQueue')
        PROVE  CommandIsPast(mCommandQueue[i])'
    <3>1. CommandIsPast(mCommandQueue[i + 1]) /\ mCommandQueue'[i] = mCommandQueue[i + 1]
      BY <1>1, Taken DEF FpInv, QueueIsPast
    <3> QED BY <2>1, <3>1 DEF CommandIsPast
  <2> QED BY <2>2 DEF QueueIsPast
<1>5. Fits(first) => /\ first.sequence = mFingerSequence
                     /\ first.command \in { "DOWN", "UP", "STABLE", "CLOSE" }
                     /\ mFingerDown <=> first.command \in { "DOWN", "STABLE" }
  BY <1>1, <1>2, CommandFields DEF Fits, CommandIsPast
<1>6. CommandFitsFinger'
  BY <1>1, <1>3, <1>5 DEF FpInv, CommandFitsFinger
<1>7. DownIsFirst'
  <2>1. Head(mCommandQueue) = [ sequence |-> mFingerSequence, command |-> "DOWN" ] /\ mFingerDown
        => Fits(first) /\ first.command = "DOWN"
    <3>1. mFingerSequence \in Sequences
      BY DEF FpInv, FpTypeOK
    <3> QED BY <1>2, <3>1, CommandFields DEF Fits
  <2> QED BY <1>1, <1>2, <1>3, <2>1 DEF FpInv, DownIsFirst
<1>8. MutexHeld' /\ PressBounded' /\ HandlerKnowsFinger' /\ PressIsLit' /\ HbmWhileSampling'
  BY <1>1, <1>2, <1>3 DEF FpInv, MutexHeld, PressBounded, HandlerKnowsFinger, PressIsLit, HbmWhileSampling
<1> QED BY <1>4, <1>6, <1>7, <1>8 DEF CoreInv

\* The daemon was sent its command; after UP the light is to go off.
LEMMA SentStep ==
  ASSUME FpInv, CommandSent
  PROVE  CoreInv'
<1> USE DEF finger_vars, lock_vars, goodix_vars, hbm_vars
<1>1. /\ sending # NoCommand /\ sending' = NoCommand
      /\ mCommandMutex = "commands" /\ mCommandMutex' = "free" /\ handling = "none"
      /\ sent' = sending.command
      /\ sending.command # "UP" => UNCHANGED hbm_vars
      /\ UNCHANGED << finger_vars, handling, mCommandQueue >>
  BY DEF CommandSent, FpInv, MutexHeld
<1>2. mFingerDown <=> sending.command \in { "DOWN", "STABLE" }
  BY <1>1 DEF FpInv, CommandFitsFinger
<1>3. QueueIsPast'
  BY <1>1 DEF FpInv, QueueIsPast, CommandIsPast
<1>4. PressIsLit' /\ HbmWhileSampling'
  <2>1. mFingerDown => (hbm \/ refused = "on") /\ sending.command # "UP"
    BY <1>1, <1>2 DEF FpInv, PressIsLit
  <2> QED BY <1>1, <1>2, <2>1 DEF PressIsLit, HbmWhileSampling
<1>5. DownIsFirst'
  <2>1. mFingerDown => sent' \in { "DOWN", "STABLE" }
    BY <1>1, <1>2
  <2> QED BY <1>1, <2>1 DEF DownIsFirst
<1>6. MutexHeld' /\ PressBounded' /\ HandlerKnowsFinger' /\ CommandFitsFinger'
  BY <1>1 DEF FpInv, MutexHeld, PressBounded, HandlerKnowsFinger, CommandFitsFinger
<1> QED BY <1>3, <1>4, <1>5, <1>6 DEF CoreInv

-----------------------------------------------------------------------------
LEMMA FpInvInit == FpInit => FpInv
<1> SUFFICES ASSUME FpInit PROVE FpInv
  OBVIOUS
<1> USE FingerprintAssumption DEF FpInit
<1>1. 0 \in Sequences /\ NoCommand \notin Commands
  BY DEF Sequences, Commands
<1>2. << >> \in Seq(Commands) /\ Len(<< >>) = 0
  OBVIOUS
<1>3. FpTypeOK
  BY <1>1, <1>2 DEF FpTypeOK
<1>4. QueueIsPast
  BY <1>2 DEF QueueIsPast
<1>5. MutexHeld /\ PressBounded /\ HandlerKnowsFinger /\ CommandFitsFinger /\ PressIsLit /\ HbmWhileSampling
      /\ DownIsFirst
  BY DEF MutexHeld, PressBounded, HandlerKnowsFinger, CommandFitsFinger, PressIsLit, HbmWhileSampling, DownIsFirst
<1> QED BY <1>3, <1>4, <1>5 DEF FpInv

LEMMA FpInvStep == FpInv /\ [FpNext]_fpVars => FpInv'
<1> SUFFICES ASSUME FpInv, [FpNext]_fpVars PROVE FpInv'
  OBVIOUS
<1>1. FpTypeOK'
  BY FpTypeStep
<1> USE DEF finger_vars, lock_vars, goodix_vars, hbm_vars
<1>2. CoreInv'
  <2>1. CASE FingerDown \/ \E who \in { "framework", "vendor" } : FingerUp(who)
    BY <2>1, FingerStep
  <2>2. CASE StoreDown \/ StoreUp
    BY <2>2, StoreStep
  <2>3. CASE QueueDown \/ QueueUp
    BY <2>3, QueueStep
  <2>4. CASE TakeCommand
    BY <2>4, TakeStep
  <2>5. CASE CommandSent
    BY <2>5, SentStep
  <2>7. CASE SpotThread
    <3>1. CASE SpotPolls \/ SpotIsDown \/ SpotExchange \/ SpotUnstable \/ SpotIsUp \/ SpotReadsSequence
      BY <3>1, QuietStep DEF SpotPolls, SpotIsDown, SpotExchange, SpotUnstable, SpotIsUp, SpotReadsSequence, SpotKeeps
    <3>2. CASE SpotEnqueues
      <4>0. spotPc \in { "STABLE", "CLOSE" } /\ spotSequence \in Sequences
        BY <3>2 DEF SpotEnqueues, FpInv, FpTypeOK
      <4>1. PICK c \in Commands :
              c = [ sequence |-> spotSequence, command |-> spotPc ] /\ c.command \in { "STABLE", "CLOSE" }
        BY <4>0, SomeCommand
      <4> QED BY <3>2, <4>1, EnqueueStep DEF SpotEnqueues, SpotKeeps
    <3> QED BY <2>7, <3>1, <3>2 DEF SpotThread
  <2>8. ASSUME NEW s \in 1 .. MaxSequence, Waiter(s)
        PROVE  CoreInv'
    <3>1. CASE WaitEnds(s) \/ WaiterIsCurrent(s) \/ WaiterExchange(s)
      BY <3>1, QuietStep DEF WaitEnds, WaiterIsCurrent, WaiterExchange, WaiterKeeps
    <3>2. CASE WaiterEnqueues(s)
      <4>1. s \in Sequences
        BY CommandFields DEF Sequences
      <4>2. PICK c \in Commands : c = [ sequence |-> s, command |-> "STABLE" ] /\ c.command = "STABLE"
        BY <4>1, SomeCommand
      <4> QED BY <3>2, <4>2, EnqueueStep DEF WaiterEnqueues, WaiterKeeps
    <3> QED BY <2>8, <3>1, <3>2 DEF Waiter
  <2>9. CASE \/ \E who \in { "framework", "vendor" } : FingerUpAgain(who)
             \/ DisplayFollows \/ SetNotify \/ (\E m \in Messages : Notify(m)) \/ ClientTold \/ ClientDies
    BY <2>9, QuietStep DEF FingerUpAgain, DisplayFollows, SetNotify, Notify, ClientTold, ClientDies
  <2>10. CASE UNCHANGED fpVars
    BY <2>10, QuietStep DEF fpVars
  <2> QED BY <2>1, <2>2, <2>3, <2>4, <2>5, <2>7, <2>8, <2>9, <2>10 DEF FpNext, Handler
<1> QED BY <1>1, <1>2 DEF FpInv, CoreInv

LEMMA FpInvariant == FpSpec => []FpInv
BY FpInvInit, FpInvStep, PTL DEF FpSpec

-----------------------------------------------------------------------------
\* Type correctness of the HAL of BiometricsFingerprint.cpp, for any number of presses.
THEOREM FpTypeCorrect == FpSpec => []FpTypeOK
BY FpInvariant, PTL DEF FpInv

\* "No delayed command of an earlier press": what the daemon is being sent is of the press or
\* release that stands.
THEOREM FpCommandFitsFinger == FpSpec => []CommandFitsFinger
BY FpInvariant, PTL DEF FpInv

\* High brightness is on from the DOWN Goodix is sent to its UP or CLOSE (onFingerDown and the
\* command thread), or onFingerDown could not set the property (requestHbm).
THEOREM FpHbmWhileSampling == FpSpec => []HbmWhileSampling
BY FpInvariant, PTL DEF FpInv

\* Goodix is sent a stable light area in a press only (enqueueGoodixCommand).
THEOREM FpStableInsideAPress == FpSpec => StableInsideAPress
<1>1. FpInv /\ [FpNext]_fpVars => [sent' = "STABLE" /\ sent # "STABLE" => sent = "DOWN"]_sent
  <2> SUFFICES ASSUME FpInv, [FpNext]_fpVars, sent' = "STABLE", sent # "STABLE"
               PROVE  sent = "DOWN"
    OBVIOUS
  <2>1. CASE CommandSent
    <3>1. sending # NoCommand /\ sending.command = "STABLE"
      BY <2>1 DEF CommandSent
    <3>2. mFingerDown /\ handling = "none"
      BY <3>1 DEF FpInv, CommandFitsFinger, MutexHeld
    <3> QED BY <3>1, <3>2 DEF FpInv, DownIsFirst
  <2>2. CASE ~CommandSent
    <3>1. sent' = sent
      BY <2>2 DEF FpNext, Handler, FingerDown, FingerUp, FingerUpAgain, StoreDown, QueueDown, StoreUp, QueueUp,
                  TakeCommand, SpotThread, SpotPolls, SpotIsDown, SpotExchange, SpotUnstable, SpotIsUp,
                  SpotReadsSequence, SpotEnqueues, SpotKeeps, DisplayFollows, Waiter, WaitEnds, WaiterIsCurrent,
                  WaiterExchange, WaiterEnqueues, WaiterKeeps, SetNotify, Notify, ClientTold, ClientDies, fpVars,
                  goodix_vars
    <3> QED BY <3>1
  <2> QED BY <2>1, <2>2
<1> QED BY <1>1, FpInvariant, PTL DEF FpSpec, StableInsideAPress

------------------------------------------------------------------------------
(* The HAL of Oppo and Oplus.                                              *)

\* The flags tell what the client was told in the call they were cleared for: the client does not
\* change while a call waits.
AnswersAreFlagged ==
  /\ call = "cancel" /\ client = "set" /\ receivedCancel => cancelTold
  /\ call = "enumerate" /\ client = "set" /\ receivedEnumerate => enumerated # << >>

\* The inductive invariant of the Oppo HAL.
OppoInv ==
  /\ knownFingers \in Seq(Nat \ {0})
  /\ enumerated \in Seq([ finger : Nat, remaining : Nat ])
  /\ AnswersAreFlagged

\* What the HAL tells of its own: a list that is never empty and ends with nothing remaining.
LEMMA OwnEnumerationIsWhole ==
  ASSUME knownFingers \in Seq(Nat \ {0})
  PROVE  /\ OwnEnumeration \in Seq([ finger : Nat, remaining : Nat ])
         /\ OwnEnumeration # << >> /\ OwnEnumeration[Len(OwnEnumeration)].remaining = 0
         /\ \A k \in DOMAIN knownFingers : \E i \in DOMAIN OwnEnumeration : OwnEnumeration[i].finger = knownFingers[k]
  <1>1. CASE knownFingers = << >>
    <2>1. OwnEnumeration = << [ finger |-> 0, remaining |-> 0 ] >>
      BY <1>1 DEF OwnEnumeration
    <2> QED BY <1>1, <2>1
  <1>2. CASE knownFingers # << >>
    <2> DEFINE n == Len(knownFingers)
    <2>1. n \in Nat /\ n > 0 /\ DOMAIN knownFingers = 1 .. n /\ \A i \in 1 .. n : knownFingers[i] \in Nat
      BY <1>2
    <2>2. OwnEnumeration = [ i \in 1 .. n |-> [ finger |-> knownFingers[i], remaining |-> n - i ] ]
      BY <1>2 DEF OwnEnumeration
    <2> HIDE DEF n
    <2>3. \A i \in 1 .. n : OwnEnumeration[i] \in [ finger : Nat, remaining : Nat ]
      BY <2>1, <2>2
    <2>4. OwnEnumeration \in Seq([ finger : Nat, remaining : Nat ]) /\ Len(OwnEnumeration) = n
      BY <2>1, <2>2, <2>3
    <2>5. OwnEnumeration # << >> /\ OwnEnumeration[n].remaining = 0
      <3>1. OwnEnumeration # << >>
        BY <2>1, <2>4
      <3>2. OwnEnumeration[n] = [ finger |-> knownFingers[n], remaining |-> n - n ]
        BY <2>1, <2>2
      <3>3. n - n = 0
        BY <2>1
      <3> QED BY <3>1, <3>2, <3>3
    <2>6. ASSUME NEW k \in DOMAIN knownFingers
          PROVE  k \in DOMAIN OwnEnumeration /\ OwnEnumeration[k].finger = knownFingers[k]
      BY <2>1, <2>2
    <2> QED BY <2>4, <2>5, <2>6
  <1> QED BY <1>1, <1>2

\* The inductive invariant of the HAL between the framework and the vendor.
LEMMA OppoInvariant == OppoSpec => []OppoInv
  <1>1. OppoInit => OppoInv
    BY DEF OppoInit, OppoInv, AnswersAreFlagged
  <1>2. OppoInv /\ [OppoNext]_oppoVars => OppoInv'
    <2> SUFFICES ASSUME OppoInv, [OppoNext]_oppoVars
                 PROVE  OppoInv'
      OBVIOUS
    <2> USE DEF OppoInv, AnswersAreFlagged, call_vars, told_vars
    <2>1. ASSUME NEW c, setNotify(c) PROVE OppoInv'
      BY <2>1 DEF setNotify
    <2>2. CASE Cancel
      BY <2>2 DEF Cancel
    <2>3. CASE Enumerate
      BY <2>3 DEF Enumerate
    <2>4. ASSUME NEW s \in Statuses, CancelReturns(s) PROVE OppoInv'
      BY <2>4 DEF CancelReturns
    <2>5. ASSUME NEW s \in Statuses, EnumerateReturns(s) PROVE OppoInv'
      <3>1. call' # "cancel" /\ call' # "enumerate" /\ knownFingers' = knownFingers
        BY <2>5 DEF EnumerateReturns
      <3>2. enumerated' \in { enumerated, enumerated \o OwnEnumeration }
        BY <2>5 DEF EnumerateReturns
      <3>3. enumerated' \in Seq([ finger : Nat, remaining : Nat ])
        <4> DEFINE R == [ finger : Nat, remaining : Nat ]
        <4>1. OwnEnumeration \in Seq(R) /\ enumerated \in Seq(R)
          BY OwnEnumerationIsWhole
        <4> HIDE DEF R
        <4>2. enumerated \o OwnEnumeration \in Seq(R)
          BY <4>1
        <4> QED BY <3>2, <4>1, <4>2 DEF R
      <3> QED BY <3>1, <3>3
    <2>6. ASSUME NEW s \in Statuses, Forward(s) PROVE OppoInv'
      BY <2>6 DEF Forward
    <2>7. ASSUME NEW e \in Errors, OnError(e) PROVE OppoInv'
      BY <2>7 DEF OnError, OppoToAOSPFingerprintError
    <2>8. ASSUME NEW fs \in Templates, OnSyncTemplates(fs) PROVE OppoInv'
      <3>1. fs \in Seq(Nat \ {0})
        BY OppoAssumption
      <3> QED BY <2>8, <3>1 DEF OnSyncTemplates
    <2>9. ASSUME NEW fs \in Templates, NEW i \in 1 .. Len(fs), OnEnumerate(fs[i], Len(fs) - i) PROVE OppoInv'
      <3>1. [ finger |-> fs[i], remaining |-> Len(fs) - i ] \in [ finger : Nat, remaining : Nat ]
        <4>1. fs \in Seq(Nat \ {0})
          BY OppoAssumption
        <4> QED BY <4>1
      <3> DEFINE told == [ finger |-> fs[i], remaining |-> Len(fs) - i ]
      <3>2. enumerated' = (IF client = "set" THEN Append(enumerated, told) ELSE enumerated)
        BY <2>9 DEF OnEnumerate
      <3> HIDE DEF told
      <3>3. told \in [ finger : Nat, remaining : Nat ]
        BY <3>1 DEF told
      <3>4. enumerated' \in Seq([ finger : Nat, remaining : Nat ]) /\ (client = "set" => enumerated' # << >>)
        <4> DEFINE R == [ finger : Nat, remaining : Nat ]
        <4>1. told \in R /\ enumerated \in Seq(R)
          BY <3>3
        <4> HIDE DEF R
        <4>2. Append(enumerated, told) \in Seq(R) /\ Append(enumerated, told) # << >>
          <5>1. Append(enumerated, told) \in Seq(R)
            BY <4>1
          <5>2. Len(Append(enumerated, told)) = Len(enumerated) + 1 /\ Len(enumerated) \in Nat
            BY <4>1
          <5>3. Len(Append(enumerated, told)) # 0
            BY <5>2
          <5>4. Len(<< >>) = 0
            OBVIOUS
          <5>5. Append(enumerated, told) # << >>
            BY <5>3, <5>4, Zenon
          <5> QED BY <5>1, <5>5
        <4>3. enumerated' \in Seq(R)
          BY <3>2, <4>1, <4>2
        <4>4. client = "set" => enumerated' # << >>
          BY <3>2, <4>2
        <4> QED BY <4>3, <4>4 DEF R
      <3> QED BY <2>9, <3>4 DEF OnEnumerate
    <2>10. CASE Restart
      BY <2>10 DEF Restart
    <2>11. CASE UNCHANGED oppoVars
      BY <2>11 DEF oppoVars
    <2> QED BY <2>1, <2>2, <2>3, <2>4, <2>5, <2>6, <2>7, <2>8, <2>9, <2>10, <2>11 DEF OppoNext
  <1> QED BY <1>1, <1>2, PTL DEF OppoSpec

\* cancel does not return to a client that was told nothing, whoever told it: an error of the vendor
\* that comes before, in or after the call, of this request or an earlier one.
THEOREM OppoCancelIsAnswered == OppoSpec => CancelIsAnswered
  <1>1. OppoInv /\ [OppoNext]_oppoVars
          => [call = "cancel" /\ call' = "none" /\ client = "set" => cancelTold']_oppoVars
    <2> SUFFICES ASSUME OppoInv, OppoNext, call = "cancel", call' = "none", client = "set"
                 PROVE  cancelTold'
      OBVIOUS
    <2>1. PICK s \in Statuses : CancelReturns(s)
      BY DEF OppoNext, setNotify, Cancel, Enumerate, EnumerateReturns, Forward, OnError, OnSyncTemplates,
             OnEnumerate, Restart, call_vars
    <2> QED BY <2>1 DEF CancelReturns, OppoInv, AnswersAreFlagged
  <1> QED BY <1>1, OppoInvariant, PTL DEF OppoSpec, CancelIsAnswered

\* An enumerate the vendor accepts and has not begun to answer is answered by the HAL itself: each
\* known finger, and a last entry with nothing remaining.
THEOREM OppoEnumerateIsAnswered == OppoSpec => EnumerateIsAnswered
  <1> DEFINE Answered ==
        call = "enumerate" /\ call' = "none" /\ client = "set" /\ status' = "SYS_OK" /\ enumerated = << >> =>
          /\ enumerated' # << >> /\ enumerated'[Len(enumerated')].remaining = 0
          /\ \A f \in { knownFingers[i] : i \in DOMAIN knownFingers } :
               \E i \in DOMAIN enumerated' : enumerated'[i].finger = f
  <1>1. OppoInv /\ [OppoNext]_oppoVars => [Answered]_oppoVars
    <2> SUFFICES ASSUME OppoInv, OppoNext, call = "enumerate", call' = "none", client = "set",
                        status' = "SYS_OK", enumerated = << >>
                 PROVE  /\ enumerated' # << >> /\ enumerated'[Len(enumerated')].remaining = 0
                        /\ \A k \in DOMAIN knownFingers :
                             \E i \in DOMAIN enumerated' : enumerated'[i].finger = knownFingers[k]
      OBVIOUS
    <2>1. PICK s \in Statuses : EnumerateReturns(s)
      BY DEF OppoNext, setNotify, Cancel, Enumerate, CancelReturns, Forward, OnError, OnSyncTemplates,
             OnEnumerate, Restart, call_vars
    <2>2. ~receivedEnumerate
      BY DEF OppoInv, AnswersAreFlagged
    <2>3. enumerated' = enumerated \o OwnEnumeration
      BY <2>1, <2>2 DEF EnumerateReturns
    <2>4. enumerated' = OwnEnumeration
      BY <2>3, OwnEnumerationIsWhole DEF OppoInv
    <2> QED BY <2>4, OwnEnumerationIsWhole DEF OppoInv
  <1> QED BY <1>1, OppoInvariant, PTL DEF OppoSpec, EnumerateIsAnswered

==============================================================================
