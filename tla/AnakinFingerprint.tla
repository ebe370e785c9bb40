--------------------------- MODULE AnakinFingerprint ---------------------------
(***************************************************************************)
(* The under-display fingerprint HAL of anakin-fp.  A press travels as a   *)
(* sequence number: onFingerDown and onFingerUp start a new one under      *)
(* mCommandMutex, a command thread sends the Goodix daemon the queued      *)
(* commands with the mutex held, and two kinds of threads without it look  *)
(* for the moment the light area is stable: one watches the spot node, one *)
(* is started by every press and waits for high brightness (HBM) or a      *)
(* timeout.  mFingerSequence, mFingerDown and mLightAreaStable are atomics *)
(* those threads read one at a time, so each access is a step of its own.  *)
(* The vendor library reports through notify, on a thread of its own.      *)
(***************************************************************************)
EXTENDS Naturals, Sequences

CONSTANTS
  Messages,     \* messages of the vendor library, see MessageTypes
  MaxSequence,  \* bound: a press has at most this sequence number
  NoCommand, NoMessage,
  LiftFinger    \* notify is in the onFingerUp it calls

MessageTypes == { "error", "acquired", "enrolling", "removed", "authenticated", "enumerating" }

ASSUME FingerprintAssumption ==
  /\ MaxSequence \in Nat
  /\ Messages \subseteq [ type : MessageTypes, code : Nat ]
  /\ Messages \cap { NoMessage, LiftFinger } = {} /\ NoMessage # LiftFinger
  /\ NoCommand \notin [ sequence : Nat, command : { "DOWN", "UP", "STABLE", "CLOSE" } ]

VARIABLES
  mFingerSequence, mFingerDown, mLightAreaStable,
  mCommandMutex,    \* "free", or who holds it: "commands", "framework" or "vendor"
  mCommandQueue,
  handling,         \* what is left of the onFingerDown or onFingerUp that holds the mutex
  sending,          \* the command the daemon is being sent
  sent,             \* the command the last sendCommand was for, whatever came of it
  hbm,              \* the property sys.phh.oplus.fppress
  refused,          \* the last requestHbm, if the property could not be set: "on" or "off"
  spot, spotEvent,  \* the spot node, and whether poll has a change of it to tell
  spotPc, spotSequence,   \* the thread that watches the node
  waiter,           \* the thread a press started, by sequence
  mClientCallback,  \* "none", or how the client's callbacks end: "ok" or "dead"
  notifying         \* the message notify holds mClientCallbackMutex for

finger_vars == << mFingerSequence, mFingerDown >>
lock_vars   == << mCommandMutex, handling >>
hbm_vars    == << hbm, refused >>
goodix_vars == << sending, sent, hbm_vars >>
node_vars   == << spot, spotEvent >>
spot_vars   == << spotPc, spotSequence >>
client_vars == << mClientCallback, notifying >>
fpVars == << finger_vars, mLightAreaStable, lock_vars, mCommandQueue, goodix_vars, node_vars, spot_vars,
             waiter, client_vars >>

Sequences == 0 .. MaxSequence + 1
Commands == [ sequence : Sequences, command : { "DOWN", "UP", "STABLE", "CLOSE" } ]

-----------------------------------------------------------------------------
\* What a command must still meet, both when it is queued and when it is taken.
Fits(c) ==
  /\ c.sequence = mFingerSequence
  /\ c.command = "STABLE" => mFingerDown
  /\ c.command = "CLOSE" => ~mFingerDown

\* Mutant of Enqueue: a command goes to the front of the queue.
Enqueue_Front(c) ==
  /\ mCommandMutex = "free"
  /\ mCommandQueue' = IF Fits(c) THEN << c >> \o mCommandQueue ELSE mCommandQueue

\* enqueueGoodixCommand.
Enqueue(c) ==
  /\ mCommandMutex = "free"
  /\ mCommandQueue' = IF Fits(c) THEN Append(mCommandQueue, c) ELSE mCommandQueue

\* requestHbm; a property that cannot be set stays what it was, and the caller is not told.
RequestHbm(enabled) ==
  \/ hbm' = enabled /\ refused' = "none"
  \/ UNCHANGED hbm /\ refused' = IF enabled THEN "on" ELSE "off"

-----------------------------------------------------------------------------
\* The framework and, after a callback that failed, the vendor's thread.

\* onFingerDown locks the mutex and takes the next sequence number; then mFingerDown is
\* stored; then the rest, after which the mutex is free and a waiter of its own starts.
FingerDown ==
  /\ mCommandMutex = "free" /\ mFingerSequence < MaxSequence
  /\ mCommandMutex' = "framework"
  /\ handling' = "storeDown"
  /\ mFingerSequence' = mFingerSequence + 1
  /\ UNCHANGED << mFingerDown, mLightAreaStable, mCommandQueue, goodix_vars, node_vars, spot_vars, waiter,
                  client_vars >>

StoreDown ==
  /\ handling = "storeDown"
  /\ handling' = "queueDown"
  /\ mFingerDown' = TRUE
  /\ UNCHANGED << mFingerSequence, mLightAreaStable, mCommandMutex, mCommandQueue, goodix_vars, node_vars,
                  spot_vars, waiter, client_vars >>

QueueDown ==
  /\ handling = "queueDown"
  /\ handling' = "none" /\ mCommandMutex' = "free"
  /\ mLightAreaStable' = FALSE
  /\ mCommandQueue' = << [ sequence |-> mFingerSequence, command |-> "DOWN" ] >>
  /\ RequestHbm(TRUE)
  /\ waiter' = [ waiter EXCEPT ![mFingerSequence] = "wait" ]
  /\ UNCHANGED << finger_vars, sending, sent, node_vars, spot_vars, client_vars >>

MayLiftFinger(who) == IF who = "vendor" THEN notifying = LiftFinger ELSE TRUE
DoneBy(who) == notifying' = IF who = "vendor" THEN NoMessage ELSE notifying

\* Mutant of FingerUpAgain: the early return leaves the mutex locked.
FingerUpAgain_Locked(who) ==
  /\ mCommandMutex = "free" /\ MayLiftFinger(who)
  /\ ~mFingerDown
  /\ mCommandMutex' = who
  /\ DoneBy(who)
  /\ UNCHANGED << finger_vars, mLightAreaStable, handling, mCommandQueue, goodix_vars, node_vars, spot_vars, waiter,
                  mClientCallback >>

\* onFingerUp with no finger down does nothing.
FingerUpAgain(who) ==
  /\ mCommandMutex = "free" /\ MayLiftFinger(who)
  /\ ~mFingerDown
  /\ DoneBy(who)
  /\ UNCHANGED << finger_vars, mLightAreaStable, lock_vars, mCommandQueue, goodix_vars, node_vars, spot_vars, waiter,
                  mClientCallback >>

\* onFingerUp in the same three steps as onFingerDown; it leaves HBM to the command thread.
FingerUp(who) ==
  /\ mCommandMutex = "free" /\ MayLiftFinger(who)
  /\ mFingerDown
  /\ mCommandMutex' = who
  /\ handling' = "storeUp"
  /\ mFingerSequence' = mFingerSequence + 1
  /\ UNCHANGED << mFingerDown, mLightAreaStable, mCommandQueue, goodix_vars, node_vars, spot_vars, waiter, client_vars >>

StoreUp ==
  /\ handling = "storeUp"
  /\ handling' = "queueUp"
  /\ mFingerDown' = FALSE
  /\ UNCHANGED << mFingerSequence, mLightAreaStable, mCommandMutex, mCommandQueue, goodix_vars, node_vars,
                  spot_vars, waiter, client_vars >>

\* Mutant of QueueUp: high brightness is switched off at once.
QueueUp_HbmOff ==
  /\ handling = "queueUp"
  /\ handling' = "none" /\ mCommandMutex' = "free"
  /\ mLightAreaStable' = FALSE
  /\ mCommandQueue' = << [ sequence |-> mFingerSequence, command |-> "UP" ] >>
  /\ RequestHbm(FALSE)
  /\ DoneBy(mCommandMutex)
  /\ UNCHANGED << finger_vars, sending, sent, node_vars, spot_vars, waiter, mClientCallback >>

QueueUp ==
  /\ handling = "queueUp"
  /\ handling' = "none" /\ mCommandMutex' = "free"
  /\ mLightAreaStable' = FALSE
  /\ mCommandQueue' = << [ sequence |-> mFingerSequence, command |-> "UP" ] >>
  /\ DoneBy(mCommandMutex)
  /\ UNCHANGED << finger_vars, goodix_vars, node_vars, spot_vars, waiter, mClientCallback >>

-----------------------------------------------------------------------------
\* The command thread.

\* Mutant of TakeCommand: the mutex is unlocked before sendCommand.
TakeCommand_Unlocks ==
  /\ mCommandMutex = "free" /\ mCommandQueue # << >>
  /\ sending = NoCommand
  /\ mCommandQueue' = Tail(mCommandQueue)
  /\ sending' = IF Fits(Head(mCommandQueue)) THEN Head(mCommandQueue) ELSE NoCommand
  /\ UNCHANGED << finger_vars, mLightAreaStable, lock_vars, sent, hbm_vars, node_vars, spot_vars, waiter,
                  client_vars >>

\* It takes the oldest command and drops one that came too late.
TakeCommand ==
  /\ mCommandMutex = "free" /\ mCommandQueue # << >>
  /\ mCommandQueue' = Tail(mCommandQueue)
  /\ IF Fits(Head(mCommandQueue))
       THEN sending' = Head(mCommandQueue) /\ mCommandMutex' = "commands"
       ELSE UNCHANGED << sending, mCommandMutex >>
  /\ UNCHANGED << finger_vars, mLightAreaStable, handling, sent, hbm_vars, node_vars, spot_vars, waiter,
                  client_vars >>

\* Mutant of CommandSent: an UP the daemon did not get leaves high brightness on.
CommandSent_KeepsHbm ==
  /\ sending # NoCommand
  /\ sent' = sending.command
  /\ \E got \in BOOLEAN :
        IF sending.command = "UP" /\ got THEN RequestHbm(FALSE) ELSE UNCHANGED hbm_vars
  /\ sending' = NoCommand /\ mCommandMutex' = "free"
  /\ UNCHANGED << finger_vars, mLightAreaStable, handling, mCommandQueue, node_vars, spot_vars, waiter, client_vars >>

\* sendCommand returns, whenever the daemon lets it.  It may have failed, for want of a daemon or on
\* one that lives: that is logged, and what follows is the same.  So `sent` is what was tried, and
\* after UP high brightness goes off, whether or not the daemon got it.
CommandSent ==
  /\ sending # NoCommand
  /\ sent' = sending.command
  /\ IF sending.command = "UP" THEN RequestHbm(FALSE) ELSE UNCHANGED hbm_vars
  /\ sending' = NoCommand /\ mCommandMutex' = "free"
  /\ UNCHANGED << finger_vars, mLightAreaStable, handling, mCommandQueue, node_vars, spot_vars, waiter, client_vars >>

-----------------------------------------------------------------------------
\* The thread that watches the spot node: poll, then readBool; with the light on
\* mFingerDown, mLightAreaStable and mFingerSequence are read in turn and STABLE queued.

SpotTo(from, to) == spotPc = from /\ spotPc' = to
SpotKeeps == UNCHANGED << finger_vars, lock_vars, goodix_vars, spot, waiter, client_vars >>

SpotPolls ==
  /\ spotEvent /\ spotEvent' = FALSE
  /\ SpotTo("poll", IF spot THEN "isDown" ELSE "unstable")
  /\ SpotKeeps /\ UNCHANGED << mLightAreaStable, mCommandQueue, spotSequence >>

SpotIsDown ==
  /\ SpotTo("isDown", IF mFingerDown THEN "exchange" ELSE "poll")
  /\ SpotKeeps /\ UNCHANGED << mLightAreaStable, mCommandQueue, spotEvent, spotSequence >>

SpotExchange ==
  /\ SpotTo("exchange", IF mLightAreaStable THEN "poll" ELSE "sequence")
  /\ mLightAreaStable' = TRUE
  /\ SpotKeeps /\ UNCHANGED << mCommandQueue, spotEvent, spotSequence >>

\* The light went off: mLightAreaStable is reset whatever press it is of.
SpotUnstable ==
  /\ SpotTo("unstable", "isUp")
  /\ mLightAreaStable' = FALSE
  /\ SpotKeeps /\ UNCHANGED << mCommandQueue, spotEvent, spotSequence >>

SpotIsUp ==
  /\ SpotTo("isUp", IF mFingerDown THEN "poll" ELSE "sequenceUp")
  /\ SpotKeeps /\ UNCHANGED << mLightAreaStable, mCommandQueue, spotEvent, spotSequence >>

SpotReadsSequence ==
  /\ SpotTo("sequence", "STABLE") \/ SpotTo("sequenceUp", "CLOSE")
  /\ spotSequence' = mFingerSequence
  /\ SpotKeeps /\ UNCHANGED << mLightAreaStable, mCommandQueue, spotEvent >>

SpotEnqueues ==
  /\ spotPc \in { "STABLE", "CLOSE" } /\ spotPc' = "poll"
  /\ Enqueue([ sequence |-> spotSequence, command |-> spotPc ])
  /\ spotSequence' = 0
  /\ SpotKeeps /\ UNCHANGED << mLightAreaStable, spotEvent >>

SpotThread ==
  \/ SpotPolls \/ SpotIsDown \/ SpotExchange \/ SpotUnstable \/ SpotIsUp \/ SpotReadsSequence
  \/ SpotEnqueues

\* The display follows the property and tells poll so.
DisplayFollows ==
  /\ spot # hbm
  /\ spot' = hbm /\ spotEvent' = TRUE
  /\ UNCHANGED << finger_vars, mLightAreaStable, lock_vars, mCommandQueue, goodix_vars, spot_vars, waiter, client_vars >>

-----------------------------------------------------------------------------
\* The thread of press s.  waitForHbm ends when the finger is up, another press came, a
\* node says so or 120 ms have passed: at any time.  Its answer is not used, mFingerDown is
\* read again.

WaiterTo(s, from, to) == waiter[s] = from /\ waiter' = [ waiter EXCEPT ![s] = to ]
WaiterKeeps == UNCHANGED << finger_vars, lock_vars, goodix_vars, node_vars, spot_vars, client_vars >>

WaitEnds(s) ==
  /\ WaiterTo(s, "wait", IF mFingerDown THEN "isCurrent" ELSE "done")
  /\ WaiterKeeps /\ UNCHANGED << mLightAreaStable, mCommandQueue >>

WaiterIsCurrent(s) ==
  /\ WaiterTo(s, "isCurrent", IF mFingerSequence = s THEN "exchange" ELSE "done")
  /\ WaiterKeeps /\ UNCHANGED << mLightAreaStable, mCommandQueue >>

WaiterExchange(s) ==
  /\ WaiterTo(s, "exchange", IF mLightAreaStable THEN "done" ELSE "enqueue")
  /\ mLightAreaStable' = TRUE
  /\ WaiterKeeps /\ UNCHANGED mCommandQueue

WaiterEnqueues(s) ==
  /\ WaiterTo(s, "enqueue", "done")
  /\ Enqueue([ sequence |-> s, command |-> "STABLE" ])
  /\ WaiterKeeps /\ UNCHANGED mLightAreaStable

Waiter(s) == WaitEnds(s) \/ WaiterIsCurrent(s) \/ WaiterExchange(s) \/ WaiterEnqueues(s)

-----------------------------------------------------------------------------
\* notify and setNotify.

\* Goodix's own acquired codes are kept from the client.
Suppressed(m) == m.type = "acquired" /\ m.code \in { 1001, 1002 }

SetNotify ==
  /\ notifying = NoMessage
  /\ mClientCallback' = "ok"
  /\ UNCHANGED << finger_vars, mLightAreaStable, lock_vars, mCommandQueue, goodix_vars, node_vars, spot_vars, waiter,
                  notifying >>

\* A message for a client locks mClientCallbackMutex.
Notify(m) ==
  /\ notifying = NoMessage
  /\ mClientCallback # "none" /\ ~Suppressed(m)
  /\ notifying' = m
  /\ UNCHANGED << finger_vars, mLightAreaStable, lock_vars, mCommandQueue, goodix_vars, node_vars, spot_vars, waiter,
                  mClientCallback >>

\* The client's callback returns; when it could not be told that a finger was recognised the
\* finger is taken for lifted, with mClientCallbackMutex held.
ClientTold ==
  /\ notifying \in Messages
  /\ notifying' = IF mClientCallback = "dead" /\ notifying.type = "authenticated" /\ notifying.code # 0
                    THEN LiftFinger ELSE NoMessage
  /\ UNCHANGED << finger_vars, mLightAreaStable, lock_vars, mCommandQueue, goodix_vars, node_vars, spot_vars, waiter,
                  mClientCallback >>

ClientDies ==
  /\ mClientCallback = "ok"
  /\ mClientCallback' = "dead"
  /\ UNCHANGED << finger_vars, mLightAreaStable, lock_vars, mCommandQueue, goodix_vars, node_vars, spot_vars, waiter,
                  notifying >>

-----------------------------------------------------------------------------
\* The threads have started; the spot node may not exist.
FpInit ==
  /\ mFingerSequence = 0 /\ mFingerDown = FALSE /\ mLightAreaStable = FALSE
  /\ mCommandMutex = "free" /\ handling = "none"
  /\ mCommandQueue = << >> /\ sending = NoCommand
  /\ sent = "UP" /\ hbm = FALSE /\ refused = "none"
  /\ spot = FALSE /\ spotEvent = TRUE
  /\ spotPc \in { "poll", "exited" } /\ spotSequence = 0
  /\ waiter = [ s \in 1 .. MaxSequence |-> "none" ]
  /\ mClientCallback = "none" /\ notifying = NoMessage

Handler == StoreDown \/ QueueDown \/ StoreUp \/ QueueUp

FpNext ==
  \/ FingerDown
  \/ \E who \in { "framework", "vendor" } : FingerUp(who) \/ FingerUpAgain(who)
  \/ Handler
  \/ TakeCommand \/ CommandSent
  \/ SpotThread \/ DisplayFollows
  \/ \E s \in 1 .. MaxSequence : Waiter(s)
  \/ SetNotify
  \/ \E m \in Messages : Notify(m)
  \/ ClientTold \/ ClientDies

FpSpec == FpInit /\ [][FpNext]_fpVars

\* Every thread goes on; the presses themselves and the vendor's messages are nobody's duty, and
\* nor is the daemon's return of sendCommand: what needs it says so (DaemonReturns).  Presses
\* are bounded, so weak fairness is enough to get the mutex.
FpFairness ==
  /\ WF_fpVars(Handler) /\ WF_fpVars(TakeCommand)
  /\ WF_fpVars(ClientTold) /\ WF_fpVars(FingerUp("vendor") \/ FingerUpAgain("vendor"))
LightFairness ==
  /\ WF_fpVars(SpotThread) /\ WF_fpVars(DisplayFollows)
  /\ \A s \in 1 .. MaxSequence : WF_fpVars(Waiter(s))

-----------------------------------------------------------------------------
\* The values the variables range over; the mutex has the holder the steps under it say.
FpTypeOK ==
  /\ mFingerSequence \in Sequences
  /\ mFingerDown \in BOOLEAN /\ mLightAreaStable \in BOOLEAN
  /\ hbm \in BOOLEAN /\ spot \in BOOLEAN /\ spotEvent \in BOOLEAN
  /\ mCommandMutex \in { "free", "commands", "framework", "vendor" }
  /\ handling \in { "none", "storeDown", "queueDown", "storeUp", "queueUp" }
  /\ mCommandQueue \in Seq(Commands)
  /\ sending \in Commands \cup { NoCommand }
  /\ sent \in { "DOWN", "UP", "STABLE", "CLOSE" }
  /\ refused \in { "none", "on", "off" }
  /\ spotPc \in { "poll", "exited", "isDown", "exchange", "sequence", "STABLE", "unstable", "isUp", "sequenceUp", "CLOSE" }
  /\ spotSequence \in Sequences
  /\ waiter \in [ 1 .. MaxSequence -> { "none", "wait", "isCurrent", "exchange", "enqueue", "done" } ]
  /\ mClientCallback \in { "none", "ok", "dead" }
  /\ notifying \in Messages \cup { NoMessage, LiftFinger }

\* BiometricsFingerprint.h: the protocol stays serialized, no delayed command of an earlier
\* press executes during the next.  What the daemon is being sent is of the current press or
\* release, however the threads interleave.
CommandFitsFinger ==
  sending # NoCommand =>
    /\ sending.sequence = mFingerSequence
    /\ mFingerDown <=> sending.command \in { "DOWN", "STABLE" }

\* From the DOWN that was sent to Goodix until sendCommand of the UP or CLOSE has returned, high
\* brightness is on, unless onFingerDown could not set the property: it queues DOWN all the same.
HbmWhileSampling == sent \in { "DOWN", "STABLE" } => hbm \/ refused = "on"

\* 200002 comes after the 200001 of its press: the daemon is never sent a stable light area
\* unless it was sent the press first.
StableInsideAPress == [][sent' = "STABLE" /\ sent # "STABLE" => sent = "DOWN"]_sent

\* The daemon returns from every sendCommand: the call has no timeout and holds mCommandMutex.
DaemonReturns == []<>(sending = NoCommand)

\* After a finger was lifted high brightness goes off, or a finger is down again, whether or
\* not the daemon got the UP.  When the property cannot be set nothing tries again.
HbmGoesOff == DaemonReturns => (~mFingerDown /\ hbm) ~> (~hbm \/ mFingerDown \/ refused = "off")

\* notify comes back although it calls onFingerUp with mClientCallbackMutex held, so a client
\* can always register.
NotifyReturns == DaemonReturns => notifying # NoMessage ~> notifying = NoMessage

\* "Goodix starts sampling after 200002": a finger that stays down has it sent.
PressGetsStable ==
  DaemonReturns =>
    \A s \in 1 .. MaxSequence : <>[](mFingerDown /\ mFingerSequence = s) => <>[](sent = "STABLE")

===============================================================================
