---------------------------- MODULE OppoFingerprint ----------------------------
(***************************************************************************)
(* The fingerprint HAL of oppo-fp, line for line that of oplus-fp: calls   *)
(* of the framework go to the vendor's HAL, callbacks of the vendor to the *)
(* client.  One thread serves both, so a callback is served while a call   *)
(* waits in the vendor's HAL (the vendor calls back on that call's chain)  *)
(* or after it (the vendor's callback is oneway).  A vendor that does not  *)
(* answer cancel or enumerate is answered for: two static flags tell       *)
(* whether its answer came during the call.                                *)
(***************************************************************************)
EXTENDS Naturals, Sequences

CONSTANTS
  Statuses,       \* what the vendor's calls return
  Errors,         \* the errors it reports
  Templates       \* bound: the template lists it synchronises

ASSUME OppoAssumption ==
  /\ Statuses \subseteq STRING /\ Errors \subseteq STRING
  /\ \A fs \in Templates : fs \in Seq(Nat \ {0})

VARIABLES
  client,             \* mOppoClientCallback and the callback in it: "unset", "null" or "set"
  receivedCancel, receivedEnumerate, knownFingers,
  call,               \* the call that waits in the vendor's HAL
  status,             \* what the last call returned to the framework
  cancelTold,         \* history: ERROR_CANCELED told since the last cancel began
  enumerated          \* history: the onEnumerate told since the last enumerate began

oppoVars == << client, receivedCancel, receivedEnumerate, knownFingers, call, status, cancelTold, enumerated >>
call_vars == << call, status >>
told_vars == << cancelTold, enumerated >>

-----------------------------------------------------------------------------
OppoToAOSPRequestStatus(s) ==
  IF s \in { "SYS_OK", "SYS_ENOENT", "SYS_EINTR", "SYS_EIO", "SYS_EAGAIN", "SYS_ENOMEM", "SYS_EACCES", "SYS_EFAULT",
             "SYS_EBUSY", "SYS_EINVAL", "SYS_ENOSPC", "SYS_ETIMEDOUT" }
    THEN s ELSE "SYS_UNKNOWN"

\* An error the framework does not know is no error to it.
OppoToAOSPFingerprintError(e) ==
  IF e \in { "HW_UNAVAILABLE", "UNABLE_TO_PROCESS", "TIMEOUT", "NO_SPACE", "CANCELED", "UNABLE_TO_REMOVE", "LOCKOUT",
             "VENDOR" }
    THEN e ELSE "NO_ERROR"

setNotify(c) ==
  /\ call = "none"
  /\ client' = c
  /\ UNCHANGED << receivedCancel, receivedEnumerate, knownFingers, call_vars, told_vars >>

\* Mutant of Cancel: the flag of an earlier cancel stays.
Cancel_KeepsFlag ==
  /\ call = "none"
  /\ call' = "cancel"
  /\ cancelTold' = FALSE
  /\ UNCHANGED << client, receivedCancel, receivedEnumerate, knownFingers, status, enumerated >>

Cancel ==
  /\ call = "none"
  /\ call' = "cancel"
  /\ receivedCancel' = FALSE
  /\ cancelTold' = FALSE
  /\ UNCHANGED << client, receivedEnumerate, knownFingers, status, enumerated >>

\* The vendor's cancel returns; without its error the HAL tells the client itself.  No client
\* to tell ends the process.
CancelReturns(s) ==
  /\ call = "cancel"
  /\ call' = IF ~receivedCancel /\ client # "set" THEN "crashed" ELSE "none"
  /\ cancelTold' = (cancelTold \/ (~receivedCancel /\ client = "set"))
  /\ status' = OppoToAOSPRequestStatus(s)
  /\ UNCHANGED << client, receivedCancel, receivedEnumerate, knownFingers, enumerated >>

Enumerate ==
  /\ call = "none"
  /\ call' = "enumerate"
  /\ receivedEnumerate' = FALSE
  /\ enumerated' = << >>
  /\ UNCHANGED << client, receivedCancel, knownFingers, status, cancelTold >>

\* Mutant of OwnEnumeration: the remaining count is told before it is lowered.
OwnEnumeration_Late ==
  [ i \in 1 .. Len(knownFingers) |-> [ finger |-> knownFingers[i], remaining |-> Len(knownFingers) - i + 1 ] ]

\* The fingers of the last onSyncTemplates, or that there is none.
OwnEnumeration ==
  IF knownFingers = << >> THEN << [ finger |-> 0, remaining |-> 0 ] >>
  ELSE [ i \in 1 .. Len(knownFingers) |-> [ finger |-> knownFingers[i], remaining |-> Len(knownFingers) - i ] ]

EnumerateReturns(s) ==
  /\ call = "enumerate"
  /\ status' = OppoToAOSPRequestStatus(s)
  /\ LET own == status' = "SYS_OK" /\ ~receivedEnumerate IN
       /\ call' = IF own /\ client # "set" THEN "crashed" ELSE "none"
       /\ enumerated' = IF own /\ client = "set" THEN enumerated \o OwnEnumeration ELSE enumerated
  /\ UNCHANGED << client, receivedCancel, receivedEnumerate, knownFingers, cancelTold >>

\* preEnroll, enroll, postEnroll, remove, setActiveGroup and authenticate pass the call on.
Forward(s) ==
  /\ call = "none"
  /\ status' = OppoToAOSPRequestStatus(s)
  /\ UNCHANGED << client, receivedCancel, receivedEnumerate, knownFingers, call, told_vars >>

-----------------------------------------------------------------------------
\* The vendor's callbacks; only a registered one is called.

OnError(e) ==
  /\ client # "unset" /\ call # "crashed"
  /\ receivedCancel' = (receivedCancel \/ e = "CANCELED")
  /\ cancelTold' = (cancelTold \/ (client = "set" /\ OppoToAOSPFingerprintError(e) = "CANCELED"))
  /\ UNCHANGED << client, receivedEnumerate, knownFingers, call_vars, enumerated >>

OnEnumerate(finger, remaining) ==
  /\ client # "unset" /\ call # "crashed"
  /\ receivedEnumerate' = TRUE
  /\ enumerated' = IF client = "set" THEN Append(enumerated, [ finger |-> finger, remaining |-> remaining ])
                   ELSE enumerated
  /\ UNCHANGED << client, receivedCancel, knownFingers, call_vars, cancelTold >>

OnSyncTemplates(fingers) ==
  /\ client # "unset" /\ call # "crashed"
  /\ knownFingers' = fingers
  /\ UNCHANGED << client, receivedCancel, receivedEnumerate, call_vars, told_vars >>

-----------------------------------------------------------------------------
OppoInit ==
  /\ client = "unset"
  /\ receivedCancel = FALSE /\ receivedEnumerate = FALSE
  /\ knownFingers = << >>
  /\ call = "none" /\ status = "SYS_OK"
  /\ cancelTold = FALSE /\ enumerated = << >>

\* init starts a process that died anew: what it knew is lost, the client registers again.
Restart ==
  /\ call = "crashed"
  /\ client' = "unset"
  /\ receivedCancel' = FALSE /\ receivedEnumerate' = FALSE
  /\ knownFingers' = << >>
  /\ call' = "none"
  /\ UNCHANGED << status, told_vars >>

OppoNext ==
  \/ \E c \in { "null", "set" } : setNotify(c)
  \/ Cancel \/ Enumerate
  \/ \E s \in Statuses : CancelReturns(s) \/ EnumerateReturns(s) \/ Forward(s)
  \/ \E e \in Errors : OnError(e)
  \/ \E fs \in Templates : OnSyncTemplates(fs)
  \/ \E fs \in Templates : \E i \in 1 .. Len(fs) : Len(enumerated) < 3 /\ OnEnumerate(fs[i], Len(fs) - i)
  \/ Restart

OppoSpec == OppoInit /\ [][OppoNext]_oppoVars

-----------------------------------------------------------------------------
\* A client that cancels while it is registered is told ERROR_CANCELED by the time cancel
\* returns, by the vendor or by the HAL, whatever came late of earlier calls.
CancelIsAnswered ==
  [][call = "cancel" /\ call' = "none" /\ client = "set" => cancelTold']_oppoVars

\* A successful enumerate that the vendor did not begin to answer ends with a count of zero,
\* each known finger told once.
EnumerateIsAnswered ==
  [][call = "enumerate" /\ call' = "none" /\ client = "set" /\ status' = "SYS_OK" /\ enumerated = << >> =>
       /\ enumerated' # << >> /\ enumerated'[Len(enumerated')].remaining = 0
       /\ \A f \in { knownFingers[i] : i \in DOMAIN knownFingers } :
            \E i \in DOMAIN enumerated' : enumerated'[i].finger = f]_oppoVars

===============================================================================
