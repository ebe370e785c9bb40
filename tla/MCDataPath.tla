------------------------------ MODULE MCDataPath ------------------------------
(***************************************************************************)
(* Model checking the paths audio data takes through the processes: an     *)
(* AIDL session, in which its two sides meet; a write of a Bluetooth       *)
(* output stream, a read of an input stream, and the threads of the core   *)
(* HAL's streams.  The four share no state, so a behaviour is one of the   *)
(* four; the variables of the others stay put.                             *)
(***************************************************************************)
EXTENDS BluetoothAudioSession, BluetoothPcmPath, BluetoothStreamIn, CoreAudioStream

VARIABLE path   \* which of the four

pathVars == << path, sessionVars, pcmVars, inVars, vars >>

\* One core stream stands for those that do not run.
PathInit ==
  /\ path \in { "session", "write", "read", "core" }
  /\ SessionInit
  /\ PcmInit /\ (path # "write" => is_stereo_to_mono = FALSE)
  /\ InInit
  /\ Init /\ (path # "core" => class = "StreamOut" /\ major = 5)

PathNext ==
  /\ UNCHANGED path
  /\ \/ path = "session" /\ SessionNext /\ UNCHANGED << pcmVars, inVars, vars >>
     \/ path = "write" /\ PcmNext /\ UNCHANGED << sessionVars, inVars, vars >>
     \/ path = "read" /\ InNext /\ UNCHANGED << sessionVars, pcmVars, vars >>
     \/ path = "core" /\ Next /\ UNCHANGED << sessionVars, pcmVars, inVars >>

\* In their initial states nothing is under way in the parts: the fairness of one asks
\* nothing of a behaviour of another.
PathSpec ==
  PathInit /\ [][PathNext]_pathVars /\ WF_pcmVars(WriteGoesOn) /\ InFairness /\ Fairness
===============================================================================
