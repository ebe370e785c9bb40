----------------------------- MODULE MCFingerprint -----------------------------
(***************************************************************************)
(* Model checking the fingerprint HALs.  A device has one of them: a       *)
(* behaviour is one of the two, the variables of the other stay put.       *)
(***************************************************************************)
EXTENDS AnakinFingerprint, OppoFingerprint

MCMessages == { [ type |-> "authenticated", code |-> 7 ] }
MCTemplates == { << >>, << 3 >>, << 3, 5 >> }

VARIABLE hal   \* which of the two

vars == << hal, fpVars, oppoVars >>

FingerprintInit == hal \in { "anakin", "oppo" } /\ FpInit /\ OppoInit

FingerprintNext ==
  /\ UNCHANGED hal
  /\ \/ hal = "anakin" /\ FpNext /\ UNCHANGED oppoVars
     \/ hal = "oppo" /\ OppoNext /\ UNCHANGED fpVars

\* In its initial state nothing of AnakinFingerprint is under way: its fairness asks nothing
\* of a behaviour of the other HAL.
FingerprintSpec == FingerprintInit /\ [][FingerprintNext]_vars /\ FpFairness
PressedSpec ==
  hal = "anakin" /\ FpInit /\ OppoInit /\ [][FingerprintNext]_vars /\ FpFairness /\ LightFairness
===============================================================================
