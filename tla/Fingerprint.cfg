SPECIFICATION FingerprintSpec
CONSTANTS
  MaxSequence = 2
  NoCommand = NoCommand
  NoMessage = NoMessage
  LiftFinger = LiftFinger
  Messages <- MCMessages
  Statuses = {"SYS_OK", "SYS_EBUSY", "SYS_WEIRD"}
  Errors = {"CANCELED", "LOCKOUT"}
  Templates <- MCTemplates
INVARIANTS CommandFitsFinger HbmWhileSampling
PROPERTIES StableInsideAPress HbmGoesOff NotifyReturns CancelIsAnswered EnumerateIsAnswered
