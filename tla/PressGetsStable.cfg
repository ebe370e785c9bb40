SPECIFICATION PressedSpec
CONSTANTS
  MaxSequence = 2
  NoCommand = NoCommand
  NoMessage = NoMessage
  LiftFinger = LiftFinger
  Messages = {}
  Statuses = {"SYS_OK", "SYS_EBUSY", "SYS_WEIRD"}
  Errors = {"CANCELED", "LOCKOUT"}
  Templates <- MCTemplates

PROPERTIES PressGetsStable
