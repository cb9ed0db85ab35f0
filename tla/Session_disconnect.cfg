SPECIFICATION ReadingSpec
CONSTANTS
  Kind = "telnet"
  ExitOverridden = FALSE
  Bytes = {"cr"}
  MaxBytes = 2
  MaxOut = 0
  OutKinds = {"out"}
  MaxRepeats = 0
PROPERTY DisconnectEndsSession
