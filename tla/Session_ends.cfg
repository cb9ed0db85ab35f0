SPECIFICATION FairSpec
CONSTANTS
  Kind = "ssh"
  ExitOverridden = TRUE
  Bytes = {"cr"}
  MaxBytes = 1
  MaxOut = 1
  OutKinds = {"out"}
  MaxRepeats = 0
PROPERTIES SessionEnds OutputIsSent
