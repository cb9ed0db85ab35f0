SPECIFICATION Spec
CONSTANTS
  Kind = "telnet"
  ExitOverridden = FALSE
  Bytes = {"ch", "bad", "cr", "lf", "nul"}
  MaxBytes = 2
  MaxOut = 1
  OutKinds = {"out"}
  MaxRepeats = 1
INVARIANTS TypeOK OutputConserved InputConserved LinesAsTyped EchoPrecedesReply WireInOrder
