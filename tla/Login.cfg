SPECIFICATION FairSpec
CONSTANTS
  Username <- MCUsername
  Password <- MCPassword
  Names <- MCNames
  Char = {"u", "p"}
  MaxData = 4
INVARIANTS TypeOK Transparent CredentialsDecide

PROPERTIES LoginEnds DrainIsBounded ImplementsSession
