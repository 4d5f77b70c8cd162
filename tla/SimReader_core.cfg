\* The reader with all three backends, every PIN command, a user who waits
\* for the card's answer, and the relay sending one ATR per insertion.
CONSTANTS
  SimTypes = {"L1PHY", "TEST", "SAP"}
  PinModes = {"unlock", "enable", "disable", "change", "unblock"}
  CardPinInit = {"open", "locked", "blocked"}
  PatientUser = TRUE
  MaxInserts = 2
  MaxPin = 2
  MaxAtr = 1
  MaxRemoves = 1
  Cards <- MCCards
SPECIFICATION Spec
INVARIANT TypeOK
INVARIANT RecordFromOwnFile
INVARIANT NoAttachWhileInvalid
INVARIANT IccidFromOwnFile
PROPERTY ImplementsSimSession
CHECK_DEADLOCK FALSE
