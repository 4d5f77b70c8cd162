CONSTANTS
  SimTypes = {"L1PHY"}
  PinModes = {"unlock"}
  CardPinInit = {"open", "locked", "blocked"}
  PatientUser = TRUE
  MaxInserts = 1
  MaxPin = 2
  MaxAtr = 1
  MaxRemoves = 0
  Cards <- MCCards
SPECIFICATION Spec
PROPERTY ReadingResolves
CHECK_DEADLOCK FALSE
