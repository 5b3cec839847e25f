CONSTANTS
  TMOUT = 3
  LF = "LF"
  CR = "CR"
  Foreign = "foreign"
  Texts <- MCTexts
  DriverBytes = 2
SPECIFICATION SerialSpec
INVARIANTS ConsoleExact
PROPERTIES WriteReturns
CHECK_DEADLOCK FALSE
