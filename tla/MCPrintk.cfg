CONSTANTS
  LOG_BUF_LEN = 6
  BufLen = 8
  WordSize = 12
  Chars = {"x", "<", ">", "4", "6", "newline"}
  Digits = {"4", "6"}
  NUL = "NUL"
  default_message_loglevel = "4"
  Messages <- MCMessages
SPECIFICATION FairSpec
INVARIANTS LinesMarked
PROPERTIES LogSpec CallReturns
CHECK_DEADLOCK FALSE
