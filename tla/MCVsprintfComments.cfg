CONSTANTS
  IntBits = 6
  ShortBits = 3
  PointerDigits = 4
  Characters <- MCCharacters
  Formats <- MCCommented
SPECIFICATION VsprintfSpec
INVARIANT ReadAsCommented
CHECK_DEADLOCK FALSE
