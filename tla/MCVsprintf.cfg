CONSTANTS
  IntBits = 6
  ShortBits = 3
  PointerDigits = 4
  Characters <- MCCharacters
  Formats <- MCFormats
SPECIFICATION VsprintfSpec
INVARIANT TextRight
CHECK_DEADLOCK FALSE
