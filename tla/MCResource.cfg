CONSTANTS
  Resources = {bus, r1, r2, r3}
  bus = bus
  NULL = NULL
  WordSize = 3
  StaticStart <- MCStart
  StaticEnd <- MCEnd
  Sizes = {1, 2}
SPECIFICATION Spec
INVARIANTS SiblingsInOrder
PROPERTY ClaimsSpec
CHECK_DEADLOCK FALSE
