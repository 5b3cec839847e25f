CONSTANTS
  NULL = NULL
  WordSize = 32
  MAXROMS = 4
  VideoStart = 10
  VideoEnd = 12
  ExtensionStart = 12
  MainboardRom = 15
  RomsEnd = 17
  MainboardSize = 2
  Static <- MCStatic
  E820Maps <- MCMaps
  RomMaps <- MCRoms
SPECIFICATION Spec
INVARIANTS KernelListed ExtensionsListed RootsInOrder
CHECK_DEADLOCK FALSE
