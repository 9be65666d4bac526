SPECIFICATION Spec
CONSTANTS
  Images <- SmallImages
  PAGE_SIZE = 4
  U64_MAX = 63
  RamPages <- SmallRam
  Reserved <- FirmwareKeeps
  MemoryMaps <- TopMaps
  FILE_PAGES = 1
  ADT_PAGES = 1
  STACK_PAGES = 2
INVARIANTS
  NoReturnAfterExit
