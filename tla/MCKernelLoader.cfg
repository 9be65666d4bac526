SPECIFICATION FairSpec
CONSTANTS
  Images <- SmallImages
  PAGE_SIZE = 4
  U64_MAX = 63
  RamPages <- SmallRam
  Reserved <- FirmwareKeeps
  MemoryMaps <- UsualMaps
  FILE_PAGES = 1
  ADT_PAGES = 1
  STACK_PAGES = 2
INVARIANTS
  TypeOK
  NoSelfConflict
  NoStrayWrite
  ImageIntact
  HandOffDescribesMemory
PROPERTIES
  LoaderEnds
