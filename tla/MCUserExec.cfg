SPECIFICATION FairSpec
CONSTANTS
  Files <- AllFiles
  BootArgs <- AllArgs
  KernelUses <- UsedAtEnd
  Profiles = {TRUE, FALSE}
  RamBytes <- SmallRam
  U64_MAX = 63
  PAGE_SIZE = 4
  ALIGN_2M = 8
  STACK_SIZE = 8
  DEFAULT_TOP = 16
INVARIANTS
  TypeOK
  WritesStayInRegion
  ImageLaidOut
  EntryIsMain
PROPERTIES
  WellLinkedRuns
