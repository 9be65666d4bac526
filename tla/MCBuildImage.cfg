SPECIFICATION Spec
CONSTANTS
  PAGE = 4
  HEADER_SIZE = 2
  SEGMENT_COMMAND = 3
  ENTRY_COMMAND = 5
  USIZE = 64
  Histories <- SmallHistories
  Configs = {1, 2}
  MAX_COMMANDS = 2
INVARIANTS
  TypeOK
  CopiesApart
  ImageCarriesKernel
  LoaderIsTheBuilt
  BundleDescribesImage
  ExitReports
