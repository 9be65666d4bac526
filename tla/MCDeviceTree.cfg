SPECIFICATION Spec
CONSTANTS
  BYTE = 32
  FDT_MAGIC <- Magic
  ConfigTables <- SmallTables
  Source <- SourceOf
  Cuts <- SmallCuts
  ShortLengths <- SomeLengths
INVARIANTS
  TypeOK
  KernelPrintsFirmwareTree
  WrittenIsReadable
  RefusedIffCut
PROPERTIES
  TreeEnds
