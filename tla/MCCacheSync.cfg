SPECIFICATION FairSpec
CONSTANTS
  CACHE_LINE = 2
  HW_LINE = 2
  U64_MAX = 15
  Ranges <- SmallRanges
  Variants = {"loader", "kernel_dev", "kernel_release"}
INVARIANTS
  TypeOK
  FetchesNew
PROPERTIES
  OldLinesStayOut
  Returns
CHECK_DEADLOCK FALSE
