SPECIFICATION FairSpec
CONSTANTS
  Threads = {t1, t2}
  HEAP_SIZE = 5
  HEAP_ALIGN = 4
  HeapBase = 12
  USIZE = 16
  Layouts <- MixedLayouts
INVARIANTS
  TypeOK
  BlocksDisjoint
  RefusalIsFinal
PROPERTIES
  ImplementsContract
  AllocReturns
CHECK_DEADLOCK FALSE
