SPECIFICATION Spec
CONSTANTS
  Threads = {t1}
  HEAP_SIZE = 9
  HEAP_ALIGN = 4
  HeapBase = 12
  USIZE = 32
  Layouts <- StrictLayouts
INVARIANTS
  ProperlyAligned
CHECK_DEADLOCK FALSE
