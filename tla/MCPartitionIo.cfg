SPECIFICATION Spec
CONSTANTS
  DISK_SIZE = 5
  BASE = 1
  LEN = 3
  Byte = {0, 1}
  Buffers <- SmallBuffers
  Offsets <- SmallOffsets
INVARIANTS
  TypeOK
PROPERTIES
  OutsideUntouched
  ImplementsFixedFile
