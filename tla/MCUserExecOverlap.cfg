SPECIFICATION Spec
CONSTANTS
  Files <- Linked
  BootArgs <- FromLoader
  KernelUses <- UsedAnywhere
  Profiles = {TRUE, FALSE}
  RamBytes <- SmallRam
  U64_MAX = 63
  PAGE_SIZE = 4
  ALIGN_2M = 8
  STACK_SIZE = 8
  DEFAULT_TOP = 16
INVARIANTS
  RegionUnusedByKernel
