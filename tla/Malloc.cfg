SPECIFICATION Spec
CONSTANTS
  SEG_NUM = 3
  MAX_HEAP = 38
  Ids = {1, 2}
  Sizes = {24, 40}
  Stale = {0, 32}
INVARIANTS CheckersSilent BoundaryTags FreeLists PayloadsIntact DriverSilent NothingLeaked
PROPERTIES FailsOnlyWhenFull ImplementsAllocator
CHECK_DEADLOCK FALSE
