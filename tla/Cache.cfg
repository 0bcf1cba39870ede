SPECIFICATION Spec
CONSTANTS
  Workers = {t1, t2}
  Keys = {a, b}
  Lines = {l1, l2, l3, l4}
  Null = Null
  Sizes = {1, 3}
  MAX_CACHE_SIZE = 3
SYMMETRY Symmetry
INVARIANTS IInv NobodyStuck SizeAccounted
PROPERTY ImplementsLock
CHECK_DEADLOCK FALSE
