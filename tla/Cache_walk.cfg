SPECIFICATION FairSpec
CONSTANTS
  Workers = {t1}
  Keys = {a, b}
  Lines = {l1, l2, l3}
  Null = Null
  Sizes = {1}
  MAX_CACHE_SIZE = 2
PROPERTY LookupEnds
CHECK_DEADLOCK FALSE
