SPECIFICATION Spec
CONSTANTS
  MAXJOBS = 4
  Pid = {p1, p2, p3, p4}
  NoPid = NoPid
  MaxJid = 5
INVARIANT UniqueJids
CHECK_DEADLOCK FALSE
