SPECIFICATION FairSpec
CONSTANTS
  MAXJOBS = 2
  Pid = {p1, p2}
  NoPid = NoPid
  Commands = {"run", "bgfg", "quit"}
  Keys = {"TSTP"}
  Splitters = {p1}
  MaxJid = 2
INVARIANT StoppedJobIsQuiet
PROPERTIES
  ForegroundReturns
  ZombiesReaped
CHECK_DEADLOCK FALSE
