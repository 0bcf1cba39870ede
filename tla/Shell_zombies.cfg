SPECIFICATION FairSpec
CONSTANTS
  MAXJOBS = 2
  Pid = {p1}
  NoPid = NoPid
  Commands = {"run", "bgfg", "nojob"}
  Keys = {"INT", "TSTP"}
  Splitters = {}
  MaxJid = 2
PROPERTY ZombiesReaped
CHECK_DEADLOCK FALSE
