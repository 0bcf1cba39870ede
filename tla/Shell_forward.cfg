SPECIFICATION Spec
CONSTANTS
  MAXJOBS = 1
  Pid = {p1}
  NoPid = NoPid
  Commands = {"run"}
  Keys = {"INT", "TSTP"}
  Splitters = {}
  MaxJid = 2
PROPERTY ForwardKeepsShell
CHECK_DEADLOCK FALSE
