SPECIFICATION Spec
CONSTANTS
  MAXJOBS = 1
  Pid = {p1}
  NoPid = NoPid
  Commands = {"run", "bgfg"}
  Keys = {"INT", "TSTP"}
  Splitters = {p1}
  MaxJid = 2
PROPERTY GroupContinued
CHECK_DEADLOCK FALSE
