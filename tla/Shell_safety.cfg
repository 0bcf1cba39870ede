SPECIFICATION Spec
CONSTANTS
  MAXJOBS = 2
  Pid = {p1, p2, p3}
  NoPid = NoPid
  Commands = {"run", "bgfg", "nojob"}
  Keys = {"INT", "TSTP"}
  Splitters = {}
  MaxJid = 2
SYMMETRY PidSymmetry
INVARIANTS
  AtMostOneFG
  PromptMeansNoForeground
  TableMatchesChildren
  StoppedIsListed
  ContinueFindsJob
  ForwardSparesBackground
  CrashOnlyWhenFull
  IInv
PROPERTY ImplementsJobControl
CHECK_DEADLOCK FALSE
