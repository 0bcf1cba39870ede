SPECIFICATION LabsSpec
CONSTANTS
  Programs = {"queue", "console", "rio", "tiny", "csim", "trans", "btest"}
  Blocks = {b1, b2, b3, b4, b5, b6, b7}
  Null = Null
  Strings = {x, y}
  MaxReps = 2
  fail_limit = 2
  big_queue_size = 1
  MaxLength = 2
  MaxFails = 1
  MaxAlarms = 1
  Scripts <- MCScripts
  Main = "main"
  ReadSize = 8
  DefaultLimit = 2
  Messages <- MCMessages
  LineEnd = "nl"
  SocketSize = 2
  BufSize = 2
  MaxLen = 4
  Block = 2
  MaxHeaders = 2
  MaxAddresses = 2
  AddressBits = 3
  SetBits = 1
  LineCount = 2
  BlockBits = 0
  TraceAddresses <- MCAddresses
  MaxTrace = 5
  Sizes <- MCSizes
  CommandLines <- MCLines
  AllFunctions = "all"
  TEST_RANGE = 6
  SQRT_RANGE = 2
  CBRT_RANGE = 1
  RandomWords <- MCRandom
  MaxTimeouts = 1
SYMMETRY Sym
INVARIANTS QueueIntact NothingLost ScriptInOrder StatusHonest NothingKept
INVARIANTS TransposeRight MissesWithinGoal PuzzlesRight
PROPERTIES ImplementsSequence AlarmsCount ImplementsStream ImplementsLru
CHECK_DEADLOCK FALSE
