SPECIFICATION FairSpec
CONSTANTS
  Workers = {w1, w2}
  Main = main
  Fds = {f1, f2, f3, f4, f5}
  NoFd = NoFd
  n = 2
  MAX_CONN = 5
INVARIANTS OneHolder IInv
PROPERTIES ImplementsQueue ConnectionsAreTaken
CHECK_DEADLOCK FALSE
