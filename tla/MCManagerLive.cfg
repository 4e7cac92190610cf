SPECIFICATION FairSpec
CONSTANTS
  Client = {c1, c2}
  None = None
  MaxClients = 1
  MaxThreads = 3
  MaxStarts = 1
  PeerMoves <- MCAborts
PROPERTIES ResetIsReported CallsReturn
CHECK_DEADLOCK FALSE
