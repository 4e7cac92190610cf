SPECIFICATION Spec
CONSTANTS
  Client = {c1}
  None = None
  MaxClients = 1
  MaxThreads = 2
  MaxStarts = 1
  PeerMoves <- MCEndings
INVARIANT WriteAssertion
CHECK_DEADLOCK FALSE
