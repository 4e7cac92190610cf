SPECIFICATION Spec
CONSTANTS
  Client = {c1, c2}
  None = None
  MaxClients = 2
  MaxThreads = 2
  MaxStarts = 1
  PeerMoves <- MCAllMoves
SYMMETRY MCSymmetry
INVARIANTS ServesItsClients PollCountExact FailureExplained
CHECK_DEADLOCK FALSE
