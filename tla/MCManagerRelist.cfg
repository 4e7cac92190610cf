SPECIFICATION Spec
CONSTANTS
  Client = {c1, c2}
  None = None
  MaxClients = 1
  MaxThreads = 3
  MaxStarts = 2
  PeerMoves <- MCEndings
SYMMETRY MCSymmetry
INVARIANTS CommandFindsSlot OneThreadPerClient NoOrphanThread
           FailureExplained ListedIsHeld
CHECK_DEADLOCK FALSE
