SPECIFICATION Spec
CONSTANTS
  Client = {c1, c2}
  None = None
  HeaderSize = 2
  RingSize = 4
  ScratchSize = 2
  Modulus = 65536
  Chunk <- MCChunk
  StrayDigits <- MCStray
  MaxBytes = 5
SYMMETRY MCSymmetry
CONSTRAINT MCBytesBound
INVARIANTS FramedInOrder NothingLeftBehind ShortMessagesNeverFail
CHECK_DEADLOCK FALSE
