SPECIFICATION Spec
CONSTANTS
  Client = {c1, c2}
  Byte = {b1, b2}
  None = None
  FixedSize = 2
  RingSize = 4
  Chunk <- MCChunk
  MaxBytes = 4
CONSTRAINT MCBytesBound
INVARIANTS SlicesOfTheStream WriteNeverRefused
CHECK_DEADLOCK FALSE
