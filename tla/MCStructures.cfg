SPECIFICATION MCSpec
CONSTANTS
  Byte <- MCByte
  Size = 5
  Chunk <- MCChunk
  ReadSize <- MCReadSize
  Node <- MCNode
  Key <- MCKey
  Value = {"x"}
  ScalarSize = {1}
  RealSize = {2}
  StringSize = {0, 3}
  InitSize = {1, 3}
  Unwritten <- MCBlank
  MaxPiece = 3
  Limit = 3
  Char = {"a", "b", "1", "t", "n", " "}
  Blank = " "
  Tab = "t"
  NL = "n"
  Digit = {"1"}
  LineText <- MCLineText
  Subject <- MCSubject
  Page <- MCPage
  Report <- MCReport
  Sub <- MCSub
  New <- MCNew
  Pattern <- MCPattern
  MAX_CMD_TREE_DEPTH = 2
  LEAF_VALUE_HOLDER_SIZE = 3
  MaxCalls = 2
INVARIANTS TokensAreWords TextAgrees
PROPERTIES FifoSpec ListSpec BufferSpec
\* The text functions are called a bounded number of times, and a buffer may end
\* hung, aborted or overrun.
CHECK_DEADLOCK FALSE
