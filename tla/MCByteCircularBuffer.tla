------------------------ MODULE MCByteCircularBuffer ------------------------
(***************************************************************************)
(* Instance for TLC: a ring of five slots and two byte values, chunks of   *)
(* zero to four bytes and reads of zero to six, so that every branch of    *)
(* Write and Read is taken with and without a wrap, on the empty, the      *)
(* full and the partly filled ring, and a read asks for more than there is.*)
(***************************************************************************)
EXTENDS ByteCircularBuffer

MCByte == {0, 1}
MCChunk == UNION {[1..n -> MCByte] : n \in 0..4}
MCReadSize == 0..6
=============================================================================
