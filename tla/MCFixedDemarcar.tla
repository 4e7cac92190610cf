--------------------------- MODULE MCFixedDemarcar ---------------------------
(***************************************************************************)
(* Instance of TcpMsgFixedSizeDemarcar for TLC.                            *)
(***************************************************************************)
EXTENDS TcpMsgFixedSizeDemarcar

CONSTANT MaxBytes   \* bound: bytes received from a client

MCChunk == UNION {[1..n -> Byte] : n \in 1..3}

MCBytesBound == \A c \in Client : Len(received[c]) <= MaxBytes
=============================================================================
