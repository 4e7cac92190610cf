------------------------------ MODULE MCDemarcar ------------------------------
(***************************************************************************)
(* Instances of TcpMsgVariableSizeDemarcar for TLC.                        *)
(***************************************************************************)
EXTENDS TcpMsgVariableSizeDemarcar, TLC

CONSTANT MaxBytes   \* bound: bytes received in all

\* Text that makes short, empty, padded, negative and over-read headers (Letter reads like Space here).
MCText == {2, Space, Minus}
MCChunk == UNION {[1..k -> MCText] : k \in 1..3}
MCStray == {<<>>, <<1>>}

MCSymmetry == Permutations(Client)

MCTotal == LET sum[S \in SUBSET Client] ==
                 IF S = {} THEN 0
                 ELSE LET c == CHOOSE c \in S : TRUE
                      IN Len(received[c]) + sum[S \ {c}]
           IN sum[Client]

MCBytesBound == MCTotal <= MaxBytes
==============================================================================
