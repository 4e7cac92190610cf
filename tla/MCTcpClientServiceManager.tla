---------------------- MODULE MCTcpClientServiceManager ----------------------
(***************************************************************************)
(* Instances for TLC.                                                      *)
(***************************************************************************)
EXTENDS TcpClientServiceManager, TLC

MCAllMoves == {"send", "fin", "rst"}
MCEndings == {"fin", "rst"}
MCAborts == {"rst"}

\* Clients are interchangeable: nothing orders them but their place in lists.
MCSymmetry == Permutations(Client)
=============================================================================
