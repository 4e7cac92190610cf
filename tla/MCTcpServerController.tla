------------------------ MODULE MCTcpServerController ------------------------
(***************************************************************************)
(* Instances of TcpServerController for TLC.                               *)
(***************************************************************************)
EXTENDS TcpServerController

MCAnyFlags == SUBSET Flag
MCZeroFlags == {{}}
MCNotRunning == {FALSE}
MCAnyRunning == BOOLEAN
=============================================================================
