----------------------------- MODULE MCMsgsQueue -----------------------------
(***************************************************************************)
(* Instance for TLC: two listening threads, three messages, any number of  *)
(* Starts and Stops, and both values of the uninitialised flag.            *)
(***************************************************************************)
EXTENDS MsgsQueue

MCInitRunning == {TRUE, FALSE}
=============================================================================
