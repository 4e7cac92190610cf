------------------------------- MODULE MCShell -------------------------------
(***************************************************************************)
(* Instance of Shell for TLC.  The parts share no variable: each behaviour *)
(* is about one of them (part).                                            *)
(*                                                                         *)
(* Two processes share a history for three commands; a script of five      *)
(* lines runs two commands and may run another script.                     *)
(***************************************************************************)
EXTENDS MCCommandParser, Shell

VARIABLE part

MCOutput == {{}, {{"A"}}, {{"A"}, {"B"}}}

MCInit == /\ part \in {"parser", "history", "ut"}
          /\ ShellInit
          /\ part # "ut" => mq = <<>> /\ ~ut_log_file

MCNext == /\ UNCHANGED part
          /\ \/ part = "parser" /\ ParserStep
             \/ part = "history" /\ HistoryStep
             \/ part = "ut" /\ UtStep

MCSpec == MCInit /\ [][MCNext]_<<part, vars, history, ut>>

MCShellView == <<part, MCView, history, ut>>
=============================================================================
