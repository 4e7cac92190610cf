-------------------------------- MODULE Shell --------------------------------
(***************************************************************************)
(* The shell: the three parts of it that keep a state from line to line,   *)
(* the parser, the file of the history, and the unit test parser.  Each    *)
(* says of the others what can be told from outside: the history gives the *)
(* parser any line that was complete once, and to the history and to a     *)
(* script the parser is what runs a command.                               *)
(***************************************************************************)
EXTENDS CommandParser

CONSTANTS
  Process, Short, Long, MAX_SAVED_CMDS, MaxPieces, MaxRuns,        \* History
  Pattern, Output, MaxLines, MaxCmds,                              \* UtParser
  MaxScripts    \* bound on "run ut" in scripts

\* A history of some length is kept, and no pattern is the name of a store.
ASSUME ShellAssumption == MAX_SAVED_CMDS \in Nat /\ "$INT_STORE1" \notin Pattern

VARIABLES
  file, at, typed, what, cmd_counter, cmd_recording_enabled, listed, choice,
  run, completed,                                                  \* History
  mq, ut_parser_recv_buff, TC_RUNNING, ut_parser_debug, int_store, ut_log_file,
  frames, place, cmd, late, serial, lines, due, tame               \* UtParser

history == <<file, at, typed, what, cmd_counter, cmd_recording_enabled, listed, choice,
             run, completed>>
ut == <<mq, ut_parser_recv_buff, TC_RUNNING, ut_parser_debug, int_store, ut_log_file,
        frames, place, cmd, late, serial, lines, due, tame>>

H == INSTANCE History WITH pc <- at
U == INSTANCE UtParser WITH pc <- place, MaxDepth <- MaxScripts

ParserStep == Next /\ UNCHANGED <<history, ut>>
HistoryStep == H!Next /\ UNCHANGED <<vars, ut>>
UtStep == U!Next /\ UNCHANGED <<vars, history>>

ShellInit == Init /\ H!Init /\ U!Init

ShellNext == ParserStep \/ HistoryStep \/ UtStep

ShellSpec == ShellInit /\ [][ShellNext]_<<vars, history, ut>>

-----------------------------------------------------------------------------
\* The number chosen is the line that was seen (History!TriggersWhatWasListed).
TriggersWhatWasListed == H!TriggersWhatWasListed

\* The file keeps the first commands of each run (History!KeepsTheFirstOfEach).
KeepsTheFirstOfEach == H!KeepsTheFirstOfEach

\* A verdict is about the last show (UtParser!VerdictsAreOwn).
VerdictsAreOwn == U!VerdictsAreOwn

\* No output is left in the queue (UtParser!QueueIsFree).
QueueIsFree == U!QueueIsFree
=============================================================================
