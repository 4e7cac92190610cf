------------------------------- MODULE History -------------------------------
(***************************************************************************)
(* The history of commands: a file in the working directory that every     *)
(* process of the program appends its complete commands to, and "show      *)
(* history", which lists the file, lets the user choose a number and then  *)
(* runs what it reads at the place where that number was.  Between the     *)
(* listing and the choice other processes append; a process can be killed  *)
(* and started again at any time.  A write is one append: both fwrites are *)
(* in the buffer that fclose flushes.                                      *)
(*                                                                         *)
(* The file is read with fgets in pieces: a line that does not fit into    *)
(* the line buffer, which many blanks can make of any command, is two.     *)
(***************************************************************************)
EXTENDS Selection, SequencesExt

CONSTANTS Process,
          Short, Long,      \* commands of one and of two pieces
          MAX_SAVED_CMDS,
          MaxPieces,        \* bound on the file; nothing is typed beyond one line too many
          MaxRuns           \* bound on the starts of a process

\* Two of the commands of one piece.
ShowHistory == "show history"
ConfigLoad == "config load"
Command == Short \cup Long \cup {ShowHistory, ConfigLoad}
None == "NULL"

VARIABLES
  file,       \* the pieces in the file: of which line, which part, written by whom
  pc,         \* process -> where it is
  typed,      \* process -> the line typed
  what,       \* process -> what is being run on account of it
  cmd_counter, cmd_recording_enabled,
  listed,     \* process -> the pieces that the last listing printed
  choice,     \* process -> the number chosen from it and what was read there, if so
  run,        \* process -> how many times it was started
  completed   \* process -> the lines of this run that were to be recorded

process == <<pc, typed, what, listed, choice>>
vars == <<file, process, cmd_counter, cmd_recording_enabled, run, completed>>

Piece(line, part, by) == [line |-> line, part |-> part, by |-> by]
Pieces(line, by) == [i \in 1 .. IF line \in Long THEN 2 ELSE 1 |-> Piece(line, i, by)]

Init == /\ file = <<>>
        /\ pc = [p \in Process |-> "prompt"]
        /\ typed = [p \in Process |-> None] /\ what = typed
        /\ cmd_counter = [p \in Process |-> 0]
        /\ cmd_recording_enabled = [p \in Process |-> TRUE]
        /\ listed = [p \in Process |-> <<>>]
        /\ choice = [p \in Process |-> <<>>]
        /\ run = [p \in Process |-> 1]
        /\ completed = [p \in Process |-> <<>>]

-----------------------------------------------------------------------------
Goto(p, where) == pc' = [pc EXCEPT ![p] = where]

\* Where a process goes to run what stands in w.
RunOf(w) == IF w = ShowHistory THEN "list" ELSE "run"

Type(p) ==
  /\ pc[p] = "prompt" /\ Len(file) < MaxPieces /\ Len(completed[p]) <= MAX_SAVED_CMDS
  /\ \E line \in Command : /\ typed' = [typed EXCEPT ![p] = line]
                           /\ what' = [what EXCEPT ![p] = line]
                           /\ Goto(p, RunOf(line))
  /\ UNCHANGED <<file, cmd_counter, cmd_recording_enabled, listed, choice, run, completed>>

\* Any other command runs; parse_file switches the recording off for the line that
\* was typed, though it be the history that runs it.
Run(p) ==
  /\ pc[p] = "run"
  /\ cmd_recording_enabled' =
       [cmd_recording_enabled EXCEPT ![p] = @ /\ what[p] # ConfigLoad]
  /\ Goto(p, "over")
  /\ UNCHANGED <<file, typed, what, cmd_counter, listed, choice, run, completed>>

\* show_history_callback up to scanf: one offset more than there are pieces.
List(p) ==
  /\ pc[p] = "list"
  /\ listed' = [listed EXCEPT ![p] = file]
  /\ choice' = [choice EXCEPT ![p] = <<>>]
  /\ Goto(p, IF Len(file) + 1 > MAX_SAVED_CMDS THEN "overrun" ELSE "choose")
  /\ UNCHANGED <<file, typed, what, cmd_counter, cmd_recording_enabled, run, completed>>

\* Mutant of ReadAt: the line after the one whose offset was kept.
ReadNext(c) == IF c + 2 \in DOMAIN file THEN <<file[c + 2]>> ELSE <<>>

\* fseek to the offset of number c, and fgets.
ReadAt(c) == IF c + 1 \in DOMAIN file THEN <<file[c + 1]>> ELSE <<>>

\* A number is valid up to the one behind the last that was printed.  The second
\* part of a line is no command the first part was; none at all is an empty line.
Choose(p) ==
  /\ pc[p] = "choose"
  /\ \/ /\ \E c \in 0 .. Len(listed[p]) :
             LET read == ReadAt(c)
                 whole == read # <<>> /\ read[1].line \notin Long
             IN /\ choice' = [choice EXCEPT ![p] = <<c, read>>]
                /\ what' = [what EXCEPT ![p] = IF whole THEN read[1].line ELSE None]
                /\ Goto(p, RunOf(what'[p]))
     \/ Goto(p, "over") /\ UNCHANGED <<choice, what>>
  /\ UNCHANGED <<file, typed, cmd_counter, cmd_recording_enabled, listed, run, completed>>

\* Mutant of record_command: opens the file for writing anew.
RecordAnew(p) ==
  IF cmd_counter[p] = MAX_SAVED_CMDS THEN UNCHANGED <<file, cmd_counter>>
  ELSE /\ file' = Pieces(typed[p], <<p, run[p]>>)
       /\ cmd_counter' = [cmd_counter EXCEPT ![p] = @ + 1]

record_command(p) ==
  IF cmd_counter[p] = MAX_SAVED_CMDS THEN UNCHANGED <<file, cmd_counter>>
  ELSE /\ file' = file \o Pieces(typed[p], <<p, run[p]>>)
       /\ cmd_counter' = [cmd_counter EXCEPT ![p] = @ + 1]

\* command_parser, when the line is done.
Over(p) ==
  /\ pc[p] = "over"
  /\ IF cmd_recording_enabled[p]
     THEN record_command(p) /\ completed' = [completed EXCEPT ![p] = Append(@, typed[p])]
     ELSE UNCHANGED <<file, cmd_counter, completed>>
  /\ cmd_recording_enabled' = [cmd_recording_enabled EXCEPT ![p] = TRUE]
  /\ typed' = [typed EXCEPT ![p] = None] /\ what' = [what EXCEPT ![p] = None]
  /\ choice' = [choice EXCEPT ![p] = <<>>] /\ listed' = [listed EXCEPT ![p] = <<>>]
  /\ Goto(p, "prompt")
  /\ UNCHANGED run

\* The process ends, wherever it is, and another one is started.
Restart(p) ==
  /\ run[p] < MaxRuns
  /\ run' = [run EXCEPT ![p] = @ + 1]
  /\ cmd_counter' = [cmd_counter EXCEPT ![p] = 0]
  /\ cmd_recording_enabled' = [cmd_recording_enabled EXCEPT ![p] = TRUE]
  /\ typed' = [typed EXCEPT ![p] = None] /\ what' = [what EXCEPT ![p] = None]
  /\ choice' = [choice EXCEPT ![p] = <<>>] /\ listed' = [listed EXCEPT ![p] = <<>>]
  /\ completed' = [completed EXCEPT ![p] = <<>>]
  /\ Goto(p, "prompt")
  /\ UNCHANGED file

Next == \E p \in Process :
          Type(p) \/ Run(p) \/ List(p) \/ Choose(p) \/ Over(p) \/ Restart(p)

Spec == Init /\ [][Next]_vars

-----------------------------------------------------------------------------
\* The number the user chose is the line the user saw, however many processes have
\* appended since; the number behind the last one (clistd.c:264 lets it pass) is
\* nothing, or a line that another process has appended in the meantime.
TriggersWhatWasListed ==
  \A p \in Process :
    choice[p] # <<>> =>
      LET c == choice[p][1]
          read == choice[p][2]
      IN IF c < Len(listed[p]) THEN read = <<listed[p][c + 1]>>
         ELSE \A i \in DOMAIN read : read[i].by # <<p, run[p]>>

\* What the file has of the r-th run of p: one piece of each line.
Of(p, r) == Selected(file, [line : Command, part : {1}, by : {<<p, r>>}])

\* Of every run of a process the file has the first commands in their order, one
\* entry each, up to MAX_SAVED_CMDS, whoever else writes and whenever the others are
\* killed: nothing that "config load" or the history ran is among them.
KeepsTheFirstOfEach ==
  \A p \in Process :
    LET mine == Of(p, run[p])
        kept == [i \in DOMAIN mine |-> mine[i].line]
    IN /\ IsPrefix(kept, completed[p])
       /\ Len(kept) = Min({MAX_SAVED_CMDS, Len(completed[p])})
=============================================================================
