------------------------------- MODULE UtParser -------------------------------
(***************************************************************************)
(* The unit test parser, ut/utinfra/ut_parser.c: "run ut" reads a script   *)
(* line by line, runs its commands with the shell's parser and judges      *)
(* patterns against the output of the last "show" command.  That output    *)
(* comes back to the parser through a POSIX message queue with room for    *)
(* one message, filled by cli_out: by the handler of the command, so by    *)
(* the same thread, or later, by a thread the handler has asked.  The      *)
(* script is whatever the next line turns out to be.                       *)
(*                                                                         *)
(* Texts are sets of lines, lines are sets of patterns, and each text has  *)
(* its serial number in it.  Lines that only print, sleep or number a step *)
(* are left out; INT_STORE1 stands for the three stores.  The queue has a  *)
(* name in the system: what an earlier process has left in it is there.    *)
(***************************************************************************)
EXTENDS Naturals, Sequences

CONSTANTS Pattern,
          Output,       \* the line sets a command may write
          MaxLines,     \* bound on the lines read
          MaxCmds,      \* bound on the commands run
          MaxDepth      \* bound on "run ut" in scripts

VARIABLES
  mq,               \* the message queue
  ut_parser_recv_buff,  \* <<>> when its data size is 0, else the text in it
  TC_RUNNING, ut_parser_debug, int_store,
  ut_log_file,      \* whether the program has called ut_parser_init
  frames,           \* run_test_case, innermost first: tc_no and result list
  pc,               \* where the innermost is
  cmd,              \* the command that runs: whether it is a show, what it still writes
  late,             \* what other threads have still to write for commands
  serial, lines,    \* commands run and lines read so far
  due,              \* history: what the last show of this test case wrote
  tame              \* history: each show has written once at most, and at once, and
                    \* nothing else has written, nor debug, nor one "run ut" in another

recv == <<mq, ut_parser_recv_buff>>
flags == <<TC_RUNNING, ut_parser_debug, int_store, ut_log_file>>
history == <<due, tame>>
vars == <<recv, flags, frames, pc, cmd, late, serial, lines, history>>

MAX_MESSAGES == 1
Text(of, ls) == [of |-> of, lines |-> ls]
Idle == [show |-> FALSE, outs |-> <<>>]

Init == /\ mq \in {<<>>, <<Text(0, {Pattern})>>}
        /\ ut_parser_recv_buff = <<>>
        /\ TC_RUNNING = FALSE /\ ut_parser_debug = FALSE /\ int_store = 0
        /\ ut_log_file \in BOOLEAN
        /\ frames = <<>> /\ pc = "prompt" /\ cmd = Idle /\ late = <<>>
        /\ serial = 0 /\ lines = 0
        /\ due = <<>> /\ tame = (mq = <<>>)

-----------------------------------------------------------------------------
Innermost == frames[1]
Results == Innermost.results

\* run_test_case is called.  Without ut_parser_init its first line written to the
\* log is written to a null pointer.
run_test_case(tc_no) ==
  IF ~ut_log_file
  THEN pc' = "failed" /\ UNCHANGED <<frames, due>>
  ELSE /\ pc' = "line"
       /\ frames' = <<[tc_no |-> tc_no, results |-> <<>>]>> \o frames
       /\ due' = <<>>

\* The user types "run ut", or one of the commands that a script would also run:
\* with no test case running it prints.
UserRuns == /\ pc = "prompt" /\ lines < MaxLines
            /\ \E tc_no \in {0, 1} : run_test_case(tc_no)
            /\ UNCHANGED <<recv, flags, cmd, late, serial, lines, tame>>

\* The file ends, or the script is left.
Leave == /\ TC_RUNNING' = FALSE
         /\ frames' = Tail(frames)
         /\ pc' = IF Len(frames) = 1 THEN "prompt" ELSE "line"
         /\ due' = <<>>
         /\ UNCHANGED <<recv, ut_parser_debug, int_store, ut_log_file, cmd, late, serial, tame>>

Reading == pc = "line" /\ lines < MaxLines
NextLine == lines' = lines + 1

EndOfFile == pc \in {"line", "skip"} /\ Leave /\ UNCHANGED lines

ABORT == Reading /\ NextLine /\ Leave

\* A test case begins: the one asked for, or any.
Found == /\ TC_RUNNING' = TRUE /\ pc' = "line" /\ due' = <<>>
         /\ UNCHANGED <<recv, ut_parser_debug, int_store, ut_log_file, frames, cmd, late,
                        serial, tame>>

TESTCASE_BEGIN ==
  /\ Reading /\ NextLine
  /\ \E n \in {1, 2} :
       IF Innermost.tc_no \in {0, n} THEN Found
       ELSE pc' = "skip" /\ UNCHANGED <<recv, flags, frames, cmd, late, serial, history>>

\* All lines up to the test case asked for are skipped: what may stand before the
\* first one is not.
SkipToTestcase == pc = "skip" /\ Found /\ UNCHANGED lines

\* The results are printed and freed.  One test case was asked for: it is over, unless
\* a "run ut" in it has cleared the flag.
TESTCASE_END ==
  /\ Reading /\ NextLine
  /\ IF Innermost.tc_no # 0 /\ TC_RUNNING
     THEN Leave
     ELSE /\ frames' = [frames EXCEPT ![1].results = <<>>]
          /\ UNCHANGED <<recv, flags, pc, cmd, late, serial, history>>

-----------------------------------------------------------------------------
\* parse_input_cmd of a show command: its handler writes what it has to say, any
\* number of times, or has it written later.
CMD_show ==
  /\ Reading /\ NextLine /\ serial < MaxCmds
  /\ serial' = serial + 1
  /\ \E ls \in Output :
       LET text == Text(serial + 1, ls) IN
       \/ \E n \in 0..2 :
            /\ cmd' = [show |-> TRUE, outs |-> [i \in 1..n |-> text]]
            /\ due' = <<IF n = 0 THEN Text(serial + 1, {}) ELSE text>>
            /\ tame' = (tame /\ n < 2)
            /\ UNCHANGED late
       \/ /\ cmd' = [show |-> TRUE, outs |-> <<>>]
          /\ late' = Append(late, text)
          /\ due' = <<text>> /\ tame' = FALSE
  /\ pc' = "cmd"
  /\ UNCHANGED <<recv, flags, frames>>

\* Any other command: it may write too.
CMD_other ==
  /\ Reading /\ NextLine /\ serial < MaxCmds
  /\ serial' = serial + 1
  /\ \/ cmd' = Idle /\ UNCHANGED tame
     \/ /\ cmd' = [show |-> FALSE, outs |-> <<Text(serial + 1, {Pattern})>>]
        /\ tame' = (tame /\ ~TC_RUNNING)
  /\ pc' = "cmd"
  /\ UNCHANGED <<recv, flags, frames, late, due>>

\* "run ut" in a script.
CMD_run_ut ==
  /\ Reading /\ NextLine /\ Len(frames) < MaxDepth
  /\ \E tc_no \in {0, 1} : run_test_case(tc_no)
  /\ tame' = FALSE
  /\ UNCHANGED <<recv, flags, cmd, late, serial>>

\* "debug ut enable" and "debug ut disable" (set_ut_debug_flag).
CMD_debug_ut == /\ Reading /\ NextLine
                /\ ut_parser_debug' \in BOOLEAN
                /\ tame' = FALSE
                /\ UNCHANGED <<recv, TC_RUNNING, int_store, ut_log_file, frames, pc, cmd, late,
                               serial, due>>

\* A command the shell does not complete: the assertion fails.
CMD_incomplete == /\ Reading /\ NextLine
                  /\ pc' = "failed"
                  /\ UNCHANGED <<recv, flags, frames, cmd, late, serial, history>>

\* Mutant of cli_out: sends, though no test case runs.
CliOutAlways(text) == Len(mq) < MAX_MESSAGES /\ mq' = Append(mq, text)

\* Prints when no test case runs; else mq_send, which waits while the queue is full.
cli_out(text) ==
  IF ~TC_RUNNING THEN UNCHANGED mq
  ELSE Len(mq) < MAX_MESSAGES /\ mq' = Append(mq, text)

HandlerWrites ==
  /\ pc = "cmd" /\ cmd.outs # <<>>
  /\ cli_out(Head(cmd.outs))
  /\ cmd' = [cmd EXCEPT !.outs = Tail(@)]
  /\ UNCHANGED <<ut_parser_recv_buff, flags, frames, pc, late, serial, lines, history>>

OtherThreadWrites ==
  /\ late # <<>> /\ pc # "failed"
  /\ cli_out(Head(late))
  /\ late' = Tail(late)
  /\ UNCHANGED <<ut_parser_recv_buff, flags, frames, pc, cmd, serial, lines, history>>

\* Mutant of mq_timedreceive: the text received last stays.
TimeoutKeeps ==
  IF mq = <<>> THEN UNCHANGED recv
  ELSE /\ mq' = Tail(mq)
       /\ ut_parser_recv_buff' = IF ut_parser_debug THEN <<>> ELSE <<Head(mq)>>

\* The time to wait until is three seconds after 1970: an empty queue is a time-out at
\* once, and the buffer is cleared.  In debug mode it is cleared in any case.
mq_timedreceive ==
  IF mq = <<>> THEN ut_parser_recv_buff' = <<>> /\ UNCHANGED mq
  ELSE /\ mq' = Tail(mq)
       /\ ut_parser_recv_buff' = IF ut_parser_debug THEN <<>> ELSE <<Head(mq)>>

CommandReturns ==
  /\ pc = "cmd" /\ cmd.outs = <<>>
  /\ IF cmd.show /\ TC_RUNNING THEN mq_timedreceive ELSE UNCHANGED recv
  /\ cmd' = Idle /\ pc' = "line"
  /\ UNCHANGED <<flags, frames, late, serial, lines, history>>

-----------------------------------------------------------------------------
\* pattern_match: $INT_STORE1 in a pattern has been replaced by the number stored.
Contains(text, pattern) ==
  IF pattern = "$INT_STORE1" THEN text.of = int_store /\ text.lines # {}
  ELSE \E l \in text.lines : pattern \in l

pattern_match(buff, pattern) == buff # <<>> /\ Contains(buff[1], pattern)

\* PATTERN-MATCH and PATTERN-NOT-MATCH: tc_append_result.
PATTERN(match) ==
  /\ Reading /\ NextLine
  /\ \E p \in Pattern \cup {"$INT_STORE1"} :
       LET pass == (pattern_match(ut_parser_recv_buff, p) = match)
           \* What the test should say, if it is about a show at all.
           right == due = <<>> \/ ~TC_RUNNING \/ pass = (pattern_match(due, p) = match)
       IN frames' = [frames EXCEPT ![1].results = Append(@, [pass |-> pass, right |-> right])]
  /\ UNCHANGED <<recv, flags, pc, cmd, late, serial, history>>

Grepped(text, p) == Text(text.of, {l \in text.lines : p \in l})

\* Only lines with the pattern stay; if there are none the size is 0.
GREP ==
  /\ Reading /\ NextLine
  /\ \E p \in Pattern :
       LET grep(buff) == IF pattern_match(buff, p) THEN <<Grepped(buff[1], p)>> ELSE <<>>
       IN /\ ut_parser_recv_buff' = grep(ut_parser_recv_buff)
          /\ due' = [i \in DOMAIN due |-> Grepped(due[i], p)]
  /\ UNCHANGED <<mq, flags, frames, pc, cmd, late, serial, tame>>

\* string_fetch_integer of the one number there is.
INT_STORE ==
  /\ Reading /\ NextLine
  /\ int_store' = IF ut_parser_recv_buff = <<>> \/ ut_parser_recv_buff[1].lines = {} THEN 0
                  ELSE ut_parser_recv_buff[1].of
  /\ UNCHANGED <<recv, TC_RUNNING, ut_parser_debug, ut_log_file, frames, pc, cmd, late, serial,
                 history>>

Next == \/ UserRuns \/ EndOfFile \/ ABORT \/ TESTCASE_BEGIN \/ SkipToTestcase \/ TESTCASE_END
        \/ CMD_show \/ CMD_other \/ CMD_run_ut \/ CMD_debug_ut \/ CMD_incomplete
        \/ HandlerWrites \/ OtherThreadWrites \/ CommandReturns
        \/ PATTERN(TRUE) \/ PATTERN(FALSE) \/ GREP \/ INT_STORE

Spec == Init /\ [][Next]_vars

-----------------------------------------------------------------------------
\* While every show answers at once and once at most and nothing else writes, the
\* verdict of a pattern in a running test case is the one the output of the last show
\* in it deserves, after whatever greps, stores, other commands and earlier runs: the
\* buffer and the queue are static and outlive a run (ut_parser.c:280).
VerdictsAreOwn ==
  tame => \A i \in DOMAIN frames : \A k \in DOMAIN frames[i].results :
            frames[i].results[k].right

\* The parser waits for itself: it is the only one who could empty the queue.
WaitsForItself == pc = "cmd" /\ cmd.outs # <<>> /\ TC_RUNNING /\ Len(mq) = MAX_MESSAGES

\* In the same circumstances the queue is empty between two commands and after a run,
\* also when the run was aborted, so that no output is taken for that of a later
\* command and no handler waits in mq_send (ut_parser.c:552) for ever.
QueueIsFree == tame => /\ pc # "cmd" => mq = <<>>
                       /\ ~WaitsForItself
=============================================================================
