---------------------------- MODULE CommandParser ----------------------------
(***************************************************************************)
(* The shell.  A line is matched against the command tree from the cursor  *)
(* down; the values of its leaves are collected as TLVs in one buffer,     *)
(* which the command's handler reads.  "/" and "?" move the cursor: the    *)
(* user is then in a mode, and the TLVs up to the checkpoint are its       *)
(* context, kept for the lines that follow.  "do" borrows the operational  *)
(* commands in config mode and puts cursor and context back.               *)
(*                                                                         *)
(* There is one thread, but the parser is entered again from within:       *)
(* "repeat" and "show history" parse a line, "config load" a file of       *)
(* lines, all with the same cursor and the same buffer.  calls is the      *)
(* stack of parse_input_cmd and parse_file.                                *)
(*                                                                         *)
(* What a command does to the servers is the matter of                     *)
(* TcpServerController, the file of the history that of History and        *)
(* "run ut" that of UtParser; leaf values are always accepted, as they     *)
(* are for the leaves the application registers.                           *)
(***************************************************************************)
EXTENDS CommandTree, SequencesExt

CONSTANTS Line,         \* what can be typed, as sequences of tokens
          FileText,     \* what a file to load may hold, as sequences of lines
          Abbreviates,  \* pairs of a token and a name it is a proper prefix of
          MaxDepth,     \* bound on the calls that are open at a time
          MaxContext    \* bound on the TLVs in the buffer between two lines

\* Tokens are strings, and enter alone is a line.
ASSUME LineAssumption == /\ Line \subseteq Seq(STRING) /\ <<>> \in Line
                         /\ FileText \subseteq Seq(Seq(STRING))
                         /\ MaxDepth \in Nat

\* "no" is the beginning of no other command, and what it begins with is no command
\* and the beginning of none but "name".
ASSUME AbbreviatesAssumption ==
  LET beginnings == {"no"} \cup {a[1] : a \in {b \in Abbreviates : b[2] = "no"}}
  IN \A t \in beginnings, p \in Param \cup Capability :
       /\ Name(p) = t => p = "no"
       /\ <<t, Name(p)>> \in Abbreviates => Name(p) \in {"no", "name"} /\ t # "no"

VARIABLES
  pc,          \* where the innermost call is
  cursor,      \* cmd_tree_cursor
  tlv_buff,    \* the TLVs in the buffer
  checkpoint,  \* the buffer's checkpoint, in TLVs
  value,       \* leaf -> its value_holder
  console_name,  \* what the prompt shows: the device and the mode
  last,        \* last_command_input_buffer
  calls,       \* parse_input_cmd and parse_file, innermost first
  todo,        \* build_tlv_buffer: the tokens left
  param, parent,
  enable_or_disable,
  failed,      \* None, or how the process ended
  lost         \* history: the context was thrown away while in a mode

parse == <<todo, param, parent, enable_or_disable>>
context == <<cursor, tlv_buff, checkpoint, value, console_name, lost>>
vars == <<pc, context, last, calls, parse, failed>>

TLV(leaf, val) == [leaf |-> leaf, val |-> val]
Code(p) == TLV("CMDCODE", CMDCODE(p))

\* What a TLV may say: a token, a code, or nothing.
Text == STRING \cup {CMDCODE(p) : p \in Param} \cup {""}

\* The TLVs of the leaves on the way to p, with the values they hold.
PathTLVs(p) == [i \in 1..Len(PathLeaves(p)) |->
                  TLV(PathLeaves(p)[i], value[PathLeaves(p)[i]])]

Init == /\ pc = "prompt" /\ cursor = "root"
        /\ tlv_buff = <<>> /\ checkpoint = 0
        /\ value = [l \in Leaf |-> ""]
        /\ console_name = [device |-> "TcpServerLibrary", mode |-> <<>>]
        /\ last = <<>> /\ calls = <<>>
        /\ todo = <<>> /\ param = "root" /\ parent = None
        /\ enable_or_disable = "MODE_UNKNOWN"
        /\ failed = None /\ lost = FALSE

-----------------------------------------------------------------------------
Innermost == calls[1]
TheLine == Innermost.lines[1]

\* No call of build_tlv_buffer has variables yet, or any more.
NoParse == /\ todo' = <<>> /\ param' = "root" /\ parent' = None
           /\ enable_or_disable' = "MODE_UNKNOWN"

\* Any beginning of "repeat" is one, whatever follows it.
IsRepeat(line) ==
  line # <<>> /\ (line[1] = "repeat" \/ <<line[1], "repeat">> \in Abbreviates)

\* parse_input_cmd is called.
Enter(line) ==
  /\ Len(calls) < MaxDepth
  /\ calls' = <<[of |-> "line", lines |-> <<line>>, old |-> None]>> \o calls
  /\ pc' = "dispatch"
  /\ NoParse

\* The innermost parse_input_cmd returns.
Pop == /\ calls' = Tail(calls)
       /\ pc' = IF Len(calls) = 1 THEN "prompt" ELSE "built"
       /\ last' = IF Len(calls) = 1 /\ ~IsRepeat(TheLine) THEN TheLine ELSE last

\* build_tlv_buffer is called, with the cursor at node p.
Build(tokens, p) == /\ todo' = tokens /\ param' = p /\ parent' = None
                    /\ enable_or_disable' = "MODE_UNKNOWN"
                    /\ pc' = "descend"

\* An assertion, a null pointer or memory overwritten: no step is taken after it.
Fail(how) == /\ pc' = "failed" /\ failed' = how
             /\ UNCHANGED <<context, last, calls, parse>>

\* The call of build_tlv_buffer, or what stands in its place, is over; its
\* variables are gone.
Over == pc' = "built" /\ NoParse

Nothing == Over /\ UNCHANGED <<context, last, calls, failed>>

reset_serialize_buffer == tlv_buff' = <<>> /\ checkpoint' = 0

\* What the prompt shows of a node.  A node "no" is taken for a leaf: where that has
\* its value, it has nothing.
Shown(p) == IF p \in Leaf THEN value[p] ELSE IF p \in NoCmd THEN "" ELSE Name(p)

\* Mutant of ShowMode: the prompt is not changed at the root.
ShowModeUnlessRoot(p) ==
  console_name' = [console_name EXCEPT !.mode =
                     IF p = "root" THEN @ ELSE [i \in DOMAIN Path(p) |-> Shown(Path(p)[i])]]

\* build_mode_console_name, and what is done in its place at the root.
ShowMode(p) ==
  console_name' = [console_name EXCEPT !.mode =
                     IF p = "root" THEN <<>> ELSE [i \in DOMAIN Path(p) |-> Shown(Path(p)[i])]]

\* Back to the context, or to nothing when the cursor is at the root.
RestoreOrReset ==
  IF cursor = "root"
  THEN reset_serialize_buffer /\ lost' = FALSE
  ELSE tlv_buff' = SubSeq(tlv_buff, 1, checkpoint) /\ UNCHANGED <<checkpoint, lost>>

-----------------------------------------------------------------------------
\* The user types a line.  The bound is needed: "/" in config mode, and a mode
\* entered from the history, leave a command code before the checkpoint.
Type == /\ pc = "prompt" /\ Len(tlv_buff) <= MaxContext
        /\ \E line \in Line : Enter(line)
        /\ UNCHANGED <<context, last, failed>>

\* Mutant of IS_CURRENT_MODE_CONFIG: any branch will do.
IsCurrentModeAny == Hook(cursor) # None

IS_CURRENT_MODE_CONFIG == Hook(cursor) = "config"

\* parse_input_cmd, up to the first call that does something.
IsDo == Len(TheLine) > 1 /\ TheLine[1] = "do" /\ cursor # "root"
IsLoad == Len(TheLine) = 3 /\ TheLine[1] = "config" /\ TheLine[2] = "load"
Dispatching == pc = "dispatch" /\ TheLine # <<>>

\* A line of blanks.  The buffer stays as it is.
NothingToParse == /\ pc = "dispatch" /\ TheLine = <<>>
                  /\ Pop
                  /\ UNCHANGED <<context, parse, failed>>

DoCommand ==
  /\ Dispatching /\ IsDo
  /\ CASE IS_CURRENT_MODE_CONFIG ->
            /\ calls' = [calls EXCEPT ![1].old = cursor]
            /\ cursor' = "do_hook"
            /\ reset_serialize_buffer
            /\ lost' = FALSE
            /\ Build(Tail(TheLine), "do_hook")
            /\ UNCHANGED <<value, console_name, last, failed>>
       [] Hook(cursor) = None -> Fail("null")
       [] OTHER -> Nothing

RepeatLine == /\ Dispatching /\ ~IsDo /\ IsRepeat(TheLine)
              /\ Enter(last)
              /\ UNCHANGED <<context, last, failed>>

\* "cd..": the TLV of the leaf that is left is taken out of the context, if
\* need be from below the start of the buffer.
go_one_level_up_cmd_tree ==
  /\ Dispatching /\ TheLine = <<"cd..">>
  /\ CASE cursor = "root" -> Nothing
       [] cursor = "do_hook" -> Fail("null")
       [] cursor \in Leaf /\ tlv_buff = <<>> -> Fail("rewind")
       [] OTHER ->
            /\ cursor' = Parent(cursor)
            /\ ShowMode(Parent(cursor))
            /\ CASE cursor' = "root" -> reset_serialize_buffer
                 [] cursor' # "root" /\ cursor \in Leaf ->
                      tlv_buff' = Front(tlv_buff) /\ checkpoint' = Len(tlv_buff) - 1
                 [] OTHER -> UNCHANGED <<tlv_buff, checkpoint>>
            /\ value' = [l \in Leaf |-> IF l = cursor THEN "" ELSE value[l]]
            /\ Over
            /\ UNCHANGED <<last, calls, failed, lost>>

\* "cd": a node "no" is taken for a leaf, and more is cleared than it has.
goto_top_of_cmd_tree ==
  /\ Dispatching /\ TheLine = <<"cd">>
  /\ CASE cursor = "root" -> Nothing
       [] cursor = "do_hook" -> Fail("null")
       [] cursor \in NoCmd -> Fail("overrun")
       [] OTHER ->
            /\ cursor' = "root"
            /\ ShowMode("root")
            /\ reset_serialize_buffer
            /\ value' = [l \in Leaf |-> IF Contains(PathLeaves(cursor), l)
                                        THEN "" ELSE value[l]]
            /\ Over
            /\ UNCHANGED <<last, calls, failed, lost>>

\* parse_file: it may not open; else the buffer is emptied, whatever the mode.
Load == /\ Dispatching /\ IsLoad
        /\ \/ Nothing
           \/ /\ Len(calls) < MaxDepth
              /\ \E text \in FileText :
                   calls' = <<[of |-> "file", lines |-> text, old |-> None]>> \o calls
              /\ reset_serialize_buffer
              /\ lost' = (PathLeaves(cursor) # <<>>)
              /\ pc' = "file"
              /\ UNCHANGED <<cursor, value, console_name, last, parse, failed>>

cls == Dispatching /\ TheLine = <<"cls">> /\ Nothing

Match == /\ Dispatching /\ ~IsDo /\ ~IsLoad /\ ~IsRepeat(TheLine)
         /\ TheLine \notin {<<"cd">>, <<"cd..">>, <<"cls">>}
         /\ Build(TheLine, cursor)
         /\ UNCHANGED <<context, last, calls, failed>>

Dispatch == \/ NothingToParse \/ DoCommand \/ RepeatLine \/ Load \/ cls \/ Match
            \/ go_one_level_up_cmd_tree \/ goto_top_of_cmd_tree

\* The next line of the file, or its end.
FileLine == /\ pc = "file" /\ Innermost.lines # <<>>
            /\ reset_serialize_buffer
            /\ lost' = (PathLeaves(cursor) # <<>>)
            /\ Build(TheLine, cursor)
            /\ UNCHANGED <<cursor, value, console_name, last, calls, failed>>

FileEnds == /\ pc = "file" /\ Innermost.lines = <<>>
            /\ calls' = Tail(calls) /\ pc' = "built"
            /\ UNCHANGED <<context, last, parse, failed>>

-----------------------------------------------------------------------------
\* What token t may mean below node p: a command, else the leaf, which takes
\* anything.  Of several commands the user chooses one, or none.
find_matching_param(p, t) ==
  LET commands == Options(p) \ Leaf
      exact == {q \in commands : Name(q) = t}
      longer == {q \in commands : <<t, Name(q)>> \in Abbreviates}
      leaves == Options(p) \cap Leaf
  IN IF exact # {} THEN exact
     ELSE IF Cardinality(longer) > 1 THEN longer \cup {None}
     ELSE IF longer # {} THEN longer
     ELSE IF leaves # {} THEN leaves
     ELSE {None}

\* build_tlv_buffer: one token.
Descend ==
  /\ pc = "descend" /\ todo # <<>>
  /\ \E q \in find_matching_param(param, Head(todo)) :
       IF q = None
       THEN Nothing
       ELSE /\ parent' = param /\ param' = q /\ todo' = Tail(todo)
            /\ IF q \in Leaf
               THEN /\ value' = [value EXCEPT ![q] = Head(todo)]
                    /\ tlv_buff' = Append(tlv_buff, TLV(q, Head(todo)))
               ELSE UNCHANGED <<value, tlv_buff>>
            /\ enable_or_disable' = IF q \in NoCmd THEN "CONFIG_DISABLE" ELSE enable_or_disable
            /\ UNCHANGED <<pc, cursor, checkpoint, console_name, lost, last, calls, failed>>

\* All tokens are matched: one action for each kind of node that may be last.
Matched == pc = "descend" /\ todo = <<>>

\* Mutant of Mode: in config mode a command enables.
ModeForgetsNo(p) == IF Hook(p) = "config" THEN "CONFIG_ENABLE" ELSE "OPERATIONAL"

\* What the handler of p is told to do.
Mode(p) == IF Hook(p) # "config" THEN "OPERATIONAL"
           ELSE IF enable_or_disable = "CONFIG_DISABLE" THEN "CONFIG_DISABLE"
           ELSE "CONFIG_ENABLE"

Incomplete == /\ Matched
              /\ param \notin Capability /\ ~HasCallback(param)
              /\ Nothing

Expand == Matched /\ param = "." /\ Nothing

\* "?" enters the mode of the node it was asked about.
Suboptions ==
  /\ Matched /\ param = "?"
  /\ IF parent = "do_hook"
     THEN Fail("null")
     ELSE /\ checkpoint' = Len(tlv_buff) /\ cursor' = parent
          /\ IF parent = "root" THEN UNCHANGED console_name ELSE ShowMode(parent)
          /\ Over
          /\ UNCHANGED <<tlv_buff, value, lost, last, calls, failed>>

\* "/": the command code goes behind the checkpoint, where the next line does
\* not find it; then the node's own handler runs, if it has one.
EnterMode ==
  /\ Matched /\ param = "/"
  /\ IF parent = "root"
     THEN Fail("assert")
     ELSE /\ checkpoint' = Len(tlv_buff)
          /\ tlv_buff' = Append(tlv_buff, Code(parent))
          /\ cursor' = parent
          /\ ShowMode(parent)
          /\ IF HasCallback(parent)
             THEN /\ pc' = "invoke" /\ param' = parent /\ parent' = None /\ todo' = <<>>
                  /\ enable_or_disable' = Mode(parent)
             ELSE Over
          /\ UNCHANGED <<value, lost, last, calls, failed>>

Command ==
  /\ Matched /\ param \notin Capability /\ HasCallback(param)
  /\ tlv_buff' = IF param \in {"repeat", "config"} THEN tlv_buff
                 ELSE Append(tlv_buff, Code(param))
  /\ pc' = "invoke" /\ parent' = None /\ enable_or_disable' = Mode(param)
  /\ UNCHANGED <<cursor, checkpoint, value, console_name, lost, last, calls, todo, param,
                 failed>>

-----------------------------------------------------------------------------
\* The handlers.  Those of the application read all TLVs but the last one for
\* a name and make a string of it, though it be a null pointer.
Names(tlvs) == {i \in DOMAIN tlvs : tlvs[i].leaf \in {"name", "show-name"}}

ServerCommand == /\ pc = "invoke" /\ param \in Application
                 /\ IF Names(Front(tlv_buff)) = {} THEN Fail("noname") ELSE Nothing

config_mode_enter_handler ==
  /\ pc = "invoke" /\ param = "config"
  /\ cursor' = "config" /\ checkpoint' = Len(tlv_buff)
  /\ ShowMode("config")
  /\ Over
  /\ UNCHANGED <<tlv_buff, value, lost, last, calls, failed>>

\* Takes every TLV but the last for a name, and the one before that comes last.
config_console_name_handler ==
  /\ pc = "invoke" /\ param = "cons-name"
  /\ console_name' = [console_name EXCEPT !.device = tlv_buff[Len(tlv_buff) - 1].val]
  /\ Over
  /\ UNCHANGED <<cursor, tlv_buff, checkpoint, value, lost, last, calls, failed>>

\* The history holds whatever was complete in some mode: not "repeat", and nothing
\* that ends the process.
Recorded == Line \ {<<"repeat">>, <<>>, <<"run", "term">>, <<"do", "?">>}

show_history_callback ==
  /\ pc = "invoke" /\ param \in {"history", "N"}
  /\ \/ Nothing
     \/ /\ \E line \in Recorded : Enter(line)
        /\ UNCHANGED <<context, last, failed>>

\* "repeat" in a file.
repeat_last_command == /\ pc = "invoke" /\ param = "repeat"
                       /\ Enter(last)
                       /\ UNCHANGED <<context, last, failed>>

cli_terminate_handler == /\ pc = "invoke" /\ param = "term"
                         /\ pc' = "exit"
                         /\ UNCHANGED <<context, last, calls, parse, failed>>

\* Handlers that print, and "cd" and "cd.." where they are commands: at the root.
IdleHandler == /\ pc = "invoke" /\ param \in {"no", "file-name", "cd", "cd.."}
               /\ Nothing

Handler == \/ ServerCommand \/ config_mode_enter_handler \/ show_history_callback
           \/ config_console_name_handler
           \/ repeat_last_command \/ cli_terminate_handler \/ IdleHandler

-----------------------------------------------------------------------------
\* A line of a file is done.
FileLineDone == /\ pc = "built" /\ Innermost.of = "file"
                /\ RestoreOrReset
                /\ calls' = [calls EXCEPT ![1].lines = Tail(@)]
                /\ pc' = "file"
                /\ UNCHANGED <<cursor, value, console_name, last, parse, failed>>

\* Mutant of LeavesData: collected from the cursor up and not reversed.
LeavesDataReversed(p) == Reverse(PathTLVs(p))

\* build_cmd_tree_leaves_data; a node "no" is taken for a leaf.
LeavesData(p) == PathTLVs(p) \o (IF p \in NoCmd THEN <<TLV("garbage", "")>> ELSE <<>>)

\* A "do" is done.  Unless it has entered a mode, the old one comes back.  The mode is
\* asked for its branch, which the root does not have.
DoDone == /\ pc = "built" /\ Innermost.of = "line" /\ Innermost.old # None
          /\ IF cursor = "do_hook"
             THEN LET old == Innermost.old
                  IN /\ cursor' = old
                     /\ tlv_buff' = LeavesData(old)
                     /\ checkpoint' = Len(tlv_buff')
                     /\ lost' = (old \in NoCmd)
                     /\ calls' = [calls EXCEPT ![1].old = None]
                     /\ UNCHANGED <<pc, value, console_name, last, parse, failed>>
             ELSE IF Hook(cursor) = None THEN Fail("assert")
             ELSE IF IS_CURRENT_MODE_CONFIG THEN Fail("impossible")
             ELSE /\ calls' = [calls EXCEPT ![1].old = None]
                  /\ UNCHANGED <<pc, context, last, parse, failed>>

Return == /\ pc = "built" /\ Innermost.of = "line" /\ Innermost.old = None
          /\ RestoreOrReset
          /\ Pop
          /\ UNCHANGED <<cursor, value, console_name, parse, failed>>

Next == \/ Type \/ Dispatch \/ FileLine \/ FileEnds
        \/ Descend \/ Incomplete \/ Expand \/ Suboptions \/ EnterMode \/ Command
        \/ Handler \/ FileLineDone \/ DoDone \/ Return

Spec == Init /\ [][Next]_vars

-----------------------------------------------------------------------------

\* Types; and the context, to which every line returns, is part of the buffer:
\* no bytes from earlier lines come back with it.  (A part of ContextKept.)
TypeOK == /\ pc \in {"prompt", "dispatch", "descend", "invoke", "built", "file", "exit",
                    "failed"}
          /\ cursor \in Param
          /\ \A i \in DOMAIN tlv_buff : tlv_buff[i].leaf \in Leaf \cup {"CMDCODE", "garbage"}
          /\ checkpoint \in 0..Len(tlv_buff)
          /\ DOMAIN value = Leaf
          /\ last \in Line
          /\ Len(calls) <= MaxDepth /\ (pc = "prompt" <=> calls = <<>>)
          /\ param \in Param \cup Capability
          /\ parent \in Param \cup {None}
          /\ lost \in BOOLEAN
          /\ enable_or_disable \in {"MODE_UNKNOWN", "CONFIG_ENABLE", "CONFIG_DISABLE",
                                    "OPERATIONAL"}
          /\ pc = "failed" <=> failed # None
          /\ failed \in {None, "null", "assert", "rewind", "overrun", "noname", "impossible"}

\* The TLVs the application looks at.
OfTheServer(tlvs) ==
  Selected(tlvs, [leaf : {"name", "show-name", "addr", "port"}, val : Text])

\* What the prompt shows is what the next command will act on: between two lines
\* the buffer holds the values of the leaves on the way to the cursor and
\* nothing else of the application's, all of it kept by the checkpoint - after
\* "cd..", "?", "do", "repeat", the history and files, unless a file or "do"
\* below "no" has thrown the context away (parser.c:320, parser.c:388).  At no time
\* is the checkpoint behind the end of the buffer (TypeOK).
ContextKept == /\ TypeOK
               /\ pc = "prompt" /\ ~lost
                    => /\ OfTheServer(tlv_buff) = OfTheServer(PathTLVs(cursor))
                       /\ checkpoint = Len(tlv_buff)

\* A token that is taken for "no" where "no" may stand.
SaysNo(t) == t = "no" \/ <<t, "no">> \in Abbreviates

\* A handler of the application is given the leaves on the way to its command,
\* each once and with the value typed last, whichever mode, borrowed branch or
\* nested line it is called from, and its command code at the end; and it is told
\* to disable if and only if the line that called it, and no other, says "no"
\* (where no value says it).
HandlerSeesPath ==
  pc = "invoke" /\ param \in Application /\ ~lost
    => /\ OfTheServer(tlv_buff) = PathTLVs(param)
       /\ Last(tlv_buff) = Code(param)
       /\ (\A i \in DOMAIN tlv_buff : ~SaysNo(tlv_buff[i].val))
            => enable_or_disable = IF Hook(param) # "config" THEN "OPERATIONAL"
                                   ELSE IF \E i \in DOMAIN TheLine : SaysNo(TheLine[i])
                                   THEN "CONFIG_DISABLE" ELSE "CONFIG_ENABLE"

\* The prompt names the node the next line is matched from, with the values of the
\* leaves on the way to it, also after a "do", a file, a "repeat" or a line of the
\* history has moved the cursor, and when a value was typed anew in between
\* (parser.c:230 and cmd_hier.c:704 build it where the cursor is set, and nothing
\* else does).
PromptIsMode ==
  pc = "prompt" => console_name.mode = [i \in DOMAIN Path(cursor) |-> Shown(Path(cursor)[i])]

\* Whatever a command borrowed with "do" runs, lines of the history and files with
\* "do" in them too: while the cursor is where it was put for that, the innermost "do"
\* that is not over knows the node of config mode that it belongs to.  So no prompt
\* comes there, where the next "do" or "cd" would be a null pointer.
DoComesBack ==
  cursor = "do_hook" =>
    \E i \in DOMAIN calls : /\ calls[i].old # None /\ Hook(calls[i].old) = "config"
                           /\ \A j \in 1 .. i - 1 : calls[j].old = None
=============================================================================
