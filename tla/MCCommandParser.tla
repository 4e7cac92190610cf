--------------------------- MODULE MCCommandParser ---------------------------
(***************************************************************************)
(* Instance for TLC: lines of every shape the parser tells apart, with two *)
(* servers.                                                                *)
(***************************************************************************)
EXTENDS CommandParser

MCLine == {<<>>, <<"cd">>, <<"cd..">>, <<"?">>, <<"/">>, <<"repeat">>, <<"config">>,
           <<"config", "load", "f">>,
           <<"config", "tcp-server", "s1">>, <<"config", "tcp-server", "s1", "/">>,
           <<"config", "tcp-server", "s2", "?">>,
           <<"config", "tcp-server", "s2", "a", "8080">>,
           <<"tcp-server", "s2", "/">>, <<"st">>, <<"a", "/">>, <<"8080">>,
           <<"n", "start">>, <<"no", "?">>, <<"show", "history">>,
           <<"show", "history", "5">>, <<"config", ".">>, <<"load", "f">>,
           <<"do", "show", "tcp-server", "s1">>, <<"do", "show", "history">>,
           <<"do", "show", "history", "/">>, <<"do", "?">>,
           <<"do", "config">>, <<"run", "term">>, <<"re", "it">>, <<"cls">>,
           <<"config", "console", "name", "d">>,
           <<"config", "tcp-server", "s1", "no", "st">>}

\* Lines of a file: a command that needs the context, a blank line, and others.
MCFileText == {<<<<"start">>, <<"cd">>>>, <<<<>>>>, <<<<"repeat">>>>,
               <<<<"config", "tcp-server", "s1", "/">>, <<"start">>>>}

\* A value_holder is written before it is read, but for those on the way to the
\* cursor or to the one a "do" will put back: the others make no difference.
MCRead == UNION {Range(PathLeaves(p)) :
                   p \in Param \cap ({cursor, param} \cup {call.old : call \in Range(calls)})}
MCView == <<pc, cursor, tlv_buff, checkpoint, [l \in MCRead |-> value[l]], console_name,
            last, calls, parse, failed, lost>>

MCAbbreviates == {<<"st", "start">>, <<"st", "stop">>, <<"re", "repeat">>,
                  <<"n", "no">>, <<"n", "name">>}
=============================================================================
