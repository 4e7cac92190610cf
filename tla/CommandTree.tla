----------------------------- MODULE CommandTree -----------------------------
(***************************************************************************)
(* The tree of commands that init_libcli and the server application build, *)
(* and the questions the parser asks of it.  A node (param_t) is named by  *)
(* its command; nodes of the same name in different places get names of    *)
(* their own.  Commands whose handlers only print are left out, but for    *)
(* one of each shape.                                                      *)
(***************************************************************************)
EXTENDS Selection, FiniteSets

None == "NULL"

\* libcli_register_param: who was registered under whom.
Registered ==
  {<<"root", "show">>, <<"root", "config">>, <<"root", "run">>, <<"root", "repeat">>,
   <<"root", "cd">>, <<"root", "cd..">>,
   <<"show", "history">>, <<"history", "N">>,
   <<"show", "show-server">>, <<"show-server", "show-name">>,
   <<"config", "load">>, <<"load", "file-name">>,
   <<"config", "console">>, <<"console", "console-name">>, <<"console-name", "cons-name">>,
   <<"config", "tcp-server">>, <<"tcp-server", "name">>,
   <<"name", "start">>, <<"name", "stop">>, <<"name", "disable-conn-accept">>,
   <<"name", "addr">>, <<"addr", "port">>, <<"name", "no">>,
   <<"run", "term">>}

\* do_hook is not registered anywhere: it has no parent.
Param == {"root", "do_hook"} \cup {edge[2] : edge \in Registered}

\* The capabilities every node with children has: enter it, list, expand.
Capability == {"/", "?", "."}

Leaf == {"N", "show-name", "file-name", "cons-name", "name", "addr", "port"}
NoCmd == {"no"}

Children(p) == {edge[2] : edge \in {e \in Registered : e[1] = p}}

\* "no" has the other children of the node it was added to, who keep their
\* parent; it and do_hook are given "?" in the place of "/".
Options(p) ==
  IF p = "no" THEN (Children("name") \ NoCmd) \cup {"?", "."}
  ELSE IF p = "do_hook" THEN {"show", "?", "."}
  ELSE IF Children(p) = {} THEN {}
  ELSE Children(p) \cup Capability

Parent(p) == IF \E e \in Registered : e[2] = p
             THEN (CHOOSE e \in Registered : e[2] = p)[1]
             ELSE None

\* What has to be typed for a command.
Name(p) == IF p = "show-server" THEN "tcp-server"
           ELSE IF p = "console-name" THEN "name"
           ELSE p

HasCallback(p) == p \notin {"root", "do_hook", "show", "show-server", "run", "load",
                            "console", "console-name", "tcp-server", "addr"}

\* The handlers of the application.
Application == {"name", "start", "stop", "disable-conn-accept", "port", "show-name"}

CMDCODE(p) == IF p \in {"name", "port"} THEN "CREATE"
              ELSE IF p \in {"history", "N", "cons-name"} \cup Application THEN p
              ELSE "-1"

\* The node under the root that p belongs to.  There is none for the root, where
\* an assertion fails, and for do_hook, where the climb meets a null pointer.
Hook(p) ==
  LET climb[q \in Param] == IF Parent(q) = None THEN None
                            ELSE IF Parent(q) = "root" THEN q
                            ELSE climb[Parent(q)]
  IN climb[p]

\* The nodes from below the root down to p, and the leaves among them.
Path(p) ==
  LET path[q \in Param] == IF Parent(q) = None THEN <<>> ELSE Append(path[Parent(q)], q)
  IN path[p]

PathLeaves(p) == Selected(Path(p), Leaf)
=============================================================================
