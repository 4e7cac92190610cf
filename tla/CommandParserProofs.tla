------------------------- MODULE CommandParserProofs -------------------------
(***************************************************************************)
(* The parser and its cursor: four invariants of the shell, which all      *)
(* follow from one that is inductive, IInv.                                *)
(*                                                                         *)
(* The tree is a constant, but Path, Hook and PathLeaves are functions     *)
(* defined along it; they are first shown to be what can be read off the   *)
(* tree (PathIs, HookIs, PathLeavesIs), by HandedDown: what holds at the   *)
(* top and passes from a node to those registered below it holds of all.   *)
(* The same goes for the selection of the application's TLVs.              *)
(*                                                                         *)
(* IInv says where the cursor can be and what a line can come to from      *)
(* there (ReachInv), what the prompt shows (PromptInv), what the buffer    *)
(* has up to the checkpoint and behind it (ContextInv), and which tokens   *)
(* have said "no" (ToldInv).  Then one lemma for each action, and for each *)
(* of them the parts of IInv that it can disturb.                          *)
(***************************************************************************)
EXTENDS CommandParser, WellFoundedInduction, SequenceTheorems, TLAPS

-----------------------------------------------------------------------------
\* A set of numbers that is not empty has a least one.
LEMMA LeastOf ==
  ASSUME NEW S \in SUBSET Nat, S # {}
  PROVE  \E i \in S : \A j \in S : i <= j
<1> DEFINE R == OpToRel(<, Nat)
<1>1. IsWellFoundedOn(R, Nat)
  BY NatLessThanWellFounded
<1>2. R = {ss \in Nat \X Nat : ss[1] < ss[2]}
  BY Zenon DEF OpToRel
<1> HIDE DEF R
<1>3. PICK i \in S : \A j \in S : ~(<<j, i>> \in R)
  BY <1>1, WFMin
<1>4. \A j \in S : j \in Nat /\ i \in Nat /\ ~(j < i)
  <2>1. \A a, b \in Nat : a < b => <<a, b>> \in R
    BY <1>2
  <2>2. QED
    BY <1>3, <2>1
<1>5. QED
  BY <1>4

\* Induction, over a set of numbers.
LEMMA Climb ==
  ASSUME NEW S, 0 \in S, \A n \in Nat : n \in S => n + 1 \in S
  PROVE  \A n \in Nat : n \in S
<1> SUFFICES ASSUME NEW m \in Nat, m \notin S PROVE FALSE
  OBVIOUS
<1> DEFINE T == {n \in Nat : n \notin S}
<1>1. PICK i \in T : \A j \in T : i <= j
  BY LeastOf
<1>2. i # 0 /\ i \in Nat /\ i \notin S
  OBVIOUS
<1>3. i - 1 \in Nat /\ ~(i <= i - 1) /\ i = (i - 1) + 1
  BY <1>2
<1>4. QED
  BY <1>1, <1>2, <1>3

-----------------------------------------------------------------------------
\* One more element of a selection.
Extended(s, S, f, n) == IF n = 0 THEN <<>>
                        ELSE IF s[n] \in S THEN Append(f[n - 1], s[n])
                        ELSE f[n - 1]

\* The function that counts up a selection.
Selecting(s, S, f) == f = [n \in 0..Len(s) |-> Extended(s, S, f, n)]

\* The function that Selected is defined by exists.
LEMMA SelectingExists ==
  ASSUME NEW T, NEW S, NEW s \in Seq(T)
  PROVE  \E f : f \in [0..Len(s) -> Seq(T)] /\ Selecting(s, S, f)
<1> DEFINE D == 0..Len(s)
           Upto(f, m) == f \in [D -> Seq(T)]
                         /\ \A n \in D : n <= m => f[n] = Extended(s, S, f, n)
           Good == {m \in Nat : \E f : Upto(f, m)}
<1>0. Len(s) \in Nat
  OBVIOUS
<1>1. 0 \in Good
  <2>1. Upto([n \in D |-> <<>>], 0)
    BY <1>0 DEF Extended
  <2>2. QED
    BY <2>1
<1>2. ASSUME NEW m \in Nat, m \in Good PROVE m + 1 \in Good
  <2>1. PICK f : Upto(f, m)
    BY <1>2
  <2>2. CASE m + 1 \in D
    <3> DEFINE g == [f EXCEPT ![m + 1] = Extended(s, S, f, m + 1)]
    <3>1. Extended(s, S, f, m + 1) \in Seq(T)
      <4>0. m + 1 \in 1..Len(s) /\ m \in D /\ (m + 1) - 1 = m /\ m + 1 # 0
        BY <1>0, <2>2
      <4>1. f[m] \in Seq(T) /\ (m + 1) - 1 = m /\ m + 1 # 0 /\ s[m + 1] \in T
        BY <2>1, <4>0
      <4>2. Append(f[m], s[m + 1]) \in Seq(T)
        BY <4>1
      <4>3. QED
        BY <4>1, <4>2 DEF Extended
    <3>2. g \in [D -> Seq(T)]
      BY <2>1, <3>1
    <3>3. ASSUME NEW n \in D, n <= m + 1 PROVE g[n] = Extended(s, S, g, n)
      <4>1. n # 0 => n - 1 \in D /\ n - 1 # m + 1 /\ g[n - 1] = f[n - 1]
        BY <1>0, <2>1, <3>3
      <4>2. Extended(s, S, g, n) = Extended(s, S, f, n)
        BY <4>1 DEF Extended
      <4>3. CASE n = m + 1
        BY <2>1, <2>2, <4>2, <4>3
      <4>4. CASE n <= m
        <5>1. n # m + 1
          BY <1>0, <4>4
        <5>2. g[n] = f[n]
          BY <2>1, <5>1
        <5>3. QED
          BY <2>1, <4>2, <4>4, <5>2
      <4>5. QED
        BY <1>0, <3>3, <4>3, <4>4
    <3>4. Upto(g, m + 1)
      BY <3>2, <3>3
    <3> HIDE DEF g
    <3>5. QED
      BY <3>4
  <2>3. CASE m + 1 \notin D
    <3>1. Upto(f, m + 1)
      BY <1>0, <2>1, <2>3
    <3>2. QED
      BY <3>1
  <2>4. QED
    BY <2>2, <2>3
<1>3. Len(s) \in Good
  <2> HIDE DEF Good
  <2>1. QED
    BY <1>0, <1>1, <1>2, Climb
<1>4. PICK f : Upto(f, Len(s))
  BY <1>3
<1>5. Selecting(s, S, f)
  BY <1>0, <1>4 DEF Selecting
<1>6. QED
  BY <1>4, <1>5

\* What is selected of a sequence is a sequence.
LEMMA SelectedFacts ==
  ASSUME NEW T, NEW S, NEW s \in Seq(T)
  PROVE  \E f : /\ f \in [0..Len(s) -> Seq(T)] /\ Selecting(s, S, f)
                /\ Selected(s, S) = f[Len(s)]
<1> DEFINE f == CHOOSE f : Selecting(s, S, f)
<1>1. Selecting(s, S, f)
  BY SelectingExists
<1>2. Selected(s, S) = f[Len(s)]
  BY DEF Selected, Selecting, Extended
<1> HIDE DEF f
<1>3. f \in [0..Len(s) -> Seq(T)]
  <2> DEFINE Good == {n \in Nat : n <= Len(s) => f[n] \in Seq(T)}
  <2>0. Len(s) \in Nat
    OBVIOUS
  <2>1. DOMAIN f = 0..Len(s) /\ \A n \in 0..Len(s) : f[n] = Extended(s, S, f, n)
    BY <1>1 DEF Selecting
  <2>2. 0 \in Good
    <3>1. 0 \in 0..Len(s) /\ <<>> \in Seq(T)
      BY <2>0
    <3>2. QED
      BY <2>1, <3>1 DEF Extended
  <2>3. ASSUME NEW n \in Nat, n \in Good PROVE n + 1 \in Good
    <3> SUFFICES ASSUME n + 1 <= Len(s) PROVE f[n + 1] \in Seq(T)
      OBVIOUS
    <3>1. n + 1 \in 0..Len(s) /\ n + 1 # 0 /\ (n + 1) - 1 = n /\ n <= Len(s)
      BY <2>0
    <3>2. f[n] \in Seq(T) /\ s[n + 1] \in T
      BY <2>3, <3>1
    <3>3. Append(f[n], s[n + 1]) \in Seq(T)
      BY <3>2
    <3>4. f[n + 1] = IF s[n + 1] \in S THEN Append(f[n], s[n + 1]) ELSE f[n]
      BY <2>1, <3>1 DEF Extended
    <3>5. QED
      BY <3>2, <3>3, <3>4
  <2>4. \A n \in Nat : n \in Good
    <3> HIDE DEF Good
    <3>1. QED
      BY <2>2, <2>3, Climb
  <2>5. f = [n \in 0..Len(s) |-> f[n]]
    BY <1>1 DEF Selecting
  <2>6. QED
    BY <2>0, <2>4, <2>5
<1>4. QED
  BY <1>1, <1>2, <1>3

\* What is selected are elements.
LEMMA SelectedType ==
  ASSUME NEW T, NEW S, NEW s \in Seq(T)
  PROVE  Selected(s, S) \in Seq(T)
<1>1. PICK f : f \in [0..Len(s) -> Seq(T)] /\ Selected(s, S) = f[Len(s)]
  BY SelectedFacts
<1>2. Len(s) \in 0..Len(s)
  OBVIOUS
<1>3. QED
  BY <1>1, <1>2

\* Of nothing, nothing is selected.
LEMMA SelectedEmpty == \A S : Selected(<<>>, S) = <<>>
<1> SUFFICES ASSUME NEW S PROVE Selected(<<>>, S) = <<>>
  OBVIOUS
<1>1. PICK f : Selecting(<<>>, S, f) /\ Selected(<<>>, S) = f[Len(<<>>)]
  <2>1. <<>> \in Seq(Nat)
    OBVIOUS
  <2>2. ASSUME NEW s \in Seq(Nat)
        PROVE  \E f : Selecting(s, S, f) /\ Selected(s, S) = f[Len(s)]
    BY SelectedFacts
  <2>3. QED
    BY <2>1, <2>2
<1>2. QED
  BY <1>1 DEF Selecting, Extended

\* An element more is selected or not, whatever stands before it.
LEMMA SelectedAppend ==
  ASSUME NEW T, NEW S, NEW s \in Seq(T), NEW x \in T
  PROVE  /\ Selected(s, S) \in Seq(T)
         /\ Selected(Append(s, x), S) = IF x \in S THEN Append(Selected(s, S), x)
                                        ELSE Selected(s, S)
<1> DEFINE t == Append(s, x)
<1>1. PICK f : /\ f \in [0..Len(s) -> Seq(T)] /\ Selecting(s, S, f)
               /\ Selected(s, S) = f[Len(s)]
  BY SelectedFacts
<1>2. t \in Seq(T) /\ Len(t) = Len(s) + 1 /\ Len(s) \in Nat /\ t[Len(s) + 1] = x
  OBVIOUS
<1>3. \A n \in 1..Len(s) : t[n] = s[n]
  OBVIOUS
<1> HIDE DEF t
<1>4. PICK g : /\ g \in [0..Len(t) -> Seq(T)] /\ Selecting(t, S, g)
               /\ Selected(t, S) = g[Len(t)]
  <2>1. ASSUME NEW u \in Seq(T)
        PROVE  \E g : /\ g \in [0..Len(u) -> Seq(T)] /\ Selecting(u, S, g)
                      /\ Selected(u, S) = g[Len(u)]
    BY SelectedFacts
  <2>2. QED
    BY <1>2, <2>1
<1> DEFINE Good == {n \in Nat : n <= Len(s) => g[n] = f[n]}
<1>5. /\ \A n \in 0..Len(s) : f[n] = Extended(s, S, f, n)
      /\ \A n \in 0..Len(s) + 1 : g[n] = Extended(t, S, g, n)
  BY <1>1, <1>2, <1>4 DEF Selecting
<1>6. 0 \in Good
  BY <1>2, <1>5 DEF Extended
<1>7. ASSUME NEW n \in Nat, n \in Good PROVE n + 1 \in Good
  <2> SUFFICES ASSUME n + 1 <= Len(s) PROVE g[n + 1] = f[n + 1]
    OBVIOUS
  <2>1. n + 1 \in 1..Len(s) /\ n + 1 # 0 /\ (n + 1) - 1 = n /\ n <= Len(s)
    BY <1>2
  <2>2. g[n] = f[n] /\ t[n + 1] = s[n + 1]
    BY <1>3, <1>7, <2>1
  <2>3. n + 1 \in 0..Len(s) /\ n + 1 \in 0..Len(s) + 1
    BY <1>2, <2>1
  <2>4. QED
    BY <1>5, <2>1, <2>2, <2>3 DEF Extended
<1>8. Len(s) \in Good
  <2> HIDE DEF Good
  <2>1. QED
    BY <1>2, <1>6, <1>7, Climb
<1>9. g[Len(s)] = f[Len(s)]
  BY <1>2, <1>8
<1>10. g[Len(s) + 1] = Extended(t, S, g, Len(s) + 1)
  BY <1>2, <1>5
<1>11. Selected(t, S) = IF x \in S THEN Append(f[Len(s)], x) ELSE f[Len(s)]
  BY <1>2, <1>4, <1>9, <1>10 DEF Extended
<1>12. f[Len(s)] \in Seq(T)
  BY <1>1, <1>2
<1>13. QED
  BY <1>1, <1>11, <1>12 DEF t

\* Append, for the tuples that ways are.
LEMMA AppendToNone == \A a : Append(<<>>, a) = <<a>>
OBVIOUS

\* Append, to one.
LEMMA AppendToOne == \A a, b : Append(<<a>>, b) = <<a, b>>
<1> SUFFICES ASSUME NEW a, NEW b PROVE Append(<<a>>, b) = <<a, b>>
  OBVIOUS
<1> DEFINE S == {a, b}
<1>1. <<a>> \in Seq(S) /\ <<a, b>> \in Seq(S) /\ b \in S
  OBVIOUS
<1>2. Len(<<a>>) = 1 /\ Len(<<a, b>>) = 2
  OBVIOUS
<1>3. /\ Append(<<a>>, b) \in Seq(S) /\ Len(Append(<<a>>, b)) = Len(<<a>>) + 1
      /\ \A i \in 1..Len(<<a>>) : Append(<<a>>, b)[i] = <<a>>[i]
      /\ Append(<<a>>, b)[Len(<<a>>) + 1] = b
  BY <1>1, AppendProperties
<1>4. Len(Append(<<a>>, b)) = 2 /\ \A i \in 1..2 : Append(<<a>>, b)[i] = <<a, b>>[i]
  BY <1>2, <1>3
<1>5. QED
  BY <1>1, <1>2, <1>3, <1>4, SeqEqual, Zenon

\* Append, to two.
LEMMA AppendToTwo == \A a, b, c : Append(<<a, b>>, c) = <<a, b, c>>
<1> SUFFICES ASSUME NEW a, NEW b, NEW c PROVE Append(<<a, b>>, c) = <<a, b, c>>
  OBVIOUS
<1> DEFINE S == {a, b, c}
<1>1. <<a, b>> \in Seq(S) /\ <<a, b, c>> \in Seq(S) /\ c \in S
  OBVIOUS
<1>2. Len(<<a, b>>) = 2 /\ Len(<<a, b, c>>) = 3
  OBVIOUS
<1>3. /\ Append(<<a, b>>, c) \in Seq(S) /\ Len(Append(<<a, b>>, c)) = Len(<<a, b>>) + 1
      /\ \A i \in 1..Len(<<a, b>>) : Append(<<a, b>>, c)[i] = <<a, b>>[i]
      /\ Append(<<a, b>>, c)[Len(<<a, b>>) + 1] = c
  BY <1>1, AppendProperties
<1>4. Len(Append(<<a, b>>, c)) = 3 /\ \A i \in 1..3 : Append(<<a, b>>, c)[i] = <<a, b, c>>[i]
  BY <1>2, <1>3
<1>5. QED
  BY <1>1, <1>2, <1>3, <1>4, SeqEqual, Zenon

\* Append, to three.
LEMMA AppendToThree == \A a, b, c, d : Append(<<a, b, c>>, d) = <<a, b, c, d>>
<1> SUFFICES ASSUME NEW a, NEW b, NEW c, NEW d PROVE Append(<<a, b, c>>, d) = <<a, b, c, d>>
  OBVIOUS
<1> DEFINE S == {a, b, c, d}
<1>1. <<a, b, c>> \in Seq(S) /\ <<a, b, c, d>> \in Seq(S) /\ d \in S
  OBVIOUS
<1>2. Len(<<a, b, c>>) = 3 /\ Len(<<a, b, c, d>>) = 4
  OBVIOUS
<1>3. /\ Append(<<a, b, c>>, d) \in Seq(S) /\ Len(Append(<<a, b, c>>, d)) = Len(<<a, b, c>>) + 1
      /\ \A i \in 1..Len(<<a, b, c>>) : Append(<<a, b, c>>, d)[i] = <<a, b, c>>[i]
      /\ Append(<<a, b, c>>, d)[Len(<<a, b, c>>) + 1] = d
  BY <1>1, AppendProperties
<1>4. /\ Len(Append(<<a, b, c>>, d)) = 4
      /\ \A i \in 1..4 : Append(<<a, b, c>>, d)[i] = <<a, b, c, d>>[i]
  BY <1>2, <1>3
<1>5. QED
  BY <1>1, <1>2, <1>3, <1>4, SeqEqual, Zenon

\* Append, to four.
LEMMA AppendToFour == \A a, b, c, d, e : Append(<<a, b, c, d>>, e) = <<a, b, c, d, e>>
<1> SUFFICES ASSUME NEW a, NEW b, NEW c, NEW d, NEW e
             PROVE  Append(<<a, b, c, d>>, e) = <<a, b, c, d, e>>
  OBVIOUS
<1> DEFINE S == {a, b, c, d, e}
<1>1. <<a, b, c, d>> \in Seq(S) /\ <<a, b, c, d, e>> \in Seq(S) /\ e \in S
  OBVIOUS
<1>2. Len(<<a, b, c, d>>) = 4 /\ Len(<<a, b, c, d, e>>) = 5
  OBVIOUS
<1>3. /\ Append(<<a, b, c, d>>, e) \in Seq(S)
      /\ Len(Append(<<a, b, c, d>>, e)) = Len(<<a, b, c, d>>) + 1
      /\ \A i \in 1..Len(<<a, b, c, d>>) : Append(<<a, b, c, d>>, e)[i] = <<a, b, c, d>>[i]
      /\ Append(<<a, b, c, d>>, e)[Len(<<a, b, c, d>>) + 1] = e
  BY <1>1, AppendProperties
<1>4. /\ Len(Append(<<a, b, c, d>>, e)) = 5
      /\ \A i \in 1..5 : Append(<<a, b, c, d>>, e)[i] = <<a, b, c, d, e>>[i]
  BY <1>2, <1>3
<1>5. QED
  BY <1>1, <1>2, <1>3, <1>4, SeqEqual, Zenon

-----------------------------------------------------------------------------
\* The tree, node by node.
ShowBranch == {"show", "history", "N", "show-server", "show-name"}
ServerBranch == {"name", "start", "stop", "disable-conn-accept", "addr", "port", "no"}
ConfigBranch == {"config", "load", "file-name", "console", "console-name", "cons-name",
                 "tcp-server"} \cup ServerBranch
Commands == {"run", "term", "repeat", "cd", "cd.."}
Nodes == {"root", "do_hook"} \cup ShowBranch \cup ConfigBranch \cup Commands

\* The branch a node is in.
Branch(p) == IF p \in {"root", "do_hook"} THEN None
             ELSE IF p \in ShowBranch THEN "show"
             ELSE IF p \in ConfigBranch THEN "config"
             ELSE IF p = "term" THEN "run"
             ELSE p

\* The way to a node.
Way(p) == CASE p \in {"root", "do_hook"} -> <<>>
            [] p \in {"show", "config", "run", "repeat", "cd", "cd.."} -> <<p>>
            [] p \in {"history", "show-server"} -> <<"show", p>>
            [] p = "N" -> <<"show", "history", p>>
            [] p = "show-name" -> <<"show", "show-server", p>>
            [] p \in {"load", "console", "tcp-server"} -> <<"config", p>>
            [] p = "file-name" -> <<"config", "load", p>>
            [] p = "console-name" -> <<"config", "console", p>>
            [] p = "cons-name" -> <<"config", "console", "console-name", p>>
            [] p = "name" -> <<"config", "tcp-server", p>>
            [] p \in {"start", "stop", "disable-conn-accept", "addr", "no"} ->
                 <<"config", "tcp-server", "name", p>>
            [] p = "port" -> <<"config", "tcp-server", "name", "addr", p>>
            [] OTHER -> <<"run", p>>

\* What a line matched from p can come to.
Below(p) == CASE p = "root" -> Nodes \ {"root", "do_hook"}
              [] p = "do_hook" -> ShowBranch
              [] p = "show" -> ShowBranch \ {"show"}
              [] p = "history" -> {"N"}
              [] p = "show-server" -> {"show-name"}
              [] p = "config" -> ConfigBranch \ {"config"}
              [] p = "load" -> {"file-name"}
              [] p = "console" -> {"console-name", "cons-name"}
              [] p = "console-name" -> {"cons-name"}
              [] p = "tcp-server" -> ServerBranch
              [] p = "name" -> ServerBranch \ {"name"}
              [] p = "no" -> ServerBranch \ {"name", "no"}
              [] p = "addr" -> {"port"}
              [] p = "run" -> {"term"}
              [] OTHER -> {}

\* The nodes are those of the branches.
LEMMA ParamIs == Param = Nodes
BY DEF Param, Registered, Nodes, ShowBranch, ConfigBranch, ServerBranch, Commands

\* A node is registered under one other.
LEMMA Edges ==
  /\ \A e \in Registered : e = <<e[1], e[2]>> /\ e[1] \in Param /\ e[2] \in Param
  /\ \A e, f \in Registered : e[2] = f[2] => e[1] = f[1]
<1>1. \A e \in Registered : e = <<e[1], e[2]>> /\ e[1] \in Param /\ e[2] \in Param
  <2> USE ParamIs DEF Nodes, ShowBranch, ConfigBranch, ServerBranch, Commands
  <2>1. QED
    BY DEF Registered
<1>2. \A e, f \in Registered : e[2] = f[2] => e[1] = f[1]
  BY DEF Registered
<1>3. QED
  BY <1>1, <1>2

\* Which is its parent.
LEMMA ParentOf == \A e \in Registered : Parent(e[2]) = e[1]
<1> SUFFICES ASSUME NEW e \in Registered PROVE Parent(e[2]) = e[1]
  OBVIOUS
<1>1. \A f \in Registered : f[2] = e[2] => f[1] = e[1]
  BY Edges
<1>2. QED
  BY <1>1 DEF Parent

\* The root and the hook of "do" have none.
LEMMA NoParent == Parent("root") = None /\ Parent("do_hook") = None
BY DEF Parent, Registered

\* A node has a parent, and then it was registered under it, or it has none.
LEMMA EdgeTo ==
  \A p \in Param : p \in {"root", "do_hook"} \/ <<Parent(p), p>> \in Registered
<1> SUFFICES ASSUME NEW p \in Param, p \notin {"root", "do_hook"}
             PROVE  <<Parent(p), p>> \in Registered
  OBVIOUS
<1>1. PICK e \in Registered : e[2] = p
  BY DEF Param
<1>2. QED
  BY <1>1, Edges, ParentOf

\* The way to a node is the way to its parent and the node.
LEMMA WayOfEdge ==
  \A e \in Registered : Way(e[2]) = Append(Way(e[1]), e[2])
<1> SUFFICES ASSUME NEW a, NEW b, <<a, b>> \in Registered
             PROVE  Way(b) = Append(Way(a), b)
  BY Edges
<1>1. CASE a = "root"
  <2>1. Way(a) = <<>> /\ Way(b) = <<b>>
    BY <1>1 DEF Registered, Way
  <2>2. QED
    BY <2>1, AppendToNone, AppendToOne, AppendToTwo, AppendToThree, Zenon
<1>2. CASE a = "show"
  <2>1. Way(a) = <<"show">> /\ Way(b) = <<"show", b>>
    BY <1>2 DEF Registered, Way
  <2>2. QED
    BY <2>1, AppendToNone, AppendToOne, AppendToTwo, AppendToThree, Zenon
<1>3. CASE a = "history"
  <2>1. Way(a) = <<"show", "history">> /\ Way(b) = <<"show", "history", b>>
    BY <1>3 DEF Registered, Way
  <2>2. QED
    BY <2>1, AppendToNone, AppendToOne, AppendToTwo, AppendToThree, Zenon
<1>4. CASE a = "show-server"
  <2>1. Way(a) = <<"show", "show-server">> /\ Way(b) = <<"show", "show-server", b>>
    BY <1>4 DEF Registered, Way
  <2>2. QED
    BY <2>1, AppendToNone, AppendToOne, AppendToTwo, AppendToThree, Zenon
<1>5. CASE a = "run"
  <2>1. Way(a) = <<"run">> /\ Way(b) = <<"run", b>>
    BY <1>5 DEF Registered, Way
  <2>2. QED
    BY <2>1, AppendToNone, AppendToOne, AppendToTwo, AppendToThree, Zenon
<1>6. CASE a = "config"
  <2>1. Way(a) = <<"config">> /\ Way(b) = <<"config", b>>
    BY <1>6 DEF Registered, Way
  <2>2. QED
    BY <2>1, AppendToNone, AppendToOne, AppendToTwo, AppendToThree, Zenon
<1>7. CASE a = "load"
  <2>1. Way(a) = <<"config", "load">> /\ Way(b) = <<"config", "load", b>>
    BY <1>7 DEF Registered, Way
  <2>2. QED
    BY <2>1, AppendToNone, AppendToOne, AppendToTwo, AppendToThree, Zenon
<1>8. CASE a = "console"
  <2>1. Way(a) = <<"config", "console">> /\ Way(b) = <<"config", "console", b>>
    BY <1>8 DEF Registered, Way
  <2>2. QED
    BY <2>1, AppendToNone, AppendToOne, AppendToTwo, AppendToThree, Zenon
<1>9. CASE a = "console-name"
  <2>1. /\ Way(a) = <<"config", "console", "console-name">>
        /\ Way(b) = <<"config", "console", "console-name", b>>
    BY <1>9 DEF Registered, Way
  <2>2. Append(<<"config", "console", "console-name">>, b) =
          <<"config", "console", "console-name", b>>
    BY AppendToThree, Zenon
  <2>3. QED
    BY <2>1, <2>2, Zenon
<1>10. CASE a = "tcp-server"
  <2>1. Way(a) = <<"config", "tcp-server">> /\ Way(b) = <<"config", "tcp-server", b>>
    BY <1>10 DEF Registered, Way
  <2>2. QED
    BY <2>1, AppendToNone, AppendToOne, AppendToTwo, AppendToThree, Zenon
<1>11. CASE a = "name"
  <2>1. /\ Way(a) = <<"config", "tcp-server", "name">>
        /\ Way(b) = <<"config", "tcp-server", "name", b>>
    BY <1>11 DEF Registered, Way
  <2>2. Append(<<"config", "tcp-server", "name">>, b) = <<"config", "tcp-server", "name", b>>
    BY AppendToThree, Zenon
  <2>3. QED
    BY <2>1, <2>2, Zenon
<1>12. CASE a = "addr"
  <2>1. /\ Way(a) = <<"config", "tcp-server", "name", "addr">>
        /\ Way(b) = <<"config", "tcp-server", "name", "addr", b>>
    BY <1>12 DEF Registered, Way
  <2>2. Append(<<"config", "tcp-server", "name", "addr">>, b) =
          <<"config", "tcp-server", "name", "addr", b>>
    BY AppendToFour, Zenon
  <2>3. QED
    BY <2>1, <2>2, Zenon
<1>13. QED
  BY <1>1, <1>2, <1>3, <1>4, <1>5, <1>6, <1>7, <1>8, <1>9, <1>10, <1>11, <1>12 DEF Registered

\* A node is in the branch of its parent, or begins one at the root.
LEMMA BranchOfEdge ==
  \A e \in Registered : Branch(e[2]) = IF e[1] = "root" THEN e[2] ELSE Branch(e[1])
BY DEF Registered, Branch, ShowBranch, ConfigBranch, ServerBranch

\* What is registered below a node can be come to from above, too.
LEMMA BelowOfEdge ==
  \A e \in Registered : \A c \in Nodes :
    e[1] = c \/ e[1] \in Below(c) => e[2] \in Below(c)
BY DEF Registered, Below, Nodes, ShowBranch, ConfigBranch, ServerBranch, Commands

\* What holds at the top and is handed down holds of every node.
LEMMA HandedDown ==
  ASSUME NEW G, {"root", "do_hook"} \subseteq G,
         \A e \in Registered : e[1] \in G => e[2] \in G
  PROVE  Param \subseteq G
<1>1. {"show", "config", "run", "repeat", "cd", "cd.."} \subseteq G
  BY DEF Registered
<1>2. {"history", "show-server", "load", "console", "tcp-server", "term"} \subseteq G
  BY <1>1 DEF Registered
<1>3. {"N", "show-name", "file-name", "console-name", "name"} \subseteq G
  BY <1>2 DEF Registered
<1>4. {"cons-name", "start", "stop", "disable-conn-accept", "addr", "no"} \subseteq G
  BY <1>3 DEF Registered
<1>5. "port" \in G
  BY <1>4 DEF Registered
<1>6. QED
  BY <1>1, <1>2, <1>3, <1>4, <1>5, ParamIs
     DEF Nodes, ShowBranch, ConfigBranch, ServerBranch, Commands

\* Path at a node, from Path at its parent.
PathStep(path, q) == IF Parent(q) = None THEN <<>> ELSE Append(path[Parent(q)], q)

\* Path, which is computed from the top, is the way to the node.
LEMMA PathIs == \A p \in Param : Path(p) = Way(p)
<1> DEFINE Paths(path) == path = [q \in Param |-> PathStep(path, q)]
           way == [q \in Param |-> Way(q)]
           path == CHOOSE f : Paths(f)
<1>1. Paths(way)
  <2> SUFFICES ASSUME NEW q \in Param PROVE Way(q) = PathStep(way, q)
    OBVIOUS
  <2>1. CASE q \in {"root", "do_hook"}
    BY <2>1, NoParent DEF PathStep, Way
  <2>2. CASE q \notin {"root", "do_hook"}
    <3>1. <<Parent(q), q>> \in Registered /\ Parent(q) \in Param
      BY <2>2, EdgeTo, Edges
    <3>2. Way(q) = Append(Way(Parent(q)), q)
      BY <3>1, WayOfEdge
    <3>3. Parent(q) # None
      BY <3>1, ParamIs DEF None, Nodes, ShowBranch, ConfigBranch, ServerBranch, Commands
    <3>4. QED
      BY <3>1, <3>2, <3>3 DEF PathStep
  <2>3. QED
    BY <2>1, <2>2
<1>2. Paths(path)
  <2> HIDE DEF way
  <2>1. QED
    BY <1>1
<1>3. \A p \in Param : Path(p) = path[p]
  BY DEF Path, PathStep
<1> HIDE DEF path
<1> DEFINE G == {q \in Param : path[q] = Way(q)}
<1>4. {"root", "do_hook"} \subseteq G
  BY <1>2, NoParent, ParamIs DEF PathStep, Way, Nodes
<1>5. ASSUME NEW e \in Registered, e[1] \in G PROVE e[2] \in G
  <2>1. e[2] \in Param /\ Parent(e[2]) = e[1] /\ e[1] \in Param
    BY Edges, ParentOf
  <2>2. e[1] # None
    BY <2>1, ParamIs DEF None, Nodes, ShowBranch, ConfigBranch, ServerBranch, Commands
  <2>3. path[e[2]] = Append(path[e[1]], e[2])
    BY <1>2, <2>1, <2>2 DEF PathStep
  <2>4. Way(e[2]) = Append(Way(e[1]), e[2])
    BY WayOfEdge
  <2>5. QED
    BY <1>5, <2>1, <2>3, <2>4
<1>6. Param \subseteq G
  <2> HIDE DEF G
  <2>1. QED
    BY <1>4, <1>5, HandedDown
<1>7. QED
  BY <1>3, <1>6

\* Hook at a node, from Hook at its parent.
ClimbStep(climb, q) == IF Parent(q) = None THEN None
                       ELSE IF Parent(q) = "root" THEN q
                       ELSE climb[Parent(q)]

\* Hook, which is computed by climbing, is the branch of the node.
LEMMA HookIs == \A p \in Param : Hook(p) = Branch(p)
<1> DEFINE Climbs(climb) == climb = [q \in Param |-> ClimbStep(climb, q)]
           branch == [q \in Param |-> Branch(q)]
           climb == CHOOSE f : Climbs(f)
<1>0. \A e \in Registered : /\ e[2] \in Param /\ Parent(e[2]) = e[1] /\ e[1] \in Param
                            /\ e[1] # None /\ e[1] # "do_hook"
  <2>1. \A e \in Registered : e[1] # None /\ e[1] # "do_hook"
    BY DEF Registered, None
  <2>2. QED
    BY <2>1, Edges, ParentOf
<1>1. Climbs(branch)
  <2> SUFFICES ASSUME NEW q \in Param PROVE Branch(q) = ClimbStep(branch, q)
    OBVIOUS
  <2>1. CASE q \in {"root", "do_hook"}
    BY <2>1, NoParent DEF ClimbStep, Branch
  <2>2. CASE q \notin {"root", "do_hook"}
    <3>1. <<Parent(q), q>> \in Registered
      BY <2>2, EdgeTo
    <3>2. QED
      BY <1>0, <3>1, BranchOfEdge DEF ClimbStep
  <2>3. QED
    BY <2>1, <2>2
<1>2. Climbs(climb)
  <2> HIDE DEF branch
  <2>1. QED
    BY <1>1
<1>3. \A p \in Param : Hook(p) = climb[p]
  BY DEF Hook, ClimbStep
<1> HIDE DEF climb
<1> DEFINE G == {q \in Param : q # "root" => climb[q] = Branch(q)}
<1>4. {"root", "do_hook"} \subseteq G
  BY <1>2, NoParent, ParamIs DEF ClimbStep, Branch, Nodes
<1>5. ASSUME NEW e \in Registered, e[1] \in G PROVE e[2] \in G
  BY <1>0, <1>2, <1>5, BranchOfEdge DEF ClimbStep
<1>6. Param \subseteq G
  <2> HIDE DEF G
  <2>1. QED
    BY <1>4, <1>5, HandedDown
<1>7. climb["root"] = Branch("root")
  BY <1>2, NoParent, ParamIs DEF ClimbStep, Branch, Nodes
<1>8. QED
  BY <1>3, <1>6, <1>7

-----------------------------------------------------------------------------
\* The leaves on the way to a node.
LeavesTo(p) == CASE p \in {"N", "show-name", "file-name", "cons-name"} -> <<p>>
                 [] p \in {"name", "start", "stop", "disable-conn-accept", "no"} -> <<"name">>
                 [] p = "addr" -> <<"name", "addr">>
                 [] p = "port" -> <<"name", "addr", "port">>
                 [] OTHER -> <<>>

\* A leaf is one more of the leaves on the way.
LEMMA LeavesOfEdge ==
  \A e \in Registered : LeavesTo(e[2]) = IF e[2] \in Leaf THEN Append(LeavesTo(e[1]), e[2])
                                         ELSE LeavesTo(e[1])
<1> SUFFICES ASSUME NEW e \in Registered
             PROVE  LeavesTo(e[2]) = IF e[2] \in Leaf THEN Append(LeavesTo(e[1]), e[2])
                                     ELSE LeavesTo(e[1])
  OBVIOUS
<1> DEFINE a == e[1]
           b == e[2]
<1>0. <<a, b>> \in Registered
  BY Edges
<1>1. LeavesTo(b) = IF b \in Leaf THEN Append(LeavesTo(a), b) ELSE LeavesTo(a)
  <2> HIDE DEF a, b
  <2>1. CASE b \in {"N", "show-name", "file-name", "cons-name", "name"}
    <3>1. LeavesTo(a) = <<>> /\ LeavesTo(b) = <<b>> /\ b \in Leaf
      BY <1>0, <2>1 DEF Registered, LeavesTo, Leaf
    <3>2. QED
      BY <3>1, AppendToNone, Zenon
  <2>2. CASE b = "addr"
    <3>1. LeavesTo(a) = <<"name">> /\ LeavesTo(b) = <<"name", b>> /\ b \in Leaf
      BY <1>0, <2>2 DEF Registered, LeavesTo, Leaf
    <3>2. QED
      BY <3>1, AppendToOne, Zenon
  <2>3. CASE b = "port"
    <3>1. LeavesTo(a) = <<"name", "addr">> /\ LeavesTo(b) = <<"name", "addr", b>> /\ b \in Leaf
      BY <1>0, <2>3 DEF Registered, LeavesTo, Leaf
    <3>2. QED
      BY <3>1, AppendToTwo, Zenon
  <2>4. CASE b \notin Leaf
    BY <1>0, <2>4 DEF Registered, LeavesTo, Leaf
  <2>5. QED
    BY <2>1, <2>2, <2>3, <2>4 DEF Leaf
<1>2. QED
  BY <1>1

\* A way is a sequence of nodes.
LEMMA WayType == \A p \in Param : Way(p) \in Seq(Param)
<1> DEFINE G == {q \in Param : Way(q) \in Seq(Param)}
<1>1. {"root", "do_hook"} \subseteq G
  BY ParamIs DEF Way, Nodes
<1>2. ASSUME NEW e \in Registered, e[1] \in G PROVE e[2] \in G
  <2>1. Way(e[1]) \in Seq(Param) /\ e[2] \in Param
    BY <1>2, Edges
  <2>2. Append(Way(e[1]), e[2]) \in Seq(Param)
    BY <2>1
  <2>3. Way(e[2]) = Append(Way(e[1]), e[2])
    BY WayOfEdge
  <2>4. QED
    BY <2>1, <2>2, <2>3
<1>3. Param \subseteq G
  <2> HIDE DEF G
  <2>1. QED
    BY <1>1, <1>2, HandedDown
<1>4. QED
  BY <1>3

\* PathLeaves are the leaves on the way.
LEMMA PathLeavesIs == \A p \in Param : PathLeaves(p) = LeavesTo(p)
<1> DEFINE G == {q \in Param : Selected(Way(q), Leaf) = LeavesTo(q)}
<1>1. {"root", "do_hook"} \subseteq G
  BY ParamIs, SelectedEmpty DEF Way, LeavesTo, Nodes
<1>2. ASSUME NEW e \in Registered, e[1] \in G PROVE e[2] \in G
  <2>1. e[1] \in Param /\ e[2] \in Param /\ Way(e[1]) \in Seq(Param)
    BY Edges, WayType
  <2>2. Way(e[2]) = Append(Way(e[1]), e[2])
    BY WayOfEdge
  <2>3. Selected(Append(Way(e[1]), e[2]), Leaf)
          = IF e[2] \in Leaf THEN Append(Selected(Way(e[1]), Leaf), e[2])
            ELSE Selected(Way(e[1]), Leaf)
    <3>1. ASSUME NEW w \in Seq(Param), NEW x \in Param
          PROVE  Selected(Append(w, x), Leaf) = IF x \in Leaf THEN Append(Selected(w, Leaf), x)
                                                ELSE Selected(w, Leaf)
      BY SelectedAppend
    <3>2. QED
      BY <2>1, <3>1
  <2>4. QED
    BY <1>2, <2>1, <2>2, <2>3, LeavesOfEdge
<1>3. Param \subseteq G
  <2> HIDE DEF G
  <2>1. QED
    BY <1>1, <1>2, HandedDown
<1>4. QED
  BY <1>3, PathIs DEF PathLeaves

-----------------------------------------------------------------------------
\* What the buffer holds.
Field == [leaf : Leaf \cup {"CMDCODE", "garbage"}, val : Text]
ServerLeaf == {"name", "show-name", "addr", "port"}

\* Nothing is the application's in an empty buffer.
LEMMA OfTheServerEmpty == OfTheServer(<<>>) = <<>>
BY SelectedEmpty DEF OfTheServer

\* A TLV more is the application's or not.
LEMMA OfTheServerAppend ==
  ASSUME NEW s \in Seq(Field), NEW x \in Field
  PROVE  OfTheServer(Append(s, x)) = IF x.leaf \in ServerLeaf THEN Append(OfTheServer(s), x)
                                     ELSE OfTheServer(s)
<1> DEFINE S == [leaf : {"name", "show-name", "addr", "port"}, val : Text]
<1>1. x \in S <=> x.leaf \in ServerLeaf
  BY DEF Field, ServerLeaf
<1>2. \A t : OfTheServer(t) = Selected(t, S)
  BY DEF OfTheServer
<1> HIDE DEF S
<1>3. Selected(Append(s, x), S) = IF x \in S THEN Append(Selected(s, S), x)
                                  ELSE Selected(s, S)
  BY SelectedAppend
<1>4. QED
  BY <1>1, <1>2, <1>3

\* The TLVs of the application's on the way to a node, with the values v.
ServerTLVs(p, v) ==
  CASE p = "show-name" -> <<TLV("show-name", v["show-name"])>>
    [] p \in {"name", "start", "stop", "disable-conn-accept", "no"} -> <<TLV("name", v["name"])>>
    [] p = "addr" -> <<TLV("name", v["name"]), TLV("addr", v["addr"])>>
    [] p = "port" -> <<TLV("name", v["name"]), TLV("addr", v["addr"]), TLV("port", v["port"])>>
    [] OTHER -> <<>>

\* The TLVs on the way to a node, with the values v.
TLVsTo(p, v) == [i \in 1..Len(PathLeaves(p)) |-> TLV(PathLeaves(p)[i], v[PathLeaves(p)[i]])]

\* The TLVs on a way of at most three leaves.
LEMMA TLVsToNode ==
  ASSUME NEW p \in Param, NEW v
  PROVE  /\ LeavesTo(p) = <<>> => TLVsTo(p, v) = <<>>
         /\ \A l : LeavesTo(p) = <<l>> => TLVsTo(p, v) = <<TLV(l, v[l])>>
         /\ p = "addr" => TLVsTo(p, v) = <<TLV("name", v["name"]), TLV("addr", v["addr"])>>
         /\ p = "port" => TLVsTo(p, v) = <<TLV("name", v["name"]), TLV("addr", v["addr"]),
                                          TLV("port", v["port"])>>
<1>1. PathLeaves(p) = LeavesTo(p)
  BY PathLeavesIs
<1>2. LeavesTo(p) = <<>> => TLVsTo(p, v) = <<>>
  BY <1>1 DEF TLVsTo
<1>3. ASSUME NEW l, LeavesTo(p) = <<l>> PROVE TLVsTo(p, v) = <<TLV(l, v[l])>>
  BY <1>1, <1>3 DEF TLVsTo
<1>4. p = "addr" => TLVsTo(p, v) = <<TLV("name", v["name"]), TLV("addr", v["addr"])>>
  BY <1>1 DEF TLVsTo, LeavesTo
<1>5. p = "port" => TLVsTo(p, v) = <<TLV("name", v["name"]), TLV("addr", v["addr"]),
                                   TLV("port", v["port"])>>
  BY <1>1 DEF TLVsTo, LeavesTo
<1>6. QED
  BY <1>2, <1>3, <1>4, <1>5

\* On the way to a command of the application all are the application's.
LEMMA TLVsOfApplication ==
  ASSUME NEW p \in Application, NEW v
  PROVE  TLVsTo(p, v) = ServerTLVs(p, v)
<1>1. p \in Param
  BY ParamIs DEF Application, Nodes, ShowBranch, ConfigBranch, ServerBranch
<1>2. CASE p = "show-name"
  BY <1>1, <1>2, TLVsToNode DEF ServerTLVs, LeavesTo
<1>3. CASE p \in {"name", "start", "stop", "disable-conn-accept"}
  BY <1>1, <1>3, TLVsToNode DEF ServerTLVs, LeavesTo
<1>4. CASE p = "port"
  BY <1>1, <1>4, TLVsToNode DEF ServerTLVs
<1>5. QED
  BY <1>2, <1>3, <1>4 DEF Application

\* A TLV is what the buffer holds.
LEMMA TLVIsField == \A l \in Leaf \cup {"CMDCODE", "garbage"}, x \in Text : TLV(l, x) \in Field
BY DEF TLV, Field

\* A TLV alone is the application's or not.
LEMMA OfTheServerOne ==
  ASSUME NEW l \in Leaf, NEW x \in Text
  PROVE  OfTheServer(<<TLV(l, x)>>) = IF l \in ServerLeaf THEN <<TLV(l, x)>> ELSE <<>>
<1>1. TLV(l, x) \in Field /\ TLV(l, x).leaf = l /\ <<>> \in Seq(Field)
  BY TLVIsField DEF TLV
<1>2. Append(<<>>, TLV(l, x)) = <<TLV(l, x)>>
  BY AppendToNone
<1>3. OfTheServer(Append(<<>>, TLV(l, x))) = IF l \in ServerLeaf
                                            THEN Append(OfTheServer(<<>>), TLV(l, x))
                                            ELSE OfTheServer(<<>>)
  BY <1>1, OfTheServerAppend
<1>4. QED
  BY <1>2, <1>3, OfTheServerEmpty

\* What is the application's of the TLVs on the way to a node.
LEMMA OfTheServerToNode ==
  ASSUME NEW p \in Param, NEW v \in [Leaf -> Text]
  PROVE  OfTheServer(TLVsTo(p, v)) = ServerTLVs(p, v)
<1> DEFINE n == TLV("name", v["name"])
           a == TLV("addr", v["addr"])
           o == TLV("port", v["port"])
<1>0. /\ n \in Field /\ n.leaf = "name" /\ a \in Field /\ a.leaf = "addr"
      /\ o \in Field /\ o.leaf = "port"
  BY TLVIsField DEF TLV, Leaf
<1>n. OfTheServer(<<n>>) = <<n>>
  BY OfTheServerOne DEF Leaf, ServerLeaf
<1>a. OfTheServer(<<n, a>>) = <<n, a>>
  <2> HIDE DEF n, a
  <2>1. <<n>> \in Seq(Field) /\ <<n, a>> = Append(<<n>>, a)
    BY <1>0, AppendToOne
  <2>2. OfTheServer(Append(<<n>>, a)) = Append(OfTheServer(<<n>>), a)
    BY <1>0, <2>1, OfTheServerAppend DEF ServerLeaf
  <2>3. QED
    BY <1>n, <2>1, <2>2
<1>o. OfTheServer(<<n, a, o>>) = <<n, a, o>>
  <2> HIDE DEF n, a, o
  <2>1. <<n, a>> \in Seq(Field)
    BY <1>0
  <2>2. <<n, a, o>> = Append(<<n, a>>, o)
    BY AppendToTwo, Zenon
  <2>3. OfTheServer(Append(<<n, a>>, o)) = Append(OfTheServer(<<n, a>>), o)
    BY <1>0, <2>1, OfTheServerAppend DEF ServerLeaf
  <2>4. QED
    BY <1>a, <2>2, <2>3, Zenon
<1>1. CASE p \in {"N", "show-name", "file-name", "cons-name"}
  <2>1. TLVsTo(p, v) = <<TLV(p, v[p])>> /\ p \in Leaf /\ v[p] \in Text
    BY <1>1, TLVsToNode DEF LeavesTo, Leaf
  <2>2. OfTheServer(<<TLV(p, v[p])>>) = IF p \in ServerLeaf THEN <<TLV(p, v[p])>> ELSE <<>>
    BY <2>1, OfTheServerOne
  <2>3. QED
    BY <1>1, <2>1, <2>2 DEF ServerTLVs, ServerLeaf
<1>2. CASE p \in {"name", "start", "stop", "disable-conn-accept", "no"}
  BY <1>n, <1>2, TLVsToNode DEF LeavesTo, ServerTLVs
<1>3. CASE p = "addr"
  BY <1>a, <1>3, TLVsToNode DEF ServerTLVs
<1>4. CASE p = "port"
  BY <1>o, <1>4, TLVsToNode DEF ServerTLVs
<1>5. CASE LeavesTo(p) = <<>>
  <2>1. ServerTLVs(p, v) = <<>>
    BY <1>5 DEF LeavesTo, ServerTLVs
  <2>2. QED
    BY <1>5, <2>1, TLVsToNode, OfTheServerEmpty
<1>6. QED
  BY <1>1, <1>2, <1>3, <1>4, <1>5 DEF LeavesTo

-----------------------------------------------------------------------------
\* What may stand below a node in a line.
Offers(p, q) == \/ <<p, q>> \in Registered
                \/ p = "no" /\ q \in {"start", "stop", "disable-conn-accept", "addr"}
                \/ p = "do_hook" /\ q = "show"

\* The nodes that can be entered: the only leaves among them are those with leaves below.
Modes == {"show", "history", "show-server", "config", "load", "console", "console-name",
          "tcp-server", "name", "addr", "run"}

\* What a token may be matched with at a node is offered there.
LEMMA OptionsAre ==
  ASSUME NEW p \in Param, NEW q \in Options(p)
  PROVE  \/ q \in Param /\ Offers(p, q)
         \/ q \in Capability /\ p \in Modes \cup {"root", "do_hook", "no"}
            /\ (q = "/" => p \in Modes \cup {"root"})
<1>1. \A a, b : b \in Children(a) <=> <<a, b>> \in Registered
  BY Edges DEF Children
<1>2. \A b : <<"name", b>> \in Registered /\ b \notin NoCmd
               => b \in {"start", "stop", "disable-conn-accept", "addr"}
  BY DEF Registered, NoCmd
<1>3. CASE p = "no"
  <2>1. q \in {"start", "stop", "disable-conn-accept", "addr", "?", "."}
    BY <1>1, <1>2, <1>3 DEF Options
  <2>2. QED
    BY <1>3, <2>1, ParamIs
       DEF Offers, Capability, Nodes, ShowBranch, ConfigBranch, ServerBranch
<1>4. CASE p = "do_hook"
  <2>1. q \in {"show", "?", "."}
    BY <1>4 DEF Options
  <2>2. QED
    BY <1>4, <2>1, ParamIs
       DEF Offers, Capability, Nodes, ShowBranch, ConfigBranch, ServerBranch
<1>5. CASE p \notin {"no", "do_hook"}
  <2>1. \E b : <<p, b>> \in Registered
    BY <1>1, <1>5 DEF Options
  <2>2. p \in Modes \cup {"root"}
    BY <1>5, <2>1 DEF Registered, Modes
  <2>3. <<p, q>> \in Registered \/ q \in Capability
    BY <1>1, <1>5 DEF Options
  <2>4. QED
    BY <2>2, <2>3, Edges DEF Offers
<1>6. QED
  BY <1>3, <1>4, <1>5

\* What is offered below a node is below it.
LEMMA OffersBelow ==
  ASSUME NEW c \in Param, NEW p \in {c} \cup Below(c), NEW q, Offers(p, q)
  PROVE  q \in Below(c)
<1> USE ParamIs
<1>1. CASE <<p, q>> \in Registered
  BY <1>1, BelowOfEdge
<1>2. CASE p = "no" /\ q \in {"start", "stop", "disable-conn-accept", "addr"}
  BY <1>2 DEF Below, Nodes, ShowBranch, ConfigBranch, ServerBranch, Commands
<1>3. CASE p = "do_hook" /\ q = "show"
  BY <1>3 DEF Below, Nodes, ShowBranch, ConfigBranch, ServerBranch, Commands
<1>4. QED
  BY <1>1, <1>2, <1>3 DEF Offers

\* A value matched below a node is the last of the TLVs on the way to its leaf.
LEMMA ServerTLVsOfLeaf ==
  ASSUME NEW p \in Param, NEW q \in Leaf, Offers(p, q), NEW v \in [Leaf -> Text],
         NEW t \in Text
  PROVE  ServerTLVs(q, [v EXCEPT ![q] = t])
           = IF q \in ServerLeaf THEN Append(ServerTLVs(p, v), TLV(q, t)) ELSE ServerTLVs(p, v)
<1> DEFINE w == [v EXCEPT ![q] = t]
<1>0. w[q] = t /\ \A l \in Leaf : l # q => w[l] = v[l]
  OBVIOUS
<1> HIDE DEF w
<1>1. CASE q \in {"N", "file-name", "cons-name"}
  <2>1. ServerTLVs(q, w) = <<>> /\ ServerTLVs(p, v) = <<>> /\ q \notin ServerLeaf
    BY <1>1 DEF Offers, Registered, ServerTLVs, ServerLeaf
  <2>2. QED
    BY <2>1 DEF w
<1>2. CASE q \in {"name", "show-name"}
  <2>1. ServerTLVs(q, w) = <<TLV(q, t)>> /\ q \in ServerLeaf
    BY <1>0, <1>2 DEF ServerTLVs, ServerLeaf
  <2>2. ServerTLVs(p, v) = <<>>
    BY <1>2 DEF Offers, Registered, ServerTLVs
  <2>3. QED
    BY <2>1, <2>2, AppendToNone DEF w
<1>3. CASE q = "addr"
  <2>1. ServerTLVs(q, w) = <<TLV("name", v["name"]), TLV(q, t)>> /\ q \in ServerLeaf
    BY <1>0, <1>3 DEF ServerTLVs, ServerLeaf, Leaf
  <2>2. ServerTLVs(p, v) = <<TLV("name", v["name"])>>
    BY <1>3 DEF Offers, Registered, ServerTLVs
  <2>3. Append(<<TLV("name", v["name"])>>, TLV(q, t)) = <<TLV("name", v["name"]), TLV(q, t)>>
    BY AppendToOne, Zenon
  <2>4. QED
    BY <2>1, <2>2, <2>3 DEF w
<1>4. CASE q = "port"
  <2> DEFINE n == TLV("name", v["name"])
             a == TLV("addr", v["addr"])
             o == TLV(q, t)
  <2>1. ServerTLVs(q, w) = <<n, a, o>> /\ q \in ServerLeaf
    BY <1>0, <1>4 DEF ServerTLVs, ServerLeaf, Leaf
  <2>2. ServerTLVs(p, v) = <<n, a>>
    BY <1>4 DEF Offers, Registered, ServerTLVs
  <2>3. Append(<<n, a>>, o) = <<n, a, o>>
    BY AppendToTwo, Zenon
  <2>4. QED
    BY <2>1, <2>2, <2>3 DEF w
<1>5. QED
  BY <1>1, <1>2, <1>3, <1>4 DEF Leaf

\* A command matched below a node has the TLVs of that node.
LEMMA ServerTLVsOfCommand ==
  ASSUME NEW p \in Param, NEW q \in Param \ Leaf, Offers(p, q), NEW v
  PROVE  ServerTLVs(q, v) = ServerTLVs(p, v)
BY DEF Offers, Registered, ServerTLVs, Leaf

\* A value typed below a node is none of the node's own.
LEMMA ServerTLVsAbove ==
  ASSUME NEW c \in Param, NEW q \in Below(c), NEW v \in [Leaf -> Text], NEW t
  PROVE  ServerTLVs(c, [v EXCEPT ![q] = t]) = ServerTLVs(c, v)
<1> DEFINE w == [v EXCEPT ![q] = t]
<1>0. \A l \in Leaf : l # q => w[l] = v[l]
  OBVIOUS
<1> HIDE DEF w
<1>1. CASE c = "show-name"
  BY <1>1 DEF Below
<1>2. CASE c \in {"name", "start", "stop", "disable-conn-accept", "no"}
  <2>1. q # "name"
    BY <1>2 DEF Below, ServerBranch
  <2>2. w["name"] = v["name"]
    BY <1>0, <2>1 DEF Leaf
  <2>3. QED
    BY <1>2, <2>2 DEF ServerTLVs, w
<1>3. CASE c = "addr"
  <2>1. q \notin {"name", "addr"}
    BY <1>3 DEF Below
  <2>2. w["name"] = v["name"] /\ w["addr"] = v["addr"]
    BY <1>0, <2>1 DEF Leaf
  <2>3. QED
    BY <1>3, <2>2 DEF ServerTLVs, w
<1>4. CASE c = "port"
  BY <1>4 DEF Below
<1>5. QED
  BY <1>1, <1>2, <1>3, <1>4 DEF ServerTLVs, w

-----------------------------------------------------------------------------
\* The node that the tokens matched so far have come to.
Matching == IF param \in Capability THEN parent ELSE param

\* What "do" can be typed in, and come back to.
ConfigModes == {"config", "load", "console", "console-name", "tcp-server", "name", "addr", "no"}

\* A line or a file that is parsed, and where a "do" in it was typed.
Frame == [of : {"line", "file"}, lines : Seq(Seq(STRING)), old : {None} \cup ConfigModes]

\* The types, and the nodes the cursor can be at.
DataTypes ==
  /\ pc \in {"prompt", "dispatch", "descend", "invoke", "built", "file", "exit", "failed"}
  /\ cursor \in Modes \cup {"root", "do_hook", "no"}
  /\ tlv_buff \in Seq(Field) /\ checkpoint \in 0..Len(tlv_buff)
  /\ value \in [Leaf -> Text]
  /\ console_name = [device |-> console_name.device, mode |-> console_name.mode]
  /\ last \in Line
  /\ todo \in Seq(STRING)
  /\ param \in Param \cup Capability /\ parent \in Param \cup {None}
  /\ enable_or_disable \in {"MODE_UNKNOWN", "CONFIG_ENABLE", "CONFIG_DISABLE", "OPERATIONAL"}
  /\ lost \in BOOLEAN
  /\ pc = "failed" <=> failed # None
  /\ failed \in {None, "null", "assert", "rewind", "overrun", "noname", "impossible"}

\* A line was typed, repeated or chosen; a file has a line left but at its end; and
\* only a line is dispatched.
LineOrFile(call) ==
  /\ call.of = "line" => \E line \in Line : call.lines = <<line>>
  /\ call.of = "file" => call.old = None

\* The calls: typed lines around files around lines.
FrameTypes ==
  /\ calls \in Seq(Frame) /\ Len(calls) <= MaxDepth
  /\ pc = "prompt" <=> calls = <<>>
  /\ \A i \in 1..Len(calls) : LineOrFile(calls[i])
  /\ \A i \in 1..Len(calls) : calls[i].lines # <<>> \/ (i = 1 /\ pc = "file")
  /\ calls # <<>> => calls[Len(calls)].of = "line"
  /\ pc = "dispatch" => calls[1].of = "line" /\ calls[1].old = None
  /\ pc = "file" => calls[1].of = "file"

\* A line comes to nodes below the cursor only; a capability is one of a node that has it.
ReachInv ==
  /\ pc \in {"descend", "invoke"} => Matching \in {cursor} \cup Below(cursor)
  /\ pc = "descend" /\ param \in Capability => param \in Options(parent) /\ parent \in Param
  /\ pc = "invoke" => param \in Param /\ HasCallback(param)

\* A "do" that is not over belongs to h, and it is the innermost.
Borrowed(h) == \E i \in 1..Len(calls) : /\ calls[i].old = h
                                        /\ \A j \in 1 .. i - 1 : calls[j].old = None

\* The prompt at a node.
ShownPath(h) == [i \in DOMAIN Path(h) |-> Shown(Path(h)[i])]

\* The prompt is that of the node where the cursor is, or will be when the innermost
\* "do" is done.
PromptInv ==
  /\ cursor # "do_hook" => console_name.mode = ShownPath(cursor)
  /\ cursor = "do_hook" => \E h \in ConfigModes : /\ Borrowed(h)
                                                  /\ console_name.mode = ShownPath(h)

\* The n-th TLV of s is the value of c, those before it the values above.
Ends(c, s, n) ==
  /\ c \in {"name", "no"} => n > 0 /\ s[n].leaf = "name"
  /\ c = "addr" => n > 1 /\ s[n].leaf = "addr" /\ s[n - 1].leaf = "name"

\* What the checkpoint keeps is the cursor's.
KeptInv ==
  /\ OfTheServer(SubSeq(tlv_buff, 1, checkpoint)) = ServerTLVs(cursor, value)
  /\ Ends(cursor, tlv_buff, checkpoint)

\* Of all that is in the buffer what is the application's is that of the node that was
\* come to.
CollectedInv ==
  /\ pc = "dispatch" => OfTheServer(tlv_buff) = ServerTLVs(cursor, value)
  /\ pc \in {"descend", "invoke"} => OfTheServer(tlv_buff) = ServerTLVs(Matching, value)
  /\ pc = "descend" => Ends(Matching, tlv_buff, Len(tlv_buff))

\* Unless the context was lost, what the checkpoint keeps and what is in the buffer is
\* what the way to the node has.
ContextInv ==
  /\ pc = "prompt" => checkpoint = Len(tlv_buff)
  /\ pc = "dispatch" /\ (Len(calls) = 1 \/ cursor \in {"name", "addr", "no"})
       => checkpoint = Len(tlv_buff)
  /\ ~lost => KeptInv /\ CollectedInv

\* A value in the buffer is taken for "no" when the handler looks for the word.
ValueSaysNo == \E i \in 1..Len(tlv_buff) : SaysNo(tlv_buff[i].val)

\* The tokens of the line that are matched say "no", to a node that can say so.
TokensMatched(k) ==
  /\ todo = SubSeq(TheLine, k + 1, Len(TheLine))
  /\ enable_or_disable = "CONFIG_DISABLE" => \E i \in 1..k : SaysNo(TheLine[i])
  /\ cursor # "do_hook" /\ (\E i \in 1..k : SaysNo(TheLine[i]))
       => \/ enable_or_disable = "CONFIG_DISABLE" \/ ValueSaysNo
          \/ Matching \in {"console-name", "cons-name"}

\* What the handler is told is what its line has said.
Told == enable_or_disable = IF Branch(param) # "config" THEN "OPERATIONAL"
                            ELSE IF \E i \in 1..Len(TheLine) : SaysNo(TheLine[i])
                            THEN "CONFIG_DISABLE" ELSE "CONFIG_ENABLE"

\* While a line is matched it is known which of its tokens said "no".
ToldInv ==
  /\ pc = "descend" => /\ enable_or_disable \in {"MODE_UNKNOWN", "CONFIG_DISABLE"}
                       /\ \E k \in 0..Len(TheLine) : TokensMatched(k)
  /\ pc = "invoke" /\ param \in Application =>
       /\ tlv_buff # <<>> /\ tlv_buff[Len(tlv_buff)] = Code(param)
       /\ ~ValueSaysNo => Told

\* The inductive invariant.
IInv == DataTypes /\ FrameTypes /\ ReachInv /\ PromptInv /\ ContextInv /\ ToldInv

-----------------------------------------------------------------------------
\* The front of a buffer with a TLV appended.
LEMMA FrontOfAppend ==
  ASSUME NEW S, NEW s \in Seq(S), NEW x \in S, NEW n \in 0..Len(s)
  PROVE  /\ Append(s, x) \in Seq(S) /\ Len(Append(s, x)) = Len(s) + 1
         /\ SubSeq(Append(s, x), 1, n) = SubSeq(s, 1, n)
         /\ SubSeq(s, 1, Len(s)) = s
         /\ \A i \in 1..Len(s) : Append(s, x)[i] = s[i]
         /\ Append(s, x)[Len(s) + 1] = x
OBVIOUS

\* The front of a buffer is its own front.
LEMMA FrontOfFront ==
  ASSUME NEW S, NEW s \in Seq(S), NEW n \in 0..Len(s)
  PROVE  LET f == SubSeq(s, 1, n)
         IN f \in Seq(S) /\ Len(f) = n /\ SubSeq(f, 1, n) = f /\ \A i \in 1..n : f[i] = s[i]
OBVIOUS

\* A call is made, returns, or has a "do" in it that is over.
LEMMA CallMade ==
  ASSUME NEW S, NEW s \in Seq(S), NEW x \in S
  PROVE  LET t == <<x>> \o s
         IN t \in Seq(S) /\ Len(t) = Len(s) + 1 /\ t[1] = x /\ t # <<>>
            /\ \A i \in 1..Len(s) : t[i + 1] = s[i]
OBVIOUS

\* A call returns.
LEMMA CallReturns ==
  ASSUME NEW S, NEW s \in Seq(S), s # <<>>
  PROVE  LET t == Tail(s)
         IN t \in Seq(S) /\ Len(t) = Len(s) - 1 /\ (t = <<>> <=> Len(s) = 1)
            /\ \A i \in 1..Len(t) : t[i] = s[i + 1]
<1> DEFINE t == Tail(s)
<1>1. Len(s) \in Nat /\ Len(s) > 0
  OBVIOUS
<1>2. t \in Seq(S) /\ Len(t) = Len(s) - 1 /\ \A i \in 1..Len(t) : t[i] = s[i + 1]
  BY HeadTailProperties
<1>3. t = <<>> <=> Len(t) = 0
  BY <1>2
<1>4. QED
  BY <1>1, <1>2, <1>3

\* The innermost call is changed.
LEMMA FirstChanged ==
  ASSUME NEW S, NEW s \in Seq(S), s # <<>>, NEW f \in S
  PROVE  LET t == [s EXCEPT ![1] = f]
         IN /\ t \in Seq(S) /\ Len(t) = Len(s) /\ t # <<>> /\ t[1] = f /\ s[1] \in S
            /\ \A i \in 2..Len(s) : t[i] = s[i]
OBVIOUS

\* A "do" begins or ends in the innermost call.
LEMMA CallChanged ==
  ASSUME NEW s \in Seq(Frame), s # <<>>, NEW o \in {None} \cup ConfigModes
  PROVE  LET t == [s EXCEPT ![1].old = o]
         IN /\ t \in Seq(Frame) /\ Len(t) = Len(s) /\ t # <<>>
            /\ t[1].of = s[1].of /\ t[1].lines = s[1].lines /\ t[1].old = o
            /\ \A i \in 2..Len(s) : t[i] = s[i]
<1> DEFINE f == [s[1] EXCEPT !.old = o]
<1>1. s[1] \in Frame
  OBVIOUS
<1>2. f \in Frame /\ f.of = s[1].of /\ f.lines = s[1].lines /\ f.old = o
  BY <1>1 DEF Frame
<1>3. [s EXCEPT ![1].old = o] = [s EXCEPT ![1] = f]
  OBVIOUS
<1> HIDE DEF f
<1>4. QED
  BY <1>2, <1>3, FirstChanged

\* The innermost call is done with a line.
LEMMA LineIsDone ==
  ASSUME NEW s \in Seq(Frame), s # <<>>, s[1].lines # <<>>
  PROVE  LET t == [s EXCEPT ![1].lines = Tail(@)]
         IN /\ t \in Seq(Frame) /\ Len(t) = Len(s) /\ t # <<>>
            /\ t[1].of = s[1].of /\ t[1].old = s[1].old
            /\ \A i \in 2..Len(s) : t[i] = s[i]
<1> DEFINE f == [s[1] EXCEPT !.lines = Tail(@)]
<1>1. s[1] \in Frame
  OBVIOUS
<1>2. s[1].lines \in Seq(Seq(STRING))
  BY <1>1 DEF Frame
<1>3. Tail(s[1].lines) \in Seq(Seq(STRING))
  <2>1. \A u \in Seq(Seq(STRING)) : u # <<>> => Tail(u) \in Seq(Seq(STRING))
    BY HeadTailProperties
  <2>2. QED
    BY <1>2, <2>1
<1>4. f \in Frame /\ f.of = s[1].of /\ f.old = s[1].old
  BY <1>1, <1>3 DEF Frame
<1>5. [s EXCEPT ![1].lines = Tail(@)] = [s EXCEPT ![1] = f]
  OBVIOUS
<1> DEFINE t == [s EXCEPT ![1].lines = Tail(@)]
           g == [s EXCEPT ![1] = f]
<1>6. /\ g \in Seq(Frame) /\ Len(g) = Len(s) /\ g # <<>> /\ g[1] = f
      /\ \A i \in 2..Len(s) : g[i] = s[i]
  <2> HIDE DEF f
  <2>1. QED
    BY <1>4, FirstChanged
<1>7. t = g
  BY <1>5
<1> HIDE DEF f, g, t
<1>8. /\ t \in Seq(Frame) /\ Len(t) = Len(s) /\ t # <<>>
      /\ t[1].of = s[1].of /\ t[1].old = s[1].old
      /\ \A i \in 2..Len(s) : t[i] = s[i]
  BY <1>4, <1>6, <1>7
<1>9. QED
  BY <1>8 DEF t

\* What is the application's in a buffer are TLVs.
LEMMA OfTheServerType == \A s \in Seq(Field) : OfTheServer(s) \in Seq(Field)
<1> SUFFICES ASSUME NEW s \in Seq(Field) PROVE OfTheServer(s) \in Seq(Field)
  OBVIOUS
<1>1. QED
  BY SelectedFacts DEF OfTheServer

-----------------------------------------------------------------------------
\* A leaf matched from a node is not on the way to it, nor on that to a mode a "do"
\* will come back to.
LEMMA NotOnTheWay ==
  ASSUME NEW c \in Modes \cup {"root", "no"}, NEW q \in Below(c)
  PROVE  \A i \in DOMAIN Way(c) : Way(c)[i] # q
BY DEF Modes, Below, Way, Nodes, ShowBranch, ConfigBranch, ServerBranch, Commands

\* What a "do" shows is not on the way it comes back by.
LEMMA NotOnTheWayBack ==
  ASSUME NEW h \in ConfigModes, NEW q \in ShowBranch
  PROVE  \A i \in DOMAIN Way(h) : Way(h)[i] # q
BY DEF ConfigModes, Way, ShowBranch

\* The modes of the configuration are those that "do" can be typed in.
LEMMA ConfigModesAre == \A c \in Modes \cup {"root", "do_hook", "no"} :
  /\ c \in Param
  /\ Hook(c) = "config" <=> c \in ConfigModes
  /\ Hook(c) = None <=> c \in {"root", "do_hook"}
<1>1. \A c \in Modes \cup {"root", "do_hook", "no"} : c \in Param
  BY ParamIs DEF Modes, Nodes, ShowBranch, ConfigBranch, ServerBranch, Commands
<1>2. \A c \in Modes \cup {"root", "do_hook", "no"} :
        /\ Branch(c) = "config" <=> c \in ConfigModes
        /\ Branch(c) = None <=> c \in {"root", "do_hook"}
  BY DEF Modes, Branch, ShowBranch, ConfigBranch, ServerBranch, ConfigModes, None
<1>3. QED
  BY <1>1, <1>2, HookIs

\* What a token is matched with.
LEMMA MatchIs ==
  ASSUME NEW p, NEW t, NEW q \in find_matching_param(p, t), q # None
  PROVE  /\ q \in Options(p)
         /\ q \in Leaf \/ Name(q) = t \/ <<t, Name(q)>> \in Abbreviates
<1> DEFINE commands == Options(p) \ Leaf
           exact == {r \in commands : Name(r) = t}
           longer == {r \in commands : <<t, Name(r)>> \in Abbreviates}
           leaves == Options(p) \cap Leaf
<1>1. q \in exact \cup longer \cup leaves
  BY DEF find_matching_param
<1>2. QED
  BY <1>1

\* A token that may be "no" is a value, or taken for "no", or for the command "name".
LEMMA SaysNoIs ==
  ASSUME NEW t, SaysNo(t), NEW q \in Param \cup Capability,
         Name(q) = t \/ <<t, Name(q)>> \in Abbreviates
  PROVE  q \in {"no", "name", "console-name"}
<1> DEFINE beginnings == {"no"} \cup {a[1] : a \in {b \in Abbreviates : b[2] = "no"}}
<1>1. t \in beginnings
  <2>1. CASE t = "no"
    BY <2>1
  <2>2. CASE <<t, "no">> \in Abbreviates
    <3>1. <<t, "no">> \in {b \in Abbreviates : b[2] = "no"} /\ <<t, "no">>[1] = t
      BY <2>2
    <3>2. QED
      BY <3>1
  <2>3. QED
    BY <2>1, <2>2 DEF SaysNo
<1>2. /\ Name(q) = t => q = "no"
      /\ <<t, Name(q)>> \in Abbreviates => Name(q) \in {"no", "name"}
  BY <1>1, AbbreviatesAssumption
<1>3. Name(q) \in {"no", "name"} => q \in {"no", "name", "console-name"}
  BY DEF Name
<1>4. QED
  BY <1>2, <1>3

\* What matches "no", or may stand for it, says "no".
LEMMA TheWordNo == \A t : Name("no") = t \/ <<t, Name("no")>> \in Abbreviates => SaysNo(t)
BY DEF Name, SaysNo

-----------------------------------------------------------------------------
\* Nothing is done but to leave build_tlv_buffer.
LEMMA NothingStep ==
  ASSUME IInv, pc \in {"dispatch", "descend", "invoke"}, Nothing
  PROVE  IInv'
<1> USE DEF IInv, Nothing, Over, NoParse, context
<1>1. DataTypes'
  <2>1. "root" \in Param
    BY ParamIs DEF Nodes
  <2>2. QED
    BY <2>1 DEF DataTypes
<1>2. FrameTypes'
  BY DEF FrameTypes
<1>3. ReachInv'
  BY DEF ReachInv
<1>4. PromptInv'
  BY DEF PromptInv, Borrowed, ShownPath, Shown
<1>5. ContextInv'
  BY DEF ContextInv, KeptInv, CollectedInv
<1>6. ToldInv'
  BY DEF ToldInv
<1>7. QED
  BY <1>1, <1>2, <1>3, <1>4, <1>5, <1>6

\* The process ends.
LEMMA FailStep ==
  ASSUME IInv, pc \notin {"prompt", "file"}, NEW how, Fail(how),
         how \in {"null", "assert", "rewind", "overrun", "noname", "impossible"}
  PROVE  IInv'
<1> USE DEF IInv, Fail, context, parse
<1>1. DataTypes'
  BY DEF DataTypes, None
<1>2. FrameTypes'
  BY DEF FrameTypes
<1>3. ReachInv'
  BY DEF ReachInv
<1>4. PromptInv'
  BY DEF PromptInv, Borrowed, ShownPath, Shown
<1>5. ContextInv'
  BY DEF ContextInv, KeptInv, CollectedInv
<1>6. ToldInv'
  BY DEF ToldInv
<1>7. QED
  BY <1>1, <1>2, <1>3, <1>4, <1>5, <1>6

\* A call is made while another is open.
LEMMA BorrowedByInner ==
  ASSUME calls \in Seq(Frame), NEW f \in Frame, f.old = None, calls' = <<f>> \o calls,
         NEW h \in ConfigModes, Borrowed(h)
  PROVE  Borrowed(h)'
<1>1. PICK i \in 1..Len(calls) : /\ calls[i].old = h
                                 /\ \A j \in 1 .. i - 1 : calls[j].old = None
  BY DEF Borrowed
<1>2. Len(calls') = Len(calls) + 1 /\ calls'[1] = f /\ Len(calls) \in Nat
      /\ \A k \in 1..Len(calls) : calls'[k + 1] = calls[k]
  BY CallMade
<1>3. i + 1 \in 1..Len(calls') /\ calls'[i + 1].old = h
  BY <1>1, <1>2
<1>4. ASSUME NEW j \in 1 .. (i + 1) - 1 PROVE calls'[j].old = None
  <2>1. CASE j = 1
    BY <1>2, <2>1
  <2>2. CASE j # 1
    <3>1. j - 1 \in 1 .. i - 1 /\ j - 1 \in 1..Len(calls) /\ (j - 1) + 1 = j
      BY <1>1, <2>2
    <3>2. QED
      BY <1>1, <1>2, <3>1
  <2>3. QED
    BY <2>1, <2>2
<1>5. QED
  BY <1>3, <1>4 DEF Borrowed

\* A call returns to one with a "do" in it.
LEMMA BorrowedByOuter ==
  ASSUME calls \in Seq(Frame), calls # <<>>, calls[1].old = None, calls' = Tail(calls),
         NEW h \in ConfigModes, Borrowed(h)
  PROVE  Borrowed(h)'
<1>1. PICK i \in 1..Len(calls) : /\ calls[i].old = h
                                 /\ \A j \in 1 .. i - 1 : calls[j].old = None
  BY DEF Borrowed
<1>2. Len(calls') = Len(calls) - 1 /\ Len(calls) \in Nat
      /\ \A k \in 1..Len(calls') : calls'[k] = calls[k + 1]
  BY CallReturns
<1>3. i # 1
  BY <1>1 DEF ConfigModes, None
<1>4. i - 1 \in 1..Len(calls') /\ (i - 1) + 1 = i
  BY <1>1, <1>2, <1>3
<1>5. ASSUME NEW j \in 1 .. (i - 1) - 1 PROVE calls'[j].old = None
  <2>1. j \in 1..Len(calls') /\ j + 1 \in 1 .. i - 1
    BY <1>4
  <2>2. QED
    BY <1>1, <1>2, <2>1
<1>6. QED
  BY <1>1, <1>2, <1>4, <1>5 DEF Borrowed

-----------------------------------------------------------------------------
\* A line is parsed: typed, or from within another.
LEMMA EnterStep ==
  ASSUME IInv, NEW line \in Line, Enter(line), UNCHANGED <<context, last, failed>>,
         \/ pc = "prompt"
         \/ pc = "dispatch"
         \/ pc = "invoke" /\ param \in {"history", "N", "repeat"}
  PROVE  IInv'
<1> USE DEF IInv, Enter, NoParse, context
<1> DEFINE f == [of |-> "line", lines |-> <<line>>, old |-> None]
<1>0. f \in Frame /\ f.of = "line" /\ f.old = None /\ f.lines = <<line>> /\ f.lines # <<>>
  <2>1. <<line>> \in Seq(Seq(STRING))
    BY LineAssumption
  <2>2. QED
    BY <2>1 DEF Frame
<1>1. /\ calls' \in Seq(Frame) /\ Len(calls') = Len(calls) + 1 /\ calls'[1] = f
      /\ calls' # <<>> /\ \A i \in 1..Len(calls) : calls'[i + 1] = calls[i]
  BY <1>0, CallMade DEF FrameTypes
<1>a. calls \in Seq(Frame) /\ calls' = <<f>> \o calls /\ Len(calls) \in Nat
  BY DEF FrameTypes
<1> HIDE DEF f
<1>2. DataTypes'
  <2>1. "root" \in Param
    BY ParamIs DEF Nodes
  <2>2. QED
    BY <2>1 DEF DataTypes
<1>3. FrameTypes'
  <2>1. ASSUME NEW i \in 1..Len(calls')
        PROVE  LineOrFile(calls'[i]) /\ calls'[i].lines # <<>>
    <3>1. CASE i = 1
      BY <1>0, <1>1, <3>1 DEF LineOrFile
    <3>2. CASE i # 1
      <4>1. i - 1 \in 1..Len(calls) /\ (i - 1) + 1 = i
        BY <1>1, <1>a, <3>2
      <4>2. LineOrFile(calls[i - 1]) /\ calls[i - 1].lines # <<>>
        BY <4>1 DEF FrameTypes
      <4>3. QED
        BY <1>1, <4>1, <4>2
    <3>3. QED
      BY <3>1, <3>2
  <2>2. calls'[Len(calls')].of = "line"
    <3>1. CASE calls = <<>>
      BY <1>0, <1>1, <3>1
    <3>2. CASE calls # <<>>
      <4>1. Len(calls) \in 1..Len(calls)
        BY <1>a, <3>2
      <4>2. QED
        BY <1>1, <3>2, <4>1 DEF FrameTypes
    <3>3. QED
      BY <3>1, <3>2
  <2>3. Len(calls') <= MaxDepth
    BY <1>1, <1>a, LineAssumption
  <2>4. QED
    BY <1>0, <1>1, <2>1, <2>2, <2>3 DEF FrameTypes, LineOrFile
<1>4. ReachInv'
  BY DEF ReachInv
<1>5. PromptInv'
  <2>1. ASSUME NEW h \in ConfigModes, Borrowed(h) PROVE Borrowed(h)'
    BY <1>0, <1>a, <2>1, BorrowedByInner
  <2>2. \A h : ShownPath(h)' = ShownPath(h)
    BY DEF ShownPath, Shown
  <2>3. QED
    BY <2>1, <2>2 DEF PromptInv
<1>6. ContextInv'
  <2>1. KeptInv' = KeptInv
    BY DEF KeptInv
  <2>2. CASE pc = "prompt"
    <3>1. SubSeq(tlv_buff, 1, Len(tlv_buff)) = tlv_buff
      BY FrontOfAppend DEF DataTypes
    <3>2. checkpoint = Len(tlv_buff) /\ (~lost => KeptInv)
      BY <2>2 DEF ContextInv
    <3>3. ~lost => CollectedInv'
      BY <3>1, <3>2 DEF KeptInv, CollectedInv
    <3>4. QED
      BY <2>1, <3>2, <3>3 DEF ContextInv
  <2>3. CASE pc = "dispatch"
    <3>1. Len(calls') # 1
      BY <1>1, <1>a, <2>3 DEF FrameTypes
    <3>2. QED
      BY <2>1, <2>3, <3>1 DEF ContextInv, CollectedInv
  <2>4. CASE pc = "invoke" /\ param \in {"history", "N", "repeat"}
    <3>1. Len(calls') # 1
      BY <1>1, <1>a, <2>4 DEF FrameTypes
    <3>2. param \in {cursor} \cup Below(cursor)
      BY <2>4 DEF ReachInv, Matching, Capability
    <3>3. cursor \in {"root", "do_hook", "show", "history"}
      BY <2>4, <3>2
         DEF DataTypes, Modes, Below, ShowBranch, ConfigBranch, ServerBranch
    <3>4. ServerTLVs(cursor, value) = <<>> /\ ServerTLVs(Matching, value) = <<>>
      BY <2>4, <3>3 DEF ServerTLVs, Matching, Capability
    <3>5. ASSUME ~lost PROVE KeptInv /\ OfTheServer(tlv_buff) = <<>>
      <4>1. KeptInv /\ CollectedInv
        BY <3>5 DEF ContextInv
      <4>2. OfTheServer(tlv_buff) = ServerTLVs(Matching, value)
        BY <2>4, <4>1 DEF CollectedInv
      <4>3. QED
        BY <3>4, <4>1, <4>2
    <3>6. ~lost => CollectedInv'
      BY <3>4, <3>5 DEF CollectedInv
    <3>7. QED
      BY <2>1, <3>1, <3>3, <3>5, <3>6 DEF ContextInv
  <2>5. QED
    BY <2>2, <2>3, <2>4
<1>7. ToldInv'
  BY DEF ToldInv
<1>8. QED
  BY <1>2, <1>3, <1>4, <1>5, <1>6, <1>7

\* What stays of the calls when the innermost one returns.
LEMMA FramesReturn ==
  ASSUME FrameTypes, calls # <<>>, calls[1].old = None, calls' = Tail(calls),
         pc # "file" \/ calls[1].of = "file",
         pc' = IF Len(calls) = 1 THEN "prompt" ELSE "built"
  PROVE  FrameTypes' /\ \A h \in ConfigModes : Borrowed(h) => Borrowed(h)'
<1>1. /\ calls' \in Seq(Frame) /\ Len(calls') = Len(calls) - 1
      /\ (calls' = <<>> <=> Len(calls) = 1)
      /\ \A i \in 1..Len(calls') : calls'[i] = calls[i + 1]
  BY CallReturns DEF FrameTypes
<1>2. Len(calls) \in Nat /\ Len(calls) > 0 /\ MaxDepth \in Nat
  BY LineAssumption DEF FrameTypes
<1>3. ASSUME NEW i \in 1..Len(calls')
      PROVE  LineOrFile(calls'[i]) /\ calls'[i].lines # <<>>
  <2>1. i + 1 \in 1..Len(calls) /\ i + 1 # 1
    BY <1>1, <1>2
  <2>2. LineOrFile(calls[i + 1]) /\ calls[i + 1].lines # <<>>
    BY <2>1 DEF FrameTypes
  <2>3. QED
    BY <1>1, <2>2
<1>4. calls' # <<>> => calls'[Len(calls')].of = "line"
  <2> SUFFICES ASSUME calls' # <<>> PROVE calls'[Len(calls')].of = "line"
    OBVIOUS
  <2>1. Len(calls') \in 1..Len(calls') /\ Len(calls') + 1 = Len(calls)
    BY <1>1, <1>2
  <2>2. QED
    BY <1>1, <2>1 DEF FrameTypes
<1>5. FrameTypes'
  BY <1>1, <1>2, <1>3, <1>4 DEF FrameTypes
<1>6. ASSUME NEW h \in ConfigModes, Borrowed(h) PROVE Borrowed(h)'
  BY <1>6, BorrowedByOuter DEF FrameTypes
<1>7. QED
  BY <1>5, <1>6

\* The cursor and the prompt stay.
LEMMA SamePrompt ==
  ASSUME PromptInv, UNCHANGED <<cursor, value, console_name>>,
         \A h \in ConfigModes : Borrowed(h) => Borrowed(h)'
  PROVE  PromptInv'
<1>1. \A h : ShownPath(h)' = ShownPath(h)
  BY DEF ShownPath, Shown
<1>2. QED
  BY <1>1 DEF PromptInv

-----------------------------------------------------------------------------
\* A line of blanks.
LEMMA NothingToParseStep ==
  ASSUME IInv, NothingToParse
  PROVE  IInv'
<1> USE DEF IInv, NothingToParse, Pop, context, parse
<1>1. calls # <<>> /\ calls[1].of = "line" /\ calls[1].old = None /\ Len(calls) \in Nat
  BY DEF FrameTypes
<1>2. DataTypes'
  <2>1. TheLine \in Line
    <3>1. LineOrFile(calls[1])
      BY <1>1 DEF FrameTypes
    <3>2. QED
      BY <1>1, <3>1 DEF LineOrFile, TheLine, Innermost
  <2>2. QED
    BY <2>1 DEF DataTypes
<1>3. FrameTypes' /\ \A h \in ConfigModes : Borrowed(h) => Borrowed(h)'
  BY <1>1, FramesReturn
<1>4. ReachInv'
  BY DEF ReachInv
<1>5. PromptInv'
  BY <1>3, SamePrompt
<1>6. ContextInv'
  <2>1. KeptInv' = KeptInv
    BY DEF KeptInv
  <2>2. pc' = "prompt" => checkpoint = Len(tlv_buff)
    BY DEF ContextInv
  <2>3. QED
    BY <2>1, <2>2 DEF ContextInv, CollectedInv
<1>7. ToldInv'
  BY DEF ToldInv
<1>8. QED
  BY <1>2, <1>3, <1>4, <1>5, <1>6, <1>7

\* The buffer is cut at the checkpoint, or emptied at the root.
LEMMA RestoreKeeps ==
  ASSUME DataTypes, ~lost => KeptInv, RestoreOrReset, UNCHANGED <<cursor, value>>
  PROVE  /\ tlv_buff' \in Seq(Field) /\ checkpoint' = Len(tlv_buff')
         /\ lost' \in BOOLEAN /\ (~lost' => KeptInv')
<1> USE DEF RestoreOrReset
<1>1. CASE cursor = "root"
  <2>1. tlv_buff' = <<>> /\ checkpoint' = 0 /\ lost' = FALSE /\ cursor' = "root"
    BY <1>1 DEF reset_serialize_buffer
  <2>2. SubSeq(<<>>, 1, 0) = <<>> /\ ServerTLVs("root", value) = <<>>
    BY DEF ServerTLVs
  <2>3. KeptInv'
    BY <2>1, <2>2, OfTheServerEmpty DEF KeptInv, Ends
  <2>4. <<>> \in Seq(Field) /\ Len(<<>>) = 0 /\ FALSE \in BOOLEAN
    OBVIOUS
  <2>5. QED
    BY <2>1, <2>3, <2>4, Zenon
<1>2. CASE cursor # "root"
  <2> DEFINE f == SubSeq(tlv_buff, 1, checkpoint)
  <2>1. tlv_buff' = f /\ checkpoint' = checkpoint /\ lost' = lost
    BY <1>2
  <2>2. /\ f \in Seq(Field) /\ Len(f) = checkpoint /\ SubSeq(f, 1, checkpoint) = f
        /\ \A i \in 1..checkpoint : f[i] = tlv_buff[i]
    BY FrontOfFront DEF DataTypes
  <2>3. ASSUME ~lost PROVE KeptInv'
    <3>1. KeptInv
      BY <2>3
    <3>2. Ends(cursor, f, checkpoint)
      BY <2>2, <3>1 DEF KeptInv, Ends, DataTypes
    <3> HIDE DEF f
    <3>3. OfTheServer(f) = ServerTLVs(cursor, value)
      BY <3>1 DEF KeptInv, f
    <3>4. QED
      BY <2>1, <2>2, <3>2, <3>3 DEF KeptInv
  <2>4. lost \in BOOLEAN
    BY DEF DataTypes
  <2> HIDE DEF f
  <2>5. QED
    BY <2>1, <2>2, <2>3, <2>4
<1>3. QED
  BY <1>1, <1>2

\* A line is done.
LEMMA ReturnStep ==
  ASSUME IInv, Return
  PROVE  IInv'
<1> USE DEF IInv, Return, Pop, parse
<1>1. calls # <<>> /\ calls[1].of = "line" /\ calls[1].old = None /\ Len(calls) \in Nat
  BY DEF FrameTypes, Innermost
<1>2. /\ tlv_buff' \in Seq(Field) /\ checkpoint' = Len(tlv_buff')
      /\ lost' \in BOOLEAN /\ (~lost' => KeptInv')
  BY RestoreKeeps DEF ContextInv
<1>3. DataTypes'
  <2>1. TheLine \in Line
    <3>1. LineOrFile(calls[1])
      BY <1>1 DEF FrameTypes
    <3>2. QED
      BY <1>1, <3>1 DEF LineOrFile, TheLine, Innermost
  <2>2. checkpoint' \in 0..Len(tlv_buff')
    BY <1>2
  <2>3. QED
    BY <1>2, <2>1, <2>2 DEF DataTypes
<1>4. FrameTypes' /\ \A h \in ConfigModes : Borrowed(h) => Borrowed(h)'
  BY <1>1, FramesReturn
<1>5. ReachInv'
  BY DEF ReachInv
<1>6. PromptInv'
  BY <1>4, SamePrompt
<1>7. ContextInv'
  BY <1>2 DEF ContextInv, CollectedInv
<1>8. ToldInv'
  BY DEF ToldInv
<1>9. QED
  BY <1>3, <1>4, <1>5, <1>6, <1>7, <1>8

\* The calls stay.
LEMMA SameFrames ==
  ASSUME FrameTypes, UNCHANGED calls, pc \notin {"prompt", "file"},
         pc' \notin {"prompt", "dispatch", "file"}
  PROVE  FrameTypes' /\ \A h \in ConfigModes : Borrowed(h) => Borrowed(h)'
BY DEF FrameTypes, Borrowed

\* The line that is parsed.
LEMMA TheLineIs ==
  ASSUME FrameTypes, calls # <<>>, calls[1].lines # <<>>
  PROVE  TheLine \in Seq(STRING)
<1>1. calls[1] \in Frame
  BY DEF FrameTypes
<1>2. calls[1].lines \in Seq(Seq(STRING))
  BY <1>1 DEF Frame
<1>3. QED
  BY <1>2 DEF TheLine, Innermost

\* Nothing of the line is matched yet, or "do" is.
LEMMA TokensOfLine ==
  ASSUME TheLine \in Seq(STRING), UNCHANGED TheLine, enable_or_disable' = "MODE_UNKNOWN"
  PROVE  /\ todo' = TheLine => \E k \in 0..Len(TheLine') : TokensMatched(k)'
         /\ TheLine # <<>> /\ todo' = Tail(TheLine) /\ cursor' = "do_hook"
              => \E k \in 0..Len(TheLine') : TokensMatched(k)'
<1>1. ASSUME todo' = TheLine PROVE TokensMatched(0)'
  <2>1. SubSeq(TheLine, 0 + 1, Len(TheLine)) = TheLine
    OBVIOUS
  <2>2. QED
    BY <1>1, <2>1 DEF TokensMatched
<1>2. ASSUME TheLine # <<>>, todo' = Tail(TheLine), cursor' = "do_hook"
      PROVE  TokensMatched(1)'
  <2>1. SubSeq(TheLine, 1 + 1, Len(TheLine)) = Tail(TheLine)
    BY <1>2, TailIsSubSeq
  <2>2. QED
    BY <1>2, <2>1 DEF TokensMatched
<1>3. 0 \in 0..Len(TheLine) /\ (TheLine # <<>> => 1 \in 0..Len(TheLine))
  OBVIOUS
<1>4. QED
  BY <1>1, <1>2, <1>3

\* A line is matched from the cursor.
LEMMA MatchStep ==
  ASSUME IInv, Match
  PROVE  IInv'
<1> USE DEF IInv, Match, Build, Dispatching, context
<1>1. calls # <<>> /\ TheLine \in Seq(STRING)
  BY TheLineIs DEF FrameTypes
<1>2. DataTypes'
  <2>1. cursor \in Param
    BY ConfigModesAre DEF DataTypes
  <2>2. QED
    BY <1>1, <2>1 DEF DataTypes
<1>3. FrameTypes' /\ \A h \in ConfigModes : Borrowed(h) => Borrowed(h)'
  BY SameFrames
<1>4. Matching' = cursor /\ cursor \notin Capability
  BY DEF DataTypes, Modes, Capability, Matching
<1>5. ReachInv'
  BY <1>4 DEF ReachInv
<1>6. PromptInv'
  BY <1>3, SamePrompt
<1>7. ContextInv'
  <2> SUFFICES ASSUME ~lost PROVE KeptInv' /\ CollectedInv'
    BY DEF ContextInv
  <2>1. KeptInv /\ CollectedInv
    BY DEF ContextInv
  <2>2. Ends(cursor, tlv_buff, Len(tlv_buff))
    BY <2>1 DEF ContextInv, KeptInv, Ends
  <2>3. QED
    BY <1>4, <2>1, <2>2 DEF KeptInv, CollectedInv
<1>8. ToldInv'
  <2>1. UNCHANGED TheLine
    BY DEF TheLine, Innermost
  <2>2. QED
    BY <1>1, <2>1, TokensOfLine DEF ToldInv
<1>9. QED
  BY <1>2, <1>3, <1>5, <1>6, <1>7, <1>8

\* The buffer is emptied where the cursor may have a context: it is lost.
LEMMA NothingIsKept ==
  ASSUME DataTypes, reset_serialize_buffer, lost' = (PathLeaves(cursor) # <<>>),
         UNCHANGED <<cursor, value>>
  PROVE  /\ tlv_buff' \in Seq(Field) /\ Len(tlv_buff') = 0 /\ checkpoint' \in 0..Len(tlv_buff')
         /\ lost' \in BOOLEAN
         /\ ~lost' => /\ KeptInv' /\ cursor \notin {"name", "addr", "no"}
                      /\ OfTheServer(tlv_buff') = ServerTLVs(cursor, value)
<1>1. <<>> \in Seq(Field) /\ Len(<<>>) = 0 /\ 0 \in 0..0 /\ SubSeq(<<>>, 1, 0) = <<>>
  OBVIOUS
<1>2. tlv_buff' = <<>> /\ checkpoint' = 0
  BY DEF reset_serialize_buffer
<1>3. ASSUME ~lost'
      PROVE  /\ KeptInv' /\ cursor \notin {"name", "addr", "no"}
             /\ OfTheServer(tlv_buff') = ServerTLVs(cursor, value)
  <2>1. LeavesTo(cursor) = <<>>
    BY <1>3, PathLeavesIs, ConfigModesAre DEF DataTypes
  <2>2. cursor \notin {"name", "addr", "no"}
    BY <2>1 DEF LeavesTo
  <2>3. ServerTLVs(cursor, value) = <<>>
    BY <2>1 DEF LeavesTo, ServerTLVs, DataTypes, Modes
  <2>4. KeptInv'
    BY <1>1, <1>2, <2>2, <2>3, OfTheServerEmpty DEF KeptInv, Ends
  <2>5. QED
    BY <1>2, <2>2, <2>3, <2>4, OfTheServerEmpty
<1>4. QED
  BY <1>1, <1>2, <1>3

-----------------------------------------------------------------------------
\* A file is opened.
LEMMA LoadStep ==
  ASSUME IInv, Load
  PROVE  IInv'
<1> USE DEF IInv, Load, Dispatching, context, parse
<1>1. CASE Nothing
  BY <1>1, NothingStep
<1>2. CASE /\ Len(calls) < MaxDepth
           /\ \E text \in FileText :
                calls' = <<[of |-> "file", lines |-> text, old |-> None]>> \o calls
           /\ reset_serialize_buffer
           /\ lost' = (PathLeaves(cursor) # <<>>)
           /\ pc' = "file"
           /\ UNCHANGED <<cursor, value, console_name, last, parse, failed>>
  <2>1. PICK text \in FileText :
               calls' = <<[of |-> "file", lines |-> text, old |-> None]>> \o calls
    BY <1>2
  <2> DEFINE f == [of |-> "file", lines |-> text, old |-> None]
  <2>2. f \in Frame /\ f.of = "file" /\ f.old = None
    BY LineAssumption DEF Frame
  <2>3. calls \in Seq(Frame) /\ calls' = <<f>> \o calls /\ Len(calls) \in Nat /\ calls # <<>>
    BY <2>1 DEF FrameTypes
  <2> HIDE DEF f
  <2>4. /\ calls' \in Seq(Frame) /\ Len(calls') = Len(calls) + 1 /\ calls'[1] = f
        /\ calls' # <<>> /\ \A i \in 1..Len(calls) : calls'[i + 1] = calls[i]
    BY <2>2, <2>3, CallMade
  <2>5. /\ tlv_buff' \in Seq(Field) /\ checkpoint' \in 0..Len(tlv_buff')
        /\ lost' \in BOOLEAN /\ (~lost' => KeptInv')
    BY <1>2, NothingIsKept
  <2>6. DataTypes'
    BY <1>2, <2>5 DEF DataTypes
  <2>7. FrameTypes'
    <3>1. ASSUME NEW i \in 1..Len(calls')
          PROVE  LineOrFile(calls'[i]) /\ (calls'[i].lines # <<>> \/ i = 1)
      <4>1. CASE i = 1
        BY <2>2, <2>4, <4>1 DEF LineOrFile
      <4>2. CASE i # 1
        <5>1. i - 1 \in 1..Len(calls) /\ (i - 1) + 1 = i
          BY <2>4, <2>3, <4>2
        <5>2. LineOrFile(calls[i - 1]) /\ calls[i - 1].lines # <<>>
          BY <5>1 DEF FrameTypes
        <5>3. QED
          BY <2>4, <5>1, <5>2
      <4>3. QED
        BY <4>1, <4>2
    <3>2. calls'[Len(calls')].of = "line"
      <4>1. Len(calls) \in 1..Len(calls)
        BY <2>3
      <4>2. QED
        BY <2>3, <2>4, <4>1 DEF FrameTypes
    <3>3. Len(calls') <= MaxDepth
      BY <1>2, <2>3, <2>4, LineAssumption
    <3>4. QED
      BY <1>2, <2>2, <2>4, <3>1, <3>2, <3>3 DEF FrameTypes
  <2>8. ASSUME NEW h \in ConfigModes, Borrowed(h) PROVE Borrowed(h)'
    BY <2>2, <2>3, <2>8, BorrowedByInner
  <2>9. PromptInv'
    BY <1>2, <2>8, SamePrompt
  <2>10. ContextInv'
    BY <1>2, <2>5 DEF ContextInv, CollectedInv
  <2>11. ReachInv' /\ ToldInv'
    BY <1>2 DEF ReachInv, ToldInv
  <2>12. QED
    BY <2>6, <2>7, <2>9, <2>10, <2>11
<1>3. QED
  BY <1>1, <1>2

\* A line of the file is matched.
LEMMA FileLineStep ==
  ASSUME IInv, FileLine
  PROVE  IInv'
<1> USE DEF IInv, FileLine, Build, context
<1>1. calls # <<>> /\ TheLine \in Seq(STRING)
  BY TheLineIs DEF FrameTypes, Innermost
<1>2. /\ tlv_buff' \in Seq(Field) /\ Len(tlv_buff') = 0 /\ checkpoint' \in 0..Len(tlv_buff')
      /\ lost' \in BOOLEAN
      /\ ~lost' => /\ KeptInv' /\ cursor \notin {"name", "addr", "no"}
                   /\ OfTheServer(tlv_buff') = ServerTLVs(cursor, value)
  BY NothingIsKept
<1>3. DataTypes'
  <2>1. cursor \in Param
    BY ConfigModesAre DEF DataTypes
  <2>2. QED
    BY <1>1, <1>2, <2>1 DEF DataTypes
<1>4. FrameTypes' /\ \A h \in ConfigModes : Borrowed(h) => Borrowed(h)'
  BY <1>1 DEF FrameTypes, Borrowed, Innermost
<1>5. Matching' = cursor /\ cursor \notin Capability
  BY DEF DataTypes, Modes, Capability, Matching
<1>6. ReachInv'
  BY <1>5 DEF ReachInv
<1>7. PromptInv'
  BY <1>4, SamePrompt
<1>8. ContextInv'
  <2>1. ASSUME ~lost' PROVE CollectedInv'
    BY <1>2, <1>5, <2>1 DEF CollectedInv, Ends
  <2>2. QED
    BY <1>2, <2>1 DEF ContextInv
<1>9. ToldInv'
  <2>1. UNCHANGED TheLine
    BY DEF TheLine, Innermost
  <2>2. QED
    BY <1>1, <2>1, TokensOfLine DEF ToldInv
<1>10. QED
  BY <1>3, <1>4, <1>6, <1>7, <1>8, <1>9

\* The file is at its end.
LEMMA FileEndsStep ==
  ASSUME IInv, FileEnds
  PROVE  IInv'
<1> USE DEF IInv, FileEnds, context, parse
<1>1. /\ calls # <<>> /\ calls[1].of = "file" /\ calls[1].old = None
      /\ Len(calls) \in Nat /\ Len(calls) # 1
  <2>1. calls # <<>> /\ calls[1].of = "file" /\ Len(calls) \in Nat
    BY DEF FrameTypes, Innermost
  <2>2. calls[1].old = None
    BY <2>1 DEF FrameTypes, LineOrFile
  <2>3. Len(calls) # 1
    BY <2>1 DEF FrameTypes
  <2>4. QED
    BY <2>1, <2>2, <2>3
<1>2. DataTypes'
  BY DEF DataTypes
<1>3. FrameTypes' /\ \A h \in ConfigModes : Borrowed(h) => Borrowed(h)'
  BY <1>1, FramesReturn
<1>4. PromptInv'
  BY <1>3, SamePrompt
<1>5. ContextInv'
  <2>1. KeptInv' = KeptInv
    BY DEF KeptInv
  <2>2. QED
    BY <2>1 DEF ContextInv, CollectedInv
<1>6. ReachInv' /\ ToldInv'
  BY DEF ReachInv, ToldInv
<1>7. QED
  BY <1>2, <1>3, <1>4, <1>5, <1>6

\* A line of the file is done.
LEMMA FileLineDoneStep ==
  ASSUME IInv, FileLineDone
  PROVE  IInv'
<1> USE DEF IInv, FileLineDone, parse
<1>1. calls \in Seq(Frame) /\ calls # <<>> /\ Len(calls) \in Nat /\ calls[1].lines # <<>>
  BY DEF FrameTypes, Innermost
<1>2. /\ calls' \in Seq(Frame) /\ Len(calls') = Len(calls) /\ calls' # <<>>
      /\ calls'[1].of = calls[1].of /\ calls'[1].old = calls[1].old
      /\ \A i \in 2..Len(calls) : calls'[i] = calls[i]
  BY <1>1, LineIsDone
<1>3. /\ tlv_buff' \in Seq(Field) /\ checkpoint' = Len(tlv_buff')
      /\ lost' \in BOOLEAN /\ (~lost' => KeptInv')
  BY RestoreKeeps DEF ContextInv
<1>4. DataTypes'
  <2>1. checkpoint' \in 0..Len(tlv_buff')
    BY <1>3
  <2>2. QED
    BY <1>3, <2>1 DEF DataTypes
<1>5. FrameTypes'
  <2>1. ASSUME NEW i \in 1..Len(calls')
        PROVE  LineOrFile(calls'[i]) /\ (calls'[i].lines # <<>> \/ i = 1)
    <3>1. LineOrFile(calls[i]) /\ (calls[i].lines # <<>> \/ i = 1) /\ i \in 1..Len(calls)
      BY <1>2 DEF FrameTypes
    <3>2. CASE i = 1
      BY <1>2, <3>1, <3>2 DEF LineOrFile, Innermost
    <3>3. CASE i # 1
      <4>1. calls'[i] = calls[i]
        BY <1>1, <1>2, <3>1, <3>3
      <4>2. QED
        BY <3>1, <4>1
    <3>4. QED
      BY <3>2, <3>3
  <2>2. calls'[Len(calls')].of = "line"
    BY <1>1, <1>2 DEF FrameTypes
  <2>3. QED
    BY <1>2, <2>1, <2>2 DEF FrameTypes, Innermost
<1>6. ASSUME NEW h \in ConfigModes, Borrowed(h) PROVE Borrowed(h)'
  <2>1. \A i \in 1..Len(calls) : calls'[i].old = calls[i].old
    BY <1>1, <1>2
  <2>2. PICK i \in 1..Len(calls) : /\ calls[i].old = h
                                   /\ \A j \in 1 .. i - 1 : calls[j].old = None
    BY <1>6 DEF Borrowed
  <2>3. \A j \in 1 .. i - 1 : j \in 1..Len(calls)
    BY <1>1
  <2>4. QED
    BY <1>2, <2>1, <2>2, <2>3 DEF Borrowed
<1>7. PromptInv'
  BY <1>6, SamePrompt
<1>8. ContextInv'
  BY <1>3 DEF ContextInv, CollectedInv
<1>9. ReachInv' /\ ToldInv'
  BY DEF ReachInv, ToldInv
<1>10. QED
  BY <1>4, <1>5, <1>7, <1>8, <1>9

-----------------------------------------------------------------------------
\* A "do" is begun.
LEMMA DoCommandStep ==
  ASSUME IInv, DoCommand
  PROVE  IInv'
<1> USE DEF IInv, DoCommand, Dispatching
<1>1. CASE IS_CURRENT_MODE_CONFIG
  <2>1. /\ calls' = [calls EXCEPT ![1].old = cursor]
        /\ cursor' = "do_hook" /\ lost' = FALSE
        /\ reset_serialize_buffer
        /\ Build(Tail(TheLine), "do_hook")
        /\ UNCHANGED <<value, console_name, last, failed>>
    BY <1>1 DEF IS_CURRENT_MODE_CONFIG, None
  <2>2. cursor \in ConfigModes /\ cursor # "do_hook"
    BY <1>1, ConfigModesAre DEF DataTypes, IS_CURRENT_MODE_CONFIG, ConfigModes
  <2>3. calls \in Seq(Frame) /\ calls # <<>> /\ calls[1].lines # <<>> /\ Len(calls) \in Nat
    BY DEF FrameTypes
  <2>4. /\ calls' \in Seq(Frame) /\ Len(calls') = Len(calls) /\ calls' # <<>>
        /\ calls'[1].of = calls[1].of /\ calls'[1].lines = calls[1].lines
        /\ calls'[1].old = cursor
        /\ \A i \in 2..Len(calls) : calls'[i] = calls[i]
    BY <2>1, <2>2, <2>3, CallChanged
  <2>5. tlv_buff' = <<>> /\ checkpoint' = 0
    BY <2>1 DEF reset_serialize_buffer
  <2>6. TheLine \in Seq(STRING) /\ TheLine # <<>> /\ UNCHANGED TheLine
    BY <2>3, <2>4, TheLineIs DEF TheLine, Innermost
  <2>7. /\ todo' = Tail(TheLine) /\ param' = "do_hook" /\ parent' = None
        /\ enable_or_disable' = "MODE_UNKNOWN" /\ pc' = "descend"
    BY <2>1 DEF Build
  <2>8. DataTypes'
    <3>1. "do_hook" \in Param
      BY ParamIs DEF Nodes
    <3>2. Tail(TheLine) \in Seq(STRING)
      BY <2>6, HeadTailProperties
    <3>3. <<>> \in Seq(Field) /\ Len(<<>>) = 0 /\ 0 \in 0..0
      OBVIOUS
    <3>4. QED
      BY <2>1, <2>5, <2>7, <3>1, <3>2, <3>3 DEF DataTypes
  <2>9. FrameTypes'
    <3>1. ASSUME NEW i \in 1..Len(calls')
          PROVE  LineOrFile(calls'[i]) /\ calls'[i].lines # <<>>
      <4>1. LineOrFile(calls[i]) /\ calls[i].lines # <<>> /\ i \in 1..Len(calls)
        BY <2>4 DEF FrameTypes
      <4>2. CASE i = 1
        BY <2>4, <4>1, <4>2 DEF LineOrFile, FrameTypes
      <4>3. CASE i # 1
        <5>1. calls'[i] = calls[i]
          BY <2>3, <2>4, <4>1, <4>3
        <5>2. QED
          BY <4>1, <5>1
      <4>4. QED
        BY <4>2, <4>3
    <3>2. calls'[Len(calls')].of = "line"
      BY <2>3, <2>4 DEF FrameTypes
    <3>3. QED
      BY <2>4, <2>7, <3>1, <3>2 DEF FrameTypes
  <2>10. Matching' = "do_hook"
    BY <2>7 DEF Matching, Capability
  <2>11. ReachInv'
    BY <2>1, <2>7, <2>10 DEF ReachInv, Capability
  <2>12. PromptInv'
    <3>1. console_name.mode = ShownPath(cursor)
      BY <2>2 DEF PromptInv
    <3>2. PICK h \in ConfigModes : h = cursor
      BY <2>2
    <3>3. ShownPath(h)' = ShownPath(h)
      BY <2>1 DEF ShownPath, Shown
    <3>4. Borrowed(h)'
      <4>1. 1 \in 1..Len(calls') /\ \A j \in 1 .. 1 - 1 : calls'[j].old = None
        BY <2>3, <2>4
      <4>2. QED
        BY <2>4, <3>2, <4>1 DEF Borrowed
    <3>5. console_name'.mode = ShownPath(h)'
      BY <2>1, <3>1, <3>2, <3>3
    <3>6. QED
      BY <2>1, <3>4, <3>5 DEF PromptInv
  <2>13. ContextInv'
    <3>1. SubSeq(<<>>, 1, 0) = <<>> /\ ServerTLVs("do_hook", value) = <<>>
      BY DEF ServerTLVs
    <3>2. KeptInv'
      BY <2>1, <2>5, <3>1, OfTheServerEmpty DEF KeptInv, Ends
    <3>3. CollectedInv'
      BY <2>1, <2>5, <2>7, <2>10, <3>1, OfTheServerEmpty DEF CollectedInv, Ends
    <3>4. QED
      BY <2>7, <3>2, <3>3 DEF ContextInv
  <2>14. ToldInv'
    BY <2>1, <2>6, <2>7, TokensOfLine DEF ToldInv
  <2>15. QED
    BY <2>8, <2>9, <2>11, <2>12, <2>13, <2>14
<1>2. CASE Hook(cursor) = None /\ Fail("null")
  BY <1>2, FailStep
<1>3. CASE Nothing
  BY <1>3, NothingStep
<1>4. QED
  BY <1>1, <1>2, <1>3

\* The values on the way to a node, when that of a node below has changed.
LEMMA SameWay ==
  ASSUME NEW c \in Param,
         \A i \in DOMAIN Way(c) : Way(c)[i] \in Leaf => value'[Way(c)[i]] = value[Way(c)[i]]
  PROVE  ShownPath(c)' = ShownPath(c)
<1>1. Path(c) = Way(c)
  BY PathIs
<1>2. \A i \in DOMAIN Way(c) : Shown(Way(c)[i])' = Shown(Way(c)[i])
  BY DEF Shown
<1>3. QED
  BY <1>1, <1>2 DEF ShownPath

\* What is above a node that the cursor can be at.
LEMMA ParentOfMode ==
  ASSUME NEW c \in Modes \cup {"no"}
  PROVE  /\ Parent(c) \in Modes \cup {"root"} /\ c \in Below(Parent(c)) /\ Parent(c) \in Param
         /\ Offers(Parent(c), c) /\ Parent(c) # "do_hook"
<1>1. c \in Param /\ c \notin {"root", "do_hook"}
  BY ConfigModesAre DEF Modes
<1>2. <<Parent(c), c>> \in Registered
  BY <1>1, EdgeTo
<1>3. Parent(c) \in Param
  BY <1>2, Edges
<1>4. c \in Below(Parent(c))
  BY <1>2, <1>3, BelowOfEdge, ParamIs
<1>5. Parent(c) \in Modes \cup {"root"}
  BY <1>2 DEF Registered, Modes
<1>6. QED
  BY <1>2, <1>3, <1>4, <1>5 DEF Offers, Modes

\* What an element was appended to.
LEMMA AppendedAlone ==
  ASSUME NEW S, NEW s \in Seq(S), NEW x \in S, NEW a, Append(s, x) = <<a>>
  PROVE  s = <<>>
<1>1. Len(Append(s, x)) = Len(s) + 1 /\ Len(<<a>>) = 1 /\ Len(s) \in Nat
  OBVIOUS
<1>2. Len(s) = 0
  BY <1>1
<1>3. QED
  BY <1>2

\* What a second element was appended to.
LEMMA AppendedToOne ==
  ASSUME NEW S, NEW s \in Seq(S), NEW x \in S, NEW a, NEW b, Append(s, x) = <<a, b>>
  PROVE  s = <<a>>
<1> DEFINE T == S \cup {a, b}
<1>1. s \in Seq(T) /\ x \in T /\ b \in T
  BY SeqMonotonic
<1>2. <<a>> \in Seq(T)
  OBVIOUS
<1>3. Append(s, x) = Append(<<a>>, b)
  BY AppendToOne
<1> HIDE DEF T
<1>4. QED
  BY <1>1, <1>2, <1>3, AppendInjective

\* The mode of the leaf c is left, whose TLV is the last one.
LEMMA LastIsTakenOut ==
  ASSUME DataTypes, KeptInv, cursor \in Leaf, checkpoint = Len(tlv_buff), tlv_buff # <<>>,
         NEW v \in [Leaf -> Text], \A l \in Leaf : l # cursor => v[l] = value[l]
  PROVE  LET f == Front(tlv_buff)
             c == Parent(cursor)
         IN /\ f \in Seq(Field) /\ Len(f) = Len(tlv_buff) - 1
            /\ OfTheServer(SubSeq(f, 1, Len(f))) = ServerTLVs(c, v)
            /\ Ends(c, f, Len(f))
<1> DEFINE f == Front(tlv_buff)
           x == tlv_buff[Len(tlv_buff)]
           c == Parent(cursor)
<1>1. tlv_buff \in Seq(Field) /\ Len(tlv_buff) \in Nat /\ Len(tlv_buff) > 0
  BY DEF DataTypes
<1>2. /\ f \in Seq(Field) /\ Len(f) = Len(tlv_buff) - 1 /\ x \in Field
      /\ Append(f, x) = tlv_buff /\ \A i \in 1..Len(f) : f[i] = tlv_buff[i]
      /\ SubSeq(f, 1, Len(f)) = f
  <2>1. f \in Seq(Field) /\ Len(f) = Len(tlv_buff) - 1
    BY <1>1 DEF Front
  <2>2. \A i \in 1..Len(f) : f[i] = tlv_buff[i]
    BY <1>1 DEF Front
  <2>3. x \in Field
    BY <1>1
  <2>4. Append(f, x) = tlv_buff
    BY <1>1, <2>1, <2>2, <2>3
  <2>5. SubSeq(f, 1, Len(f)) = f
    BY <2>1
  <2>6. QED
    BY <2>1, <2>2, <2>3, <2>4, <2>5
<1>3. SubSeq(tlv_buff, 1, Len(tlv_buff)) = tlv_buff
  BY <1>1
<1>4. OfTheServer(tlv_buff) = ServerTLVs(cursor, value)
  BY <1>3 DEF KeptInv
<1>5. cursor \in {"name", "addr"}
  BY DEF DataTypes, Modes, Leaf
<1> HIDE DEF f, x
<1>6. x.leaf = cursor
  BY <1>5 DEF KeptInv, Ends, x
<1>7. Append(OfTheServer(f), x) = ServerTLVs(cursor, value)
  <2>1. OfTheServer(Append(f, x)) = Append(OfTheServer(f), x)
    BY <1>2, <1>5, <1>6, OfTheServerAppend DEF ServerLeaf
  <2>2. QED
    BY <1>2, <1>4, <2>1
<1>8. OfTheServer(f) \in Seq(Field)
  BY <1>2, OfTheServerType
<1>9. c = IF cursor = "name" THEN "tcp-server" ELSE "name"
  <2>1. <<"tcp-server", "name">> \in Registered /\ <<"name", "addr">> \in Registered
    BY DEF Registered
  <2>2. QED
    BY <1>5, <2>1, ParentOf
<1>10. OfTheServer(f) = ServerTLVs(c, v)
  <2>1. CASE cursor = "name"
    <3>1. Append(OfTheServer(f), x) = <<TLV("name", value["name"])>>
      BY <1>7, <2>1 DEF ServerTLVs
    <3>2. OfTheServer(f) = <<>>
      BY <1>2, <1>8, <3>1, AppendedAlone
    <3>3. QED
      BY <1>9, <2>1, <3>2 DEF ServerTLVs
  <2>2. CASE cursor = "addr"
    <3>1. Append(OfTheServer(f), x) = <<TLV("name", value["name"]), TLV("addr", value["addr"])>>
      BY <1>7, <2>2 DEF ServerTLVs
    <3>3. OfTheServer(f) = <<TLV("name", value["name"])>>
      BY <1>2, <1>8, <3>1, AppendedToOne
    <3>4. v["name"] = value["name"]
      BY <2>2 DEF Leaf
    <3>5. QED
      BY <1>9, <2>2, <3>3, <3>4 DEF ServerTLVs
  <2>3. QED
    BY <1>5, <2>1, <2>2
<1>11. Ends(c, f, Len(f))
  <2>1. CASE cursor = "name"
    BY <1>9, <2>1 DEF Ends
  <2>2. CASE cursor = "addr"
    <3>1. Len(tlv_buff) > 1 /\ tlv_buff[Len(tlv_buff) - 1].leaf = "name"
      BY <2>2 DEF KeptInv, Ends
    <3>2. Len(f) \in 1..Len(f) /\ f[Len(f)].leaf = "name" /\ Len(f) > 0
      BY <1>1, <1>2, <3>1
    <3>3. QED
      BY <1>9, <2>2, <3>2 DEF Ends
  <2>3. QED
    BY <1>5, <2>1, <2>2
<1>12. QED
  BY <1>2, <1>10, <1>11 DEF f

-----------------------------------------------------------------------------
\* The prompt is built for the node the cursor is put at.
LEMMA PromptIsBuilt ==
  ASSUME DataTypes, NEW c \in Param, c # "do_hook", cursor' = c, ShowMode(c),
         \A i \in DOMAIN Way(c) : Way(c)[i] \in Leaf => value'[Way(c)[i]] = value[Way(c)[i]]
  PROVE  PromptInv'
<1>1. console_name'.mode = IF c = "root" THEN <<>> ELSE ShownPath(c)
  BY DEF ShowMode, ShownPath, DataTypes
<1>2. c = "root" => ShownPath(c) = <<>>
  <2> SUFFICES ASSUME c = "root" PROVE ShownPath(c) = <<>>
    OBVIOUS
  <2>1. Path(c) = <<>>
    BY PathIs DEF Way
  <2>2. QED
    BY <2>1 DEF ShownPath
<1>3. ShownPath(c)' = ShownPath(c)
  BY SameWay
<1>4. QED
  BY <1>1, <1>2, <1>3 DEF PromptInv

\* The device keeps its name.
LEMMA ConsoleStays ==
  ASSUME DataTypes, NEW c, ShowMode(c)
  PROVE  console_name' = [device |-> console_name'.device, mode |-> console_name'.mode]
BY DEF DataTypes, ShowMode

\* The buffer after a reset.
LEMMA EmptyBuffer ==
  <<>> \in Seq(Field) /\ Len(<<>>) = 0 /\ 0 \in 0..0 /\ SubSeq(<<>>, 1, 0) = <<>>
OBVIOUS

\* One value is cleared.
LEMMA ValueCleared ==
  ASSUME NEW v \in [Leaf -> Text], NEW c
  PROVE  LET w == [l \in Leaf |-> IF l = c THEN "" ELSE v[l]]
         IN w \in [Leaf -> Text] /\ \A l \in Leaf : l # c => w[l] = v[l]
<1>1. "" \in Text
  BY DEF Text
<1>2. QED
  BY <1>1

\* All values on the way are cleared.
LEMMA ValuesCleared ==
  ASSUME NEW v \in [Leaf -> Text], NEW s
  PROVE  [l \in Leaf |-> IF Contains(s, l) THEN "" ELSE v[l]] \in [Leaf -> Text]
<1>1. "" \in Text
  BY DEF Text
<1>2. QED
  BY <1>1

\* A buffer without its last TLV.
LEMMA FrontIs ==
  ASSUME NEW S, NEW s \in Seq(S), s # <<>>
  PROVE  /\ Front(s) \in Seq(S) /\ Len(Front(s)) = Len(s) - 1 /\ Len(s) \in Nat /\ Len(s) > 0
         /\ Len(s) - 1 \in 0..Len(Front(s))
BY DEF Front

\* "cd..", which may leave a leaf with its TLV.
ModeIsLeft ==
  /\ cursor \notin {"root", "do_hook"} /\ ~(cursor \in Leaf /\ tlv_buff = <<>>)
  /\ cursor' = Parent(cursor) /\ ShowMode(Parent(cursor))
  /\ \/ cursor' = "root" /\ reset_serialize_buffer
     \/ /\ cursor' # "root" /\ cursor \in Leaf
        /\ tlv_buff' = Front(tlv_buff) /\ checkpoint' = Len(tlv_buff) - 1
     \/ cursor' # "root" /\ cursor \notin Leaf /\ UNCHANGED <<tlv_buff, checkpoint>>
  /\ value' = [l \in Leaf |-> IF l = cursor THEN "" ELSE value[l]]
  /\ Over /\ UNCHANGED <<last, calls, failed, lost>>

\* A mode is left with the TLV and the value of its leaf; what is above keeps its own.
LEMMA ModeIsLeftStep ==
  ASSUME IInv, pc = "dispatch", ModeIsLeft
  PROVE  IInv'
<1> USE DEF IInv
<1> DEFINE c == Parent(cursor)
<1>1. cursor \in Modes \cup {"no"}
  BY DEF DataTypes, ModeIsLeft
<1>2. /\ c \in Modes \cup {"root"} /\ cursor \in Below(c) /\ c \in Param
      /\ Offers(c, cursor) /\ c # "do_hook"
  BY <1>1, ParentOfMode
<1>3. /\ cursor' = c /\ pc' = "built" /\ NoParse /\ UNCHANGED <<last, calls, failed, lost>>
      /\ ShowMode(c)
  BY DEF Over, ModeIsLeft
<1>4. \/ c = "root" /\ tlv_buff' = <<>> /\ checkpoint' = 0
      \/ /\ c # "root" /\ cursor \in Leaf /\ tlv_buff # <<>>
         /\ tlv_buff' = Front(tlv_buff) /\ checkpoint' = Len(tlv_buff) - 1
      \/ c # "root" /\ cursor \notin Leaf /\ UNCHANGED <<tlv_buff, checkpoint>>
  BY DEF reset_serialize_buffer, ModeIsLeft
<1>5. value' \in [Leaf -> Text] /\ \A l \in Leaf : l # cursor => value'[l] = value[l]
  <2>1. value \in [Leaf -> Text]
    BY DEF DataTypes
  <2>2. QED
    BY <2>1, ValueCleared DEF ModeIsLeft
<1> HIDE DEF c
<1>6. PromptInv'
  <2>1. \A i \in DOMAIN Way(c) : Way(c)[i] # cursor
    BY <1>2, NotOnTheWay
  <2>2. PICK d : d = c
    OBVIOUS
  <2>3. \A i \in DOMAIN Way(d) : Way(d)[i] \in Leaf => value'[Way(d)[i]] = value[Way(d)[i]]
    BY <1>5, <2>1, <2>2
  <2>4. d \in Param /\ d # "do_hook" /\ cursor' = d /\ ShowMode(d)
    BY <1>2, <1>3, <2>2
  <2>5. QED
    BY <2>3, <2>4, PromptIsBuilt
<1>7. /\ tlv_buff' \in Seq(Field) /\ checkpoint' \in 0..Len(tlv_buff')
      /\ ~lost => KeptInv'
  <2>1. CASE c = "root" /\ tlv_buff' = <<>> /\ checkpoint' = 0
    <3>1. <<>> \in Seq(Field) /\ Len(<<>>) = 0 /\ 0 \in 0..0 /\ SubSeq(<<>>, 1, 0) = <<>>
      BY EmptyBuffer
    <3>2. ServerTLVs("root", value') = <<>>
      BY DEF ServerTLVs
    <3>3. KeptInv'
      BY <1>3, <2>1, <3>1, <3>2, OfTheServerEmpty DEF KeptInv, Ends
    <3>4. QED
      BY <2>1, <3>1, <3>3
  <2>2. CASE /\ c # "root" /\ cursor \in Leaf /\ tlv_buff # <<>>
             /\ tlv_buff' = Front(tlv_buff) /\ checkpoint' = Len(tlv_buff) - 1
    <3>1. tlv_buff' \in Seq(Field) /\ Len(tlv_buff') = Len(tlv_buff) - 1
          /\ Len(tlv_buff) \in Nat /\ Len(tlv_buff) > 0
          /\ checkpoint' \in 0..Len(tlv_buff')
      <4>1. tlv_buff \in Seq(Field)
        BY DEF DataTypes
      <4>2. QED
        BY <2>2, <4>1, FrontIs
    <3>2. ASSUME ~lost PROVE KeptInv'
      <4>1. KeptInv
        BY <3>2 DEF ContextInv
      <4>2. cursor \in {"name", "addr"}
        BY <1>1, <2>2 DEF Modes, Leaf
      <4>3. checkpoint = Len(tlv_buff)
        BY <4>2 DEF ContextInv
      <4>4. PICK v : v = value'
        OBVIOUS
      <4>5. /\ OfTheServer(SubSeq(Front(tlv_buff), 1, Len(Front(tlv_buff)))) = ServerTLVs(c, v)
            /\ Ends(c, Front(tlv_buff), Len(Front(tlv_buff)))
        BY <1>5, <2>2, <4>1, <4>3, <4>4, LastIsTakenOut DEF c
      <4>6. QED
        BY <1>3, <2>2, <3>1, <4>4, <4>5 DEF KeptInv
    <3>3. QED
      BY <3>1, <3>2
  <2>3. CASE c # "root" /\ cursor \notin Leaf /\ UNCHANGED <<tlv_buff, checkpoint>>
    <3>1. ASSUME ~lost PROVE KeptInv'
      <4>1. KeptInv
        BY <3>1 DEF ContextInv
      <4>2. \A l \in Leaf : value'[l] = value[l]
        BY <1>5, <2>3
      <4>3. ServerTLVs(c, value') = ServerTLVs(c, value)
        BY <4>2 DEF ServerTLVs, Leaf
      <4>4. ServerTLVs(cursor, value) = ServerTLVs(c, value)
        <5>1. cursor \in Param
          BY <1>1, ConfigModesAre
        <5>2. QED
          BY <1>2, <2>3, <5>1, ServerTLVsOfCommand
      <4>5. Ends(c, tlv_buff, checkpoint)
        <5>1. c \in {"name", "no", "addr"} => cursor = "no" /\ c = "name"
          BY <1>1, <1>2, <2>3 DEF Offers, Registered, Modes, Leaf
        <5>2. QED
          BY <4>1, <5>1 DEF KeptInv, Ends
      <4>6. QED
        BY <1>3, <2>3, <4>1, <4>3, <4>4, <4>5 DEF KeptInv
    <3>2. QED
      BY <2>3, <3>1 DEF DataTypes
  <2>4. QED
    BY <1>4, <2>1, <2>2, <2>3
<1>8. DataTypes'
  <2>1. console_name' = [device |-> console_name'.device, mode |-> console_name'.mode]
    BY <1>3, ConsoleStays
  <2>2. "root" \in Param
    BY ParamIs DEF Nodes
  <2>3. QED
    BY <1>2, <1>3, <1>5, <1>7, <2>1, <2>2 DEF DataTypes, NoParse
<1>9. FrameTypes'
  BY <1>3, SameFrames
<1>10. ContextInv'
  <2>0. lost' = lost
    BY <1>3
  <2>1. ~lost' => KeptInv'
    BY <1>7, <2>0
  <2>2. CollectedInv'
    BY <1>3 DEF CollectedInv
  <2>3. QED
    BY <1>3, <2>1, <2>2 DEF ContextInv
<1>11. ReachInv' /\ ToldInv'
  BY <1>3 DEF ReachInv, ToldInv
<1>12. QED
  BY <1>6, <1>8, <1>9, <1>10, <1>11

\* "cd..".
LEMMA OneLevelUpStep ==
  ASSUME IInv, go_one_level_up_cmd_tree
  PROVE  IInv'
<1>1. pc = "dispatch"
  BY DEF go_one_level_up_cmd_tree, Dispatching
<1>2. CASE Nothing
  BY <1>1, <1>2, NothingStep
<1>3. CASE Fail("null")
  BY <1>1, <1>3, FailStep
<1>4. CASE Fail("rewind")
  BY <1>1, <1>4, FailStep
<1>5. CASE ~Nothing /\ ~Fail("null") /\ ~Fail("rewind")
  <2>1. /\ cursor \notin {"root", "do_hook"} /\ ~(cursor \in Leaf /\ tlv_buff = <<>>)
        /\ cursor' = Parent(cursor) /\ ShowMode(Parent(cursor))
        /\ value' = [l \in Leaf |-> IF l = cursor THEN "" ELSE value[l]]
        /\ Over /\ UNCHANGED <<last, calls, failed, lost>>
    BY <1>5 DEF go_one_level_up_cmd_tree
  <2>2. \/ cursor' = "root" /\ reset_serialize_buffer
        \/ /\ cursor' # "root" /\ cursor \in Leaf
           /\ tlv_buff' = Front(tlv_buff) /\ checkpoint' = Len(tlv_buff) - 1
        \/ cursor' # "root" /\ cursor \notin Leaf /\ UNCHANGED <<tlv_buff, checkpoint>>
    BY <1>5, <2>1 DEF go_one_level_up_cmd_tree
  <2>3. QED
    BY <1>1, <2>1, <2>2, ModeIsLeftStep DEF ModeIsLeft
<1>6. QED
  BY <1>2, <1>3, <1>4, <1>5

\* "cd".
AllModesAreLeft ==
  /\ cursor' = "root" /\ ShowMode("root") /\ reset_serialize_buffer
  /\ value' = [l \in Leaf |-> IF Contains(PathLeaves(cursor), l) THEN "" ELSE value[l]]
  /\ Over /\ UNCHANGED <<last, calls, failed, lost>>

\* All modes are left with all that was collected.
LEMMA AllModesAreLeftStep ==
  ASSUME IInv, pc = "dispatch", AllModesAreLeft
  PROVE  IInv'
<1> USE DEF IInv
<1>1. /\ tlv_buff' = <<>> /\ checkpoint' = 0 /\ pc' = "built" /\ NoParse
      /\ cursor' = "root" /\ ShowMode("root") /\ UNCHANGED <<last, calls, failed, lost>>
      /\ <<>> \in Seq(Field) /\ Len(<<>>) = 0 /\ 0 \in 0..0 /\ SubSeq(<<>>, 1, 0) = <<>>
  BY EmptyBuffer DEF reset_serialize_buffer, Over, AllModesAreLeft
<1>2. "root" \in Param /\ Way("root") = <<>>
  BY ParamIs DEF Nodes, Way
<1>3. PromptInv'
  <2>1. \A i \in DOMAIN Way("root") :
          Way("root")[i] \in Leaf => value'[Way("root")[i]] = value[Way("root")[i]]
    BY <1>2
  <2>2. QED
    BY <1>1, <1>2, <2>1, PromptIsBuilt
<1>4. DataTypes'
  <2>1. console_name' = [device |-> console_name'.device, mode |-> console_name'.mode]
    BY <1>1, ConsoleStays
  <2>2. value' \in [Leaf -> Text]
    <3>1. value \in [Leaf -> Text]
      BY DEF DataTypes
    <3>2. QED
      BY <3>1, ValuesCleared DEF AllModesAreLeft
  <2>3. QED
    BY <1>1, <1>2, <2>1, <2>2 DEF DataTypes, NoParse
<1>5. FrameTypes'
  BY <1>1, SameFrames
<1>6. ContextInv'
  <2>1. ServerTLVs("root", value') = <<>>
    BY DEF ServerTLVs
  <2>2. KeptInv'
    BY <1>1, <2>1, OfTheServerEmpty DEF KeptInv, Ends
  <2>3. QED
    BY <1>1, <2>2 DEF ContextInv, CollectedInv
<1>7. ReachInv' /\ ToldInv'
  BY <1>1 DEF ReachInv, ToldInv
<1>8. QED
  BY <1>3, <1>4, <1>5, <1>6, <1>7

\* "cd", wherever the cursor is.
LEMMA TopStep ==
  ASSUME IInv, goto_top_of_cmd_tree
  PROVE  IInv'
<1>1. pc = "dispatch"
  BY DEF goto_top_of_cmd_tree, Dispatching
<1>2. CASE Nothing
  BY <1>1, <1>2, NothingStep
<1>3. CASE Fail("null")
  BY <1>1, <1>3, FailStep
<1>4. CASE Fail("overrun")
  BY <1>1, <1>4, FailStep
<1>5. CASE ~Nothing /\ ~Fail("null") /\ ~Fail("overrun")
  <2>1. /\ cursor' = "root" /\ ShowMode("root") /\ reset_serialize_buffer
        /\ value' = [l \in Leaf |-> IF Contains(PathLeaves(cursor), l) THEN "" ELSE value[l]]
        /\ Over /\ UNCHANGED <<last, calls, failed, lost>>
    BY <1>5 DEF goto_top_of_cmd_tree
  <2>2. QED
    BY <1>1, <2>1, AllModesAreLeftStep DEF AllModesAreLeft
<1>6. QED
  BY <1>2, <1>3, <1>4, <1>5

\* A line is read.
LEMMA DispatchStep ==
  ASSUME IInv, Dispatch
  PROVE  IInv'
<1>1. CASE NothingToParse
  BY <1>1, NothingToParseStep
<1>2. CASE DoCommand
  BY <1>2, DoCommandStep
<1>3. CASE RepeatLine
  <2>1. last \in Line
    BY DEF IInv, DataTypes
  <2>2. QED
    BY <1>3, <2>1, EnterStep DEF RepeatLine, Dispatching
<1>4. CASE Load
  BY <1>4, LoadStep
<1>5. CASE cls
  BY <1>5, NothingStep DEF cls, Dispatching
<1>6. CASE Match
  BY <1>6, MatchStep
<1>7. CASE go_one_level_up_cmd_tree
  BY <1>7, OneLevelUpStep
<1>8. CASE goto_top_of_cmd_tree
  BY <1>8, TopStep
<1>9. QED
  BY <1>1, <1>2, <1>3, <1>4, <1>5, <1>6, <1>7, <1>8 DEF Dispatch

\* The token is matched with q.
Matched1(q) ==
  /\ pc = "descend" /\ todo # <<>> /\ q # None /\ q \in find_matching_param(param, Head(todo))
  /\ parent' = param /\ param' = q /\ todo' = Tail(todo)
  /\ IF q \in Leaf
     THEN /\ value' = [value EXCEPT ![q] = Head(todo)]
          /\ tlv_buff' = Append(tlv_buff, TLV(q, Head(todo)))
     ELSE UNCHANGED <<value, tlv_buff>>
  /\ enable_or_disable' = IF q \in NoCmd THEN "CONFIG_DISABLE" ELSE enable_or_disable
  /\ UNCHANGED <<pc, cursor, checkpoint, console_name, lost, last, calls, failed>>

-----------------------------------------------------------------------------
\* It stands below what was matched before, which is a node.
LEMMA MatchedBelow ==
  ASSUME DataTypes, ReachInv, NEW q, Matched1(q)
  PROVE  /\ param \in Param /\ param \notin Capability /\ Matching = param
         /\ q \in Options(param)
         /\ \/ /\ q \in Param /\ q \notin Capability /\ Offers(param, q)
               /\ q \in Below(cursor) /\ Matching' = q
            \/ q \in Capability /\ q \notin Param /\ Matching' = param
<1> USE DEF Matched1
<1>0. \A p \in Param : p \notin Capability
  BY ParamIs DEF Nodes, ShowBranch, ConfigBranch, ServerBranch, Commands, Capability
<1>1. q \in Options(param)
  BY MatchIs
<1>2. param \notin Capability
  <2> SUFFICES ASSUME param \in Capability PROVE FALSE
    OBVIOUS
  <2>1. param \notin {"no", "do_hook"} /\ \A e \in Registered : e[1] # param
    BY DEF Capability, Registered
  <2>2. Children(param) = {}
    BY <2>1 DEF Children
  <2>3. QED
    BY <1>1, <2>1, <2>2 DEF Options
<1>3. param \in Param /\ Matching = param /\ param \in {cursor} \cup Below(cursor)
  BY <1>2 DEF DataTypes, ReachInv, Matching
<1>4. CASE q \in Param /\ Offers(param, q)
  <2>1. q \in Below(cursor)
    BY <1>3, <1>4, OffersBelow, ConfigModesAre DEF DataTypes
  <2>2. Matching' = q
    BY <1>0, <1>4 DEF Matching
  <2>3. QED
    BY <1>0, <1>1, <1>2, <1>3, <1>4, <2>1, <2>2
<1>5. CASE q \in Capability
  BY <1>0, <1>1, <1>2, <1>3, <1>5 DEF Matching
<1>6. QED
  BY <1>1, <1>3, <1>4, <1>5, OptionsAre

\* The values on the way to the node that the prompt shows stay.
LEMMA MatchedPrompt ==
  ASSUME DataTypes, PromptInv, NEW q, Matched1(q), q \in Param => q \in Below(cursor)
  PROVE  PromptInv'
<1> USE DEF Matched1
<1>1. \A h \in ConfigModes : Borrowed(h)' = Borrowed(h)
  BY DEF Borrowed
<1>2. CASE q \notin Leaf
  BY <1>1, <1>2, SamePrompt
<1>3. CASE q \in Leaf
  <2>1. q \in Below(cursor) /\ \A l \in Leaf : l # q => value'[l] = value[l]
    BY <1>3, ParamIs DEF Leaf, Nodes, ShowBranch, ConfigBranch, ServerBranch, DataTypes
  <2>2. CASE cursor # "do_hook"
    <3>1. PICK c \in Param : c = cursor /\ c \in Modes \cup {"root", "no"}
      BY <2>2, ConfigModesAre DEF DataTypes
    <3>2. \A i \in DOMAIN Way(c) : Way(c)[i] # q
      BY <2>1, <3>1, NotOnTheWay
    <3>3. ShownPath(c)' = ShownPath(c)
      BY <2>1, <3>2, SameWay
    <3>4. QED
      BY <2>2, <3>1, <3>3 DEF PromptInv
  <2>3. CASE cursor = "do_hook"
    <3>1. q \in ShowBranch
      BY <2>1, <2>3 DEF Below
    <3>2. PICK h \in ConfigModes : Borrowed(h) /\ console_name.mode = ShownPath(h)
      BY <2>3 DEF PromptInv
    <3>3. \A i \in DOMAIN Way(h) : Way(h)[i] # q
      BY <3>1, NotOnTheWayBack
    <3>4. h \in Param
      BY ParamIs DEF ConfigModes, Nodes, ConfigBranch, ServerBranch
    <3>5. ShownPath(h)' = ShownPath(h)
      BY <2>1, <3>3, <3>4, SameWay
    <3>6. QED
      BY <1>1, <2>3, <3>2, <3>5 DEF PromptInv
  <2>4. QED
    BY <2>2, <2>3
<1>4. QED
  BY <1>2, <1>3

\* A value is collected behind those of the nodes above.
LEMMA ValueCollected ==
  ASSUME DataTypes, KeptInv, NEW p \in Param, NEW q \in Leaf, NEW t \in Text, Offers(p, q),
         q \in Below(cursor),
         OfTheServer(tlv_buff) = ServerTLVs(p, value), Ends(p, tlv_buff, Len(tlv_buff))
  PROVE  LET s == Append(tlv_buff, TLV(q, t))
             v == [value EXCEPT ![q] = t]
         IN /\ s \in Seq(Field) /\ Len(s) = Len(tlv_buff) + 1 /\ v \in [Leaf -> Text]
            /\ OfTheServer(SubSeq(s, 1, checkpoint)) = ServerTLVs(cursor, v)
            /\ Ends(cursor, s, checkpoint)
            /\ OfTheServer(s) = ServerTLVs(q, v)
            /\ Ends(q, s, Len(s))
<1> DEFINE x == TLV(q, t)
           s == Append(tlv_buff, x)
           v == [value EXCEPT ![q] = t]
<1>1. x \in Field /\ x.leaf = q
  BY TLVIsField DEF TLV
<1>2. /\ tlv_buff \in Seq(Field) /\ checkpoint \in 0..Len(tlv_buff) /\ value \in [Leaf -> Text]
      /\ Len(tlv_buff) \in Nat
  BY DEF DataTypes
<1> HIDE DEF x
<1>3. /\ s \in Seq(Field) /\ Len(s) = Len(tlv_buff) + 1
      /\ SubSeq(s, 1, checkpoint) = SubSeq(tlv_buff, 1, checkpoint)
      /\ \A i \in 1..Len(tlv_buff) : s[i] = tlv_buff[i]
      /\ s[Len(tlv_buff) + 1] = x
  BY <1>1, <1>2, FrontOfAppend
<1>4. v \in [Leaf -> Text]
  BY <1>2
<1>5. OfTheServer(s) = IF q \in ServerLeaf THEN Append(OfTheServer(tlv_buff), x)
                       ELSE OfTheServer(tlv_buff)
  BY <1>1, <1>2, OfTheServerAppend
<1>6. ServerTLVs(q, v) = IF q \in ServerLeaf THEN Append(ServerTLVs(p, value), x)
                         ELSE ServerTLVs(p, value)
  BY <1>2, ServerTLVsOfLeaf DEF x
<1>7. ServerTLVs(cursor, v) = ServerTLVs(cursor, value)
  <2>1. cursor \in Param
    BY ConfigModesAre DEF DataTypes
  <2>2. QED
    BY <1>2, <2>1, ServerTLVsAbove
<1> HIDE DEF s, v
<1>8. Ends(cursor, s, checkpoint)
  BY <1>2, <1>3 DEF KeptInv, Ends
<1>9. Ends(q, s, Len(s))
  <2>1. q # "no" /\ (q = "addr" => p \in {"name", "no"})
    BY DEF Leaf, Offers, Registered
  <2>2. CASE q = "name"
    BY <1>1, <1>2, <1>3, <2>2 DEF Ends
  <2>3. CASE q = "addr"
    <3>1. Len(tlv_buff) > 0 /\ tlv_buff[Len(tlv_buff)].leaf = "name"
      BY <2>1, <2>3 DEF Ends
    <3>2. s[Len(s)].leaf = "addr" /\ s[Len(s) - 1] = tlv_buff[Len(tlv_buff)] /\ Len(s) > 1
      BY <1>1, <1>2, <1>3, <2>3, <3>1
    <3>3. QED
      BY <2>3, <3>1, <3>2 DEF Ends
  <2>4. QED
    BY <2>1, <2>2, <2>3 DEF Ends
<1>10. QED
  BY <1>3, <1>4, <1>5, <1>6, <1>7, <1>8, <1>9 DEF s, v, x, KeptInv

\* What a command has is what the node above it has.
LEMMA NothingCollected ==
  ASSUME NEW p \in Param, NEW q \in Param \ Leaf, Offers(p, q), NEW s,
         Ends(p, s, Len(s))
  PROVE  Ends(q, s, Len(s))
<1>1. q # "name" /\ q # "addr" /\ (q = "no" => p = "name")
  BY DEF Leaf, Offers, Registered
<1>2. QED
  BY <1>1 DEF Ends

\* What was said in the buffer stays said while something is appended.
LEMMA StillSays ==
  ASSUME tlv_buff \in Seq(Field), NEW x \in Field, tlv_buff' = Append(tlv_buff, x)
  PROVE  /\ ValueSaysNo => ValueSaysNo'
         /\ SaysNo(x.val) => ValueSaysNo'
<1>1. /\ Len(tlv_buff') = Len(tlv_buff) + 1 /\ Len(tlv_buff) \in Nat
      /\ \A i \in 1..Len(tlv_buff) : tlv_buff'[i] = tlv_buff[i]
      /\ tlv_buff'[Len(tlv_buff) + 1] = x
  BY AppendProperties
<1>2. ASSUME ValueSaysNo PROVE ValueSaysNo'
  <2>1. PICK i \in 1..Len(tlv_buff) : SaysNo(tlv_buff[i].val)
    BY <1>2 DEF ValueSaysNo
  <2>2. i \in 1..Len(tlv_buff') /\ SaysNo(tlv_buff'[i].val)
    BY <1>1, <2>1
  <2>3. QED
    BY <2>2 DEF ValueSaysNo
<1>3. ASSUME SaysNo(x.val) PROVE ValueSaysNo'
  <2>1. Len(tlv_buff) + 1 \in 1..Len(tlv_buff')
    BY <1>1
  <2>2. QED
    BY <1>1, <1>3, <2>1 DEF ValueSaysNo
<1>4. QED
  BY <1>2, <1>3

\* One token more of the line is matched.
LEMMA TokensGoOn ==
  ASSUME IInv, NEW q, Matched1(q)
  PROVE  ToldInv'
<1> USE DEF IInv, Matched1
<1>1. TheLine \in Seq(STRING) /\ TheLine' = TheLine /\ Len(TheLine) \in Nat
  <2>1. calls # <<>> /\ calls[1].lines # <<>>
    BY DEF FrameTypes
  <2>2. TheLine \in Seq(STRING)
    BY <2>1, TheLineIs
  <2>3. QED
    BY <2>2 DEF TheLine, Innermost
<1>2. PICK k \in 0..Len(TheLine) : TokensMatched(k)
  BY DEF ToldInv
<1>3. /\ k + 1 \in 0..Len(TheLine) /\ Head(todo) = TheLine[k + 1] /\ k \in Nat
      /\ Tail(todo) = SubSeq(TheLine, (k + 1) + 1, Len(TheLine)) /\ Head(todo) \in STRING
  <2>1. todo = SubSeq(TheLine, k + 1, Len(TheLine)) /\ todo # <<>>
    BY <1>2 DEF TokensMatched
  <2>2. k < Len(TheLine)
    BY <1>1, <2>1
  <2>3. QED
    BY <1>1, <2>1, <2>2
<1> DEFINE t == Head(todo)
<1>4. /\ param \in Param /\ Matching = param /\ q \in Options(param)
      /\ \/ q \in Param /\ q \notin Capability /\ Offers(param, q) /\ Matching' = q
         \/ q \in Capability /\ q \notin Param /\ Matching' = param
  BY MatchedBelow
<1>5. q \in Leaf \/ Name(q) = t \/ <<t, Name(q)>> \in Abbreviates
  BY MatchIs
<1>6. /\ parent' = param /\ todo' = Tail(todo)
      /\ enable_or_disable' = IF q \in NoCmd THEN "CONFIG_DISABLE" ELSE enable_or_disable
      /\ UNCHANGED <<pc, cursor>> /\ pc = "descend"
      /\ q \in Leaf => tlv_buff' = Append(tlv_buff, TLV(q, t))
      /\ q \notin Leaf => tlv_buff' = tlv_buff
  OBVIOUS
<1>7. tlv_buff \in Seq(Field) /\ (q \in Leaf => TLV(q, t) \in Field /\ TLV(q, t).val = t)
  BY <1>3, TLVIsField DEF DataTypes, TLV, Text
<1>8. ValueSaysNo => ValueSaysNo'
  BY <1>6, <1>7, StillSays DEF ValueSaysNo
<1>9. q \in Leaf /\ SaysNo(t) => ValueSaysNo'
  BY <1>6, <1>7, StillSays
<1>10. q \in NoCmd => SaysNo(t)
  BY <1>5, TheWordNo DEF NoCmd, Leaf
<1>11. SaysNo(t) /\ q \notin Leaf => q \in NoCmd \cup {"console-name"}
  <2> SUFFICES ASSUME SaysNo(t), q \notin Leaf PROVE q \in NoCmd \cup {"console-name"}
    OBVIOUS
  <2>1. q \in {"no", "name", "console-name"}
    BY <1>4, <1>5, SaysNoIs
  <2>2. QED
    BY <2>1 DEF Leaf, NoCmd
<1>12. Matching \in {"console-name", "cons-name"} => Matching' \in {"console-name", "cons-name"}
  BY <1>4 DEF Offers, Registered
<1> HIDE DEF t
<1>13. enable_or_disable' = "CONFIG_DISABLE" => \E i \in 1 .. k + 1 : SaysNo(TheLine[i])
  <2>1. CASE q \in NoCmd
    <3>1. k + 1 \in 1 .. k + 1 /\ SaysNo(TheLine[k + 1])
      BY <1>3, <1>10, <2>1 DEF t
    <3>2. QED
      BY <3>1
  <2>2. CASE q \notin NoCmd
    <3>1. \A i \in 1..k : i \in 1 .. k + 1
      BY <1>3
    <3>2. QED
      BY <1>2, <1>6, <2>2, <3>1 DEF TokensMatched
  <2>3. QED
    BY <2>1, <2>2
<1>14. ASSUME cursor # "do_hook", NEW i \in 1 .. k + 1, SaysNo(TheLine[i])
       PROVE  \/ enable_or_disable' = "CONFIG_DISABLE" \/ ValueSaysNo'
              \/ Matching' \in {"console-name", "cons-name"}
  <2>1. CASE i \in 1..k
    <3>1. \/ enable_or_disable = "CONFIG_DISABLE" \/ ValueSaysNo
          \/ Matching \in {"console-name", "cons-name"}
      BY <1>2, <1>14, <2>1 DEF TokensMatched
    <3>2. QED
      BY <1>6, <1>8, <1>12, <3>1
  <2>2. CASE i = k + 1
    <3>1. SaysNo(t)
      BY <1>3, <1>14, <2>2 DEF t
    <3>2. CASE q \in Leaf
      BY <1>9, <3>1, <3>2
    <3>3. CASE q \in NoCmd
      BY <1>6, <3>3
    <3>4. CASE q = "console-name"
      BY <1>4, <3>4 DEF Capability
    <3>5. QED
      BY <1>11, <3>1, <3>2, <3>3, <3>4
  <2>3. QED
    BY <1>3, <2>1, <2>2
<1>15. TokensMatched(k + 1)'
  BY <1>1, <1>3, <1>6, <1>13, <1>14 DEF TokensMatched
<1>16. enable_or_disable' \in {"MODE_UNKNOWN", "CONFIG_DISABLE"}
  BY <1>6 DEF ToldInv
<1>17. QED
  BY <1>1, <1>3, <1>6, <1>15, <1>16 DEF ToldInv

\* A token of the line.
LEMMA DescendStep ==
  ASSUME IInv, Descend
  PROVE  IInv'
<1> USE DEF IInv
<1>1. CASE Nothing
  BY <1>1, NothingStep DEF Descend
<1>2. CASE ~Nothing
  <2>1. PICK q : Matched1(q)
    BY <1>2 DEF Descend, Matched1
  <2>2. /\ param \in Param /\ param \notin Capability /\ Matching = param
        /\ q \in Options(param)
        /\ \/ /\ q \in Param /\ q \notin Capability /\ Offers(param, q)
              /\ q \in Below(cursor) /\ Matching' = q
           \/ q \in Capability /\ q \notin Param /\ Matching' = param
    BY <2>1, MatchedBelow
  <2>3. PromptInv'
    BY <2>1, <2>2, MatchedPrompt
  <2>4. ToldInv'
    BY <2>1, TokensGoOn
  <2>5. /\ parent' = param /\ param' = q /\ todo' = Tail(todo) /\ pc = "descend" /\ todo # <<>>
        /\ UNCHANGED <<pc, cursor, checkpoint, console_name, lost, last, calls, failed>>
        /\ enable_or_disable' = IF q \in NoCmd THEN "CONFIG_DISABLE" ELSE enable_or_disable
        /\ q \in Leaf => /\ value' = [value EXCEPT ![q] = Head(todo)]
                         /\ tlv_buff' = Append(tlv_buff, TLV(q, Head(todo)))
        /\ q \notin Leaf => UNCHANGED <<value, tlv_buff>>
    BY <2>1 DEF Matched1
  <2>6. Head(todo) \in Text /\ Tail(todo) \in Seq(STRING)
    <3>1. todo \in Seq(STRING)
      BY DEF DataTypes
    <3>2. Head(todo) \in STRING /\ Tail(todo) \in Seq(STRING)
      BY <2>5, <3>1, HeadTailProperties
    <3>3. QED
      BY <3>2 DEF Text
  <2>7. ReachInv'
    BY <2>2, <2>5 DEF ReachInv
  <2>8. FrameTypes'
    BY <2>5 DEF FrameTypes
  <2>9. CASE q \in Leaf
    <3> DEFINE x == TLV(q, Head(todo))
    <3>1. q \in Param /\ Offers(param, q) /\ q \in Below(cursor) /\ Matching' = q
      BY <2>2, <2>9 DEF Leaf, Capability
    <3>2. x \in Field
      BY <2>6, <2>9, TLVIsField
    <3>3. DataTypes'
      <4>1. tlv_buff' \in Seq(Field) /\ checkpoint' \in 0..Len(tlv_buff')
        <5>1. tlv_buff \in Seq(Field) /\ checkpoint \in 0..Len(tlv_buff)
          BY DEF DataTypes
        <5>2. tlv_buff' = Append(tlv_buff, x) /\ checkpoint' = checkpoint
          BY <2>5, <2>9
        <5> HIDE DEF x
        <5>3. QED
          BY <3>2, <5>1, <5>2
      <4>2. value' \in [Leaf -> Text]
        BY <2>5, <2>6, <2>9 DEF DataTypes
      <4>3. q \notin NoCmd
        BY <2>9 DEF Leaf, NoCmd
      <4>4. QED
        BY <2>2, <2>5, <2>6, <3>1, <4>1, <4>2, <4>3 DEF DataTypes
    <3>4. ASSUME ~lost PROVE KeptInv' /\ CollectedInv'
      <4>1. /\ KeptInv /\ OfTheServer(tlv_buff) = ServerTLVs(param, value)
            /\ Ends(param, tlv_buff, Len(tlv_buff))
        BY <2>2, <2>5, <3>4 DEF ContextInv, CollectedInv
      <4>2. PICK t \in Text : t = Head(todo)
        BY <2>6
      <4>3. LET s == Append(tlv_buff, TLV(q, t))
                v == [value EXCEPT ![q] = t]
            IN /\ OfTheServer(SubSeq(s, 1, checkpoint)) = ServerTLVs(cursor, v)
               /\ Ends(cursor, s, checkpoint)
               /\ OfTheServer(s) = ServerTLVs(q, v)
               /\ Ends(q, s, Len(s))
        BY <2>2, <2>9, <3>1, <4>1, ValueCollected
      <4>4. tlv_buff' = Append(tlv_buff, TLV(q, t)) /\ value' = [value EXCEPT ![q] = t]
        BY <2>5, <2>9, <4>2
      <4>5. KeptInv'
        BY <2>5, <4>3, <4>4 DEF KeptInv
      <4>6. CollectedInv'
        BY <2>5, <3>1, <4>3, <4>4 DEF CollectedInv
      <4>7. QED
        BY <4>5, <4>6
    <3>5. ContextInv'
      BY <2>5, <3>4 DEF ContextInv
    <3>6. QED
      BY <2>3, <2>4, <2>7, <2>8, <3>3, <3>5
  <2>10. CASE q \notin Leaf
    <3>1. DataTypes'
      BY <2>2, <2>5, <2>6, <2>10 DEF DataTypes
    <3>2. ASSUME ~lost PROVE KeptInv' /\ CollectedInv'
      <4>1. /\ KeptInv /\ OfTheServer(tlv_buff) = ServerTLVs(param, value)
            /\ Ends(param, tlv_buff, Len(tlv_buff))
        BY <2>2, <2>5, <3>2 DEF ContextInv, CollectedInv
      <4>2. /\ ServerTLVs(Matching', value) = ServerTLVs(param, value)
            /\ Ends(Matching', tlv_buff, Len(tlv_buff))
        <5>1. CASE q \in Param /\ Offers(param, q) /\ Matching' = q
          <6>1. Ends(q, tlv_buff, Len(tlv_buff))
            BY <2>2, <2>10, <4>1, <5>1, NothingCollected
          <6>2. ServerTLVs(q, value) = ServerTLVs(param, value)
            BY <2>2, <2>10, <5>1, ServerTLVsOfCommand
          <6>3. QED
            BY <5>1, <6>1, <6>2
        <5>2. CASE Matching' = param
          BY <4>1, <5>2
        <5>3. QED
          BY <2>2, <5>1, <5>2
      <4>3. KeptInv'
        BY <2>5, <2>10, <4>1 DEF KeptInv
      <4>4. CollectedInv'
        BY <2>5, <2>10, <4>1, <4>2 DEF CollectedInv
      <4>5. QED
        BY <4>3, <4>4
    <3>3. ContextInv'
      BY <2>5, <3>2 DEF ContextInv
    <3>4. QED
      BY <2>3, <2>4, <2>7, <2>8, <3>1, <3>3
  <2>11. QED
    BY <2>9, <2>10
<1>3. QED
  BY <1>1, <1>2

\* All that was typed is matched: what the line has said is known.
LEMMA AllMatched ==
  ASSUME IInv, Matched
  PROVE  /\ enable_or_disable \in {"MODE_UNKNOWN", "CONFIG_DISABLE"}
         /\ enable_or_disable = "CONFIG_DISABLE" => \E i \in 1..Len(TheLine) : SaysNo(TheLine[i])
         /\ cursor # "do_hook" /\ (\E i \in 1..Len(TheLine) : SaysNo(TheLine[i])) /\ ~ValueSaysNo
              => \/ enable_or_disable = "CONFIG_DISABLE"
                 \/ Matching \in {"console-name", "cons-name"}
<1> USE DEF IInv, Matched
<1>1. TheLine \in Seq(STRING) /\ Len(TheLine) \in Nat
  <2>1. calls # <<>> /\ calls[1].lines # <<>>
    BY DEF FrameTypes
  <2>2. QED
    BY <2>1, TheLineIs
<1>2. PICK k \in 0..Len(TheLine) : TokensMatched(k)
  BY DEF ToldInv
<1>3. k = Len(TheLine)
  <2>1. Len(SubSeq(TheLine, k + 1, Len(TheLine))) = Len(TheLine) - k
    BY <1>1, SubSeqProperties
  <2>2. SubSeq(TheLine, k + 1, Len(TheLine)) = <<>>
    BY <1>2 DEF TokensMatched
  <2>3. Len(SubSeq(TheLine, k + 1, Len(TheLine))) = 0
    <3>1. Len(<<>>) = 0
      OBVIOUS
    <3>2. QED
      BY <2>2, <3>1, Zenon
  <2>4. QED
    BY <1>1, <2>1, <2>3
<1>4. QED
  BY <1>2, <1>3 DEF TokensMatched, ToldInv

-----------------------------------------------------------------------------
\* A command of the application is told what its line has said.
LEMMA TellsWhatWasSaid ==
  ASSUME IInv, Matched, NEW p \in Application, Matching = p, ~ValueSaysNo
  PROVE  Mode(p) = IF Branch(p) # "config" THEN "OPERATIONAL"
                   ELSE IF \E i \in 1..Len(TheLine) : SaysNo(TheLine[i])
                   THEN "CONFIG_DISABLE" ELSE "CONFIG_ENABLE"
<1>1. p \in Param /\ Hook(p) = Branch(p)
  <2>1. p \in Param
    BY ParamIs DEF Application, Nodes, ShowBranch, ConfigBranch, ServerBranch
  <2>2. QED
    BY <2>1, HookIs
<1>2. CASE Branch(p) # "config"
  BY <1>1, <1>2 DEF Mode
<1>3. CASE Branch(p) = "config"
  <2>1. cursor # "do_hook"
    <3> SUFFICES ASSUME cursor = "do_hook" PROVE FALSE
      OBVIOUS
    <3>1. p \in {"do_hook"} \cup ShowBranch
      BY DEF IInv, ReachInv, Matched, Below
    <3>2. QED
      BY <1>3, <3>1 DEF Branch, ShowBranch, None
  <2>2. p \notin {"console-name", "cons-name"}
    BY DEF Application
  <2>3. enable_or_disable = "CONFIG_DISABLE"
          <=> \E i \in 1..Len(TheLine) : SaysNo(TheLine[i])
    BY <2>1, <2>2, AllMatched
  <2>4. QED
    BY <1>1, <1>3, <2>3 DEF Mode
<1>4. QED
  BY <1>2, <1>3

\* A command code is put into the buffer.
LEMMA CodeAppended ==
  ASSUME tlv_buff \in Seq(Field), NEW p \in Param
  PROVE  LET s == Append(tlv_buff, Code(p))
         IN /\ s \in Seq(Field) /\ Len(s) = Len(tlv_buff) + 1 /\ s # <<>>
            /\ s[Len(s)] = Code(p) /\ Len(tlv_buff) \in Nat
            /\ OfTheServer(s) = OfTheServer(tlv_buff)
            /\ \A n \in 0..Len(tlv_buff) : SubSeq(s, 1, n) = SubSeq(tlv_buff, 1, n)
            /\ SubSeq(tlv_buff, 1, Len(tlv_buff)) = tlv_buff
            /\ \A i \in 1..Len(tlv_buff) : s[i] = tlv_buff[i]
<1> DEFINE x == Code(p)
           s == Append(tlv_buff, x)
<1>1. x \in Field /\ x.leaf = "CMDCODE"
  BY TLVIsField DEF Code, TLV, Text
<1> HIDE DEF x
<1>2. OfTheServer(s) = OfTheServer(tlv_buff)
  BY <1>1, OfTheServerAppend DEF ServerLeaf
<1>3. /\ s \in Seq(Field) /\ Len(s) = Len(tlv_buff) + 1 /\ s # <<>>
      /\ s[Len(s)] = x /\ Len(tlv_buff) \in Nat
      /\ \A i \in 1..Len(tlv_buff) : s[i] = tlv_buff[i]
  BY <1>1, AppendProperties
<1>4. /\ \A n \in 0..Len(tlv_buff) : SubSeq(s, 1, n) = SubSeq(tlv_buff, 1, n)
      /\ SubSeq(tlv_buff, 1, Len(tlv_buff)) = tlv_buff
  BY <1>1, FrontOfAppend
<1> HIDE DEF s
<1>5. QED
  BY <1>2, <1>3, <1>4 DEF s, x

-----------------------------------------------------------------------------
\* The node that "/" or "?" was asked of.
LEMMA CapabilityOf ==
  ASSUME IInv, Matched, param \in Capability
  PROVE  /\ parent \in Modes \cup {"root", "do_hook", "no"} /\ Matching = parent
         /\ param = "/" => parent \in Modes \cup {"root"}
         /\ parent \in {cursor} \cup Below(cursor) /\ parent \in Param
<1>1. param \in Options(parent) /\ parent \in Param /\ Matching = parent
  BY DEF IInv, ReachInv, Matched, Matching
<1>2. parent \in {cursor} \cup Below(cursor)
  BY <1>1 DEF IInv, ReachInv, Matched
<1>3. \A p \in Param : p \notin Capability
  BY ParamIs DEF Nodes, ShowBranch, ConfigBranch, ServerBranch, Commands, Capability
<1>4. QED
  BY <1>1, <1>2, <1>3, OptionsAre

\* "?": the user is in the mode of the node.
LEMMA SuboptionsStep ==
  ASSUME IInv, Suboptions
  PROVE  IInv'
<1>1. CASE Fail("null")
  BY <1>1, FailStep DEF Suboptions, Matched
<1>2. CASE parent # "do_hook"
  <2>1. /\ checkpoint' = Len(tlv_buff) /\ cursor' = parent /\ pc = "descend" /\ Matched
        /\ param \in Capability
        /\ IF parent = "root" THEN UNCHANGED console_name ELSE ShowMode(parent)
        /\ pc' = "built" /\ NoParse
        /\ UNCHANGED <<tlv_buff, value, lost, last, calls, failed>>
    BY <1>2 DEF Suboptions, Over, Matched, Capability
  <2>2. /\ parent \in Modes \cup {"root", "no"} /\ Matching = parent
        /\ parent \in {cursor} \cup Below(cursor) /\ parent \in Param
    BY <1>2, <2>1, CapabilityOf
  <2>3. PromptInv'
    <3>1. CASE parent = "root"
      <4>1. cursor = "root"
        BY <2>2, <3>1 DEF Below, ShowBranch, ConfigBranch, ServerBranch
      <4>2. QED
        BY <2>1, <3>1, <4>1, SamePrompt DEF IInv, Borrowed
    <3>2. CASE parent # "root"
      <4>1. PICK c \in Param : c = parent
        BY <2>2
      <4>2. cursor' = c /\ ShowMode(c) /\ c # "do_hook" /\ UNCHANGED value /\ DataTypes
        BY <1>2, <2>1, <3>2, <4>1 DEF IInv
      <4>3. QED
        BY <4>2, PromptIsBuilt
    <3>3. QED
      BY <3>1, <3>2
  <2>4. DataTypes'
    <3>1. console_name' = [device |-> console_name'.device, mode |-> console_name'.mode]
      <4>1. CASE UNCHANGED console_name
        BY <4>1 DEF IInv, DataTypes
      <4>2. CASE ShowMode(parent)
        BY <4>2, ConsoleStays DEF IInv
      <4>3. QED
        BY <2>1, <4>1, <4>2
    <3>2. "root" \in Param /\ Len(tlv_buff) \in 0..Len(tlv_buff)
      BY ParamIs DEF Nodes, IInv, DataTypes
    <3>3. QED
      BY <2>1, <2>2, <3>1, <3>2 DEF IInv, DataTypes, NoParse
  <2>5. FrameTypes'
    BY <2>1, SameFrames DEF IInv
  <2>6. ContextInv'
    <3>1. ASSUME ~lost PROVE KeptInv'
      <4>1. /\ OfTheServer(tlv_buff) = ServerTLVs(parent, value)
            /\ Ends(parent, tlv_buff, Len(tlv_buff))
        BY <2>1, <2>2, <3>1 DEF IInv, ContextInv, CollectedInv
      <4>2. SubSeq(tlv_buff, 1, Len(tlv_buff)) = tlv_buff
        BY FrontOfAppend DEF IInv, DataTypes
      <4>3. QED
        BY <2>1, <4>1, <4>2 DEF KeptInv
    <3>2. QED
      BY <2>1, <3>1 DEF ContextInv, CollectedInv
  <2>7. ReachInv' /\ ToldInv'
    BY <2>1 DEF ReachInv, ToldInv
  <2>8. QED
    BY <2>3, <2>4, <2>5, <2>6, <2>7 DEF IInv
<1>3. QED
  BY <1>1, <1>2 DEF Suboptions

\* "/": the same, and the node's handler may be called.
LEMMA EnterModeStep ==
  ASSUME IInv, EnterMode
  PROVE  IInv'
<1>1. CASE Fail("assert")
  BY <1>1, FailStep DEF EnterMode, Matched
<1>2. CASE parent # "root"
  <2>1. /\ checkpoint' = Len(tlv_buff) /\ cursor' = parent /\ pc = "descend" /\ Matched
        /\ param = "/" /\ param \in Capability
        /\ tlv_buff' = Append(tlv_buff, Code(parent))
        /\ ShowMode(parent)
        /\ UNCHANGED <<value, lost, last, calls, failed>>
        /\ \/ /\ HasCallback(parent)
              /\ pc' = "invoke" /\ param' = parent /\ parent' = None /\ todo' = <<>>
              /\ enable_or_disable' = Mode(parent)
           \/ pc' = "built" /\ NoParse
    BY <1>2 DEF EnterMode, Over, Matched, Capability
  <2>2. /\ parent \in Modes /\ Matching = parent
        /\ parent \in {cursor} \cup Below(cursor) /\ parent \in Param
    BY <1>2, <2>1, CapabilityOf
  <2>3. PICK c \in Param : c = parent
    BY <2>2
  <2>4. /\ tlv_buff' \in Seq(Field) /\ Len(tlv_buff') = Len(tlv_buff) + 1 /\ tlv_buff' # <<>>
        /\ tlv_buff'[Len(tlv_buff')] = Code(c) /\ Len(tlv_buff) \in Nat
        /\ OfTheServer(tlv_buff') = OfTheServer(tlv_buff)
        /\ SubSeq(tlv_buff', 1, Len(tlv_buff)) = tlv_buff
        /\ \A i \in 1..Len(tlv_buff) : tlv_buff'[i] = tlv_buff[i]
    <3>1. tlv_buff \in Seq(Field) /\ tlv_buff' = Append(tlv_buff, Code(c))
      BY <2>1, <2>3 DEF IInv, DataTypes
    <3>2. LET s == Append(tlv_buff, Code(c))
          IN /\ s \in Seq(Field) /\ Len(s) = Len(tlv_buff) + 1 /\ s # <<>>
             /\ s[Len(s)] = Code(c) /\ Len(tlv_buff) \in Nat
             /\ OfTheServer(s) = OfTheServer(tlv_buff)
             /\ SubSeq(s, 1, Len(tlv_buff)) = SubSeq(tlv_buff, 1, Len(tlv_buff))
             /\ SubSeq(tlv_buff, 1, Len(tlv_buff)) = tlv_buff
             /\ \A i \in 1..Len(tlv_buff) : s[i] = tlv_buff[i]
      <4>1. Len(tlv_buff) \in 0..Len(tlv_buff)
        BY <3>1
      <4>2. QED
        BY <3>1, <4>1, CodeAppended
    <3>3. QED
      BY <3>1, <3>2
  <2>5. PromptInv'
    <3>1. cursor' = c /\ ShowMode(c) /\ c # "do_hook" /\ UNCHANGED value /\ DataTypes
      BY <2>1, <2>2, <2>3 DEF IInv, Modes
    <3>2. QED
      BY <3>1, PromptIsBuilt
  <2>6. Mode(parent) \in {"CONFIG_ENABLE", "CONFIG_DISABLE", "OPERATIONAL"}
    BY DEF Mode
  <2>7. DataTypes'
    <3>1. console_name' = [device |-> console_name'.device, mode |-> console_name'.mode]
      BY <2>1, ConsoleStays DEF IInv
    <3>2. "root" \in Param /\ checkpoint' \in 0..Len(tlv_buff')
      BY <2>1, <2>4, ParamIs DEF Nodes
    <3>3. CASE pc' = "invoke"
      <4>1. /\ param' \in Param \cup Capability /\ parent' = None
            /\ todo' \in Seq(STRING)
        BY <2>1, <2>2, <3>3
      <4>2. enable_or_disable' = Mode(parent)
        BY <2>1, <3>3
      <4>3. QED
        BY <2>1, <2>2, <2>4, <2>6, <3>1, <3>2, <3>3, <4>1, <4>2 DEF IInv, DataTypes
    <3>4. CASE pc' = "built" /\ NoParse
      BY <2>1, <2>2, <2>4, <3>1, <3>2, <3>4 DEF IInv, DataTypes, NoParse
    <3>5. QED
      BY <2>1, <3>3, <3>4
  <2>8. FrameTypes'
    BY <2>1, SameFrames DEF IInv
  <2>9. parent \notin Capability
    BY <2>2 DEF Modes, Capability
  <2>10. pc' = "invoke" => Matching' = parent /\ cursor' = parent
    BY <2>1, <2>9 DEF Matching
  <2>11. ReachInv'
    BY <2>1, <2>2, <2>10 DEF ReachInv
  <2>12. ContextInv'
    <3>1. ASSUME ~lost PROVE KeptInv' /\ CollectedInv'
      <4>1. /\ OfTheServer(tlv_buff) = ServerTLVs(parent, value)
            /\ Ends(parent, tlv_buff, Len(tlv_buff))
        BY <2>1, <2>2, <3>1 DEF IInv, ContextInv, CollectedInv
      <4>2. Ends(parent, tlv_buff', Len(tlv_buff))
        BY <2>4, <4>1 DEF Ends
      <4>3. KeptInv'
        BY <2>1, <2>4, <4>1, <4>2 DEF KeptInv
      <4>4. CollectedInv'
        BY <2>1, <2>4, <2>10, <4>1 DEF CollectedInv
      <4>5. QED
        BY <4>3, <4>4
    <3>2. QED
      BY <2>1, <3>1 DEF ContextInv
  <2>13. ToldInv'
    <3> SUFFICES ASSUME pc' = "invoke", param' \in Application
                 PROVE  /\ tlv_buff' # <<>> /\ tlv_buff'[Len(tlv_buff')] = Code(param')
                        /\ ~ValueSaysNo' => Told'
      BY <2>1 DEF ToldInv
    <3>1. param' = c /\ enable_or_disable' = Mode(c) /\ c \in Application
      BY <2>1, <2>3
    <3>2. ValueSaysNo => ValueSaysNo'
      <4>1. \A i \in 1..Len(tlv_buff) : i \in 1..Len(tlv_buff')
        BY <2>4
      <4>2. QED
        BY <2>4, <4>1 DEF ValueSaysNo
    <3>3. TheLine' = TheLine
      BY <2>1 DEF TheLine, Innermost
    <3>4. ASSUME ~ValueSaysNo' PROVE Told'
      <4>1. Mode(c) = IF Branch(c) # "config" THEN "OPERATIONAL"
                      ELSE IF \E i \in 1..Len(TheLine) : SaysNo(TheLine[i])
                      THEN "CONFIG_DISABLE" ELSE "CONFIG_ENABLE"
        BY <2>1, <2>2, <2>3, <3>1, <3>2, <3>4, TellsWhatWasSaid
      <4>2. QED
        BY <3>1, <3>3, <4>1 DEF Told
    <3>5. QED
      BY <2>4, <3>1, <3>4
  <2>14. QED
    BY <2>5, <2>7, <2>8, <2>11, <2>12, <2>13 DEF IInv
<1>3. QED
  BY <1>1, <1>2 DEF EnterMode

\* All tokens are matched: a command that can be called.
LEMMA CommandStep ==
  ASSUME IInv, Command
  PROVE  IInv'
<1>1. /\ pc = "descend" /\ Matched /\ param \notin Capability /\ HasCallback(param)
      /\ param \in Param
      /\ tlv_buff' = IF param \in {"repeat", "config"} THEN tlv_buff
                     ELSE Append(tlv_buff, Code(param))
      /\ pc' = "invoke" /\ parent' = None /\ enable_or_disable' = Mode(param)
      /\ UNCHANGED <<cursor, checkpoint, value, console_name, lost, last, calls, todo, param,
                     failed>>
  BY DEF Command, Matched, IInv, DataTypes
<1>2. PICK p \in Param : p = param
  BY <1>1
<1>3. Matching = p /\ Matching' = p
  BY <1>1, <1>2 DEF Matching
<1>4. /\ tlv_buff' \in Seq(Field) /\ Len(tlv_buff) \in Nat /\ checkpoint \in 0..Len(tlv_buff')
      /\ OfTheServer(tlv_buff') = OfTheServer(tlv_buff)
      /\ \A n \in 0..Len(tlv_buff) : SubSeq(tlv_buff', 1, n) = SubSeq(tlv_buff, 1, n)
      /\ \A i \in 1..Len(tlv_buff) : i \in 1..Len(tlv_buff') /\ tlv_buff'[i] = tlv_buff[i]
      /\ p \in Application => tlv_buff' # <<>> /\ tlv_buff'[Len(tlv_buff')] = Code(p)
  <2>1. tlv_buff \in Seq(Field) /\ Len(tlv_buff) \in Nat /\ checkpoint \in 0..Len(tlv_buff)
    BY DEF IInv, DataTypes
  <2>2. CASE p \in {"repeat", "config"}
    <3>1. tlv_buff' = tlv_buff /\ p \notin Application
      BY <1>1, <1>2, <2>2 DEF Application
    <3>2. QED
      BY <2>1, <3>1
  <2>3. CASE p \notin {"repeat", "config"}
    <3>1. tlv_buff' = Append(tlv_buff, Code(p))
      BY <1>1, <1>2, <2>3
    <3>2. LET s == Append(tlv_buff, Code(p))
          IN /\ s \in Seq(Field) /\ Len(s) = Len(tlv_buff) + 1 /\ s # <<>>
             /\ s[Len(s)] = Code(p)
             /\ OfTheServer(s) = OfTheServer(tlv_buff)
             /\ \A n \in 0..Len(tlv_buff) : SubSeq(s, 1, n) = SubSeq(tlv_buff, 1, n)
             /\ \A i \in 1..Len(tlv_buff) : s[i] = tlv_buff[i]
      BY <2>1, CodeAppended
    <3>3. /\ tlv_buff' \in Seq(Field) /\ Len(tlv_buff') = Len(tlv_buff) + 1 /\ tlv_buff' # <<>>
          /\ tlv_buff'[Len(tlv_buff')] = Code(p)
          /\ OfTheServer(tlv_buff') = OfTheServer(tlv_buff)
          /\ \A n \in 0..Len(tlv_buff) : SubSeq(tlv_buff', 1, n) = SubSeq(tlv_buff, 1, n)
          /\ \A i \in 1..Len(tlv_buff) : tlv_buff'[i] = tlv_buff[i]
      BY <3>1, <3>2
    <3>4. \A i \in 1..Len(tlv_buff) : i \in 1..Len(tlv_buff')
      BY <2>1, <3>3
    <3>5. checkpoint \in 0..Len(tlv_buff')
      BY <2>1, <3>3
    <3>6. QED
      BY <2>1, <3>3, <3>4, <3>5
  <2>4. QED
    BY <2>2, <2>3
<1>5. Mode(param) \in {"CONFIG_ENABLE", "CONFIG_DISABLE", "OPERATIONAL"}
  BY DEF Mode
<1>6. DataTypes'
  BY <1>1, <1>4, <1>5 DEF IInv, DataTypes
<1>7. FrameTypes' /\ \A h \in ConfigModes : Borrowed(h) => Borrowed(h)'
  BY <1>1, SameFrames DEF IInv
<1>8. ReachInv'
  <2>1. Matching \in {cursor} \cup Below(cursor)
    BY <1>1 DEF IInv, ReachInv
  <2>2. QED
    BY <1>1, <1>3, <2>1 DEF ReachInv
<1>9. PromptInv'
  BY <1>1, <1>7, SamePrompt DEF IInv
<1>10. ContextInv'
  <2>1. ASSUME ~lost PROVE KeptInv' /\ CollectedInv'
    <3>1. KeptInv /\ OfTheServer(tlv_buff) = ServerTLVs(p, value)
      BY <1>1, <1>3, <2>1 DEF IInv, ContextInv, CollectedInv
    <3>2. checkpoint \in 0..Len(tlv_buff)
      BY DEF IInv, DataTypes
    <3>3. SubSeq(tlv_buff', 1, checkpoint) = SubSeq(tlv_buff, 1, checkpoint)
      BY <1>4, <3>2
    <3>4. Ends(cursor, tlv_buff', checkpoint)
      BY <1>4, <3>1, <3>2 DEF KeptInv, Ends
    <3>5. KeptInv'
      BY <1>1, <3>1, <3>3, <3>4 DEF KeptInv
    <3>6. CollectedInv'
      BY <1>1, <1>3, <1>4, <3>1 DEF CollectedInv
    <3>7. QED
      BY <3>5, <3>6
  <2>2. QED
    BY <1>1, <2>1 DEF ContextInv
<1>11. ToldInv'
  <2> SUFFICES ASSUME param \in Application
               PROVE  /\ tlv_buff' # <<>> /\ tlv_buff'[Len(tlv_buff')] = Code(param')
                      /\ ~ValueSaysNo' => Told'
    BY <1>1 DEF ToldInv
  <2>1. ValueSaysNo => ValueSaysNo'
    BY <1>4 DEF ValueSaysNo
  <2>2. TheLine' = TheLine
    BY <1>1 DEF TheLine, Innermost
  <2>3. ASSUME ~ValueSaysNo' PROVE Told'
    <3>1. Mode(p) = IF Branch(p) # "config" THEN "OPERATIONAL"
                    ELSE IF \E i \in 1..Len(TheLine) : SaysNo(TheLine[i])
                    THEN "CONFIG_DISABLE" ELSE "CONFIG_ENABLE"
      BY <1>1, <1>2, <1>3, <2>1, <2>3, TellsWhatWasSaid
    <3>2. QED
      BY <1>1, <1>2, <2>2, <3>1 DEF Told
  <2>4. QED
    BY <1>1, <1>2, <1>4, <2>3
<1>12. QED
  BY <1>6, <1>7, <1>8, <1>9, <1>10, <1>11 DEF IInv

\* "config" alone: the user is in config mode.
LEMMA ConfigModeStep ==
  ASSUME IInv, config_mode_enter_handler
  PROVE  IInv'
<1>1. /\ pc = "invoke" /\ param = "config" /\ cursor' = "config" /\ checkpoint' = Len(tlv_buff)
      /\ ShowMode("config") /\ pc' = "built" /\ NoParse
      /\ UNCHANGED <<tlv_buff, value, lost, last, calls, failed>>
  BY DEF config_mode_enter_handler, Over
<1>2. "config" \in Param /\ "root" \in Param
  BY ParamIs DEF Nodes, ConfigBranch
<1>3. DataTypes'
  <2>1. console_name' = [device |-> console_name'.device, mode |-> console_name'.mode]
    BY <1>1, ConsoleStays DEF IInv
  <2>2. tlv_buff \in Seq(Field) /\ Len(tlv_buff) \in 0..Len(tlv_buff)
    BY DEF IInv, DataTypes
  <2>3. "config" \in Modes
    BY DEF Modes
  <2>4. QED
    BY <1>1, <1>2, <2>1, <2>2, <2>3 DEF IInv, DataTypes, NoParse
<1>4. FrameTypes'
  BY <1>1, SameFrames DEF IInv
<1>5. PromptInv'
  <2>1. PICK c \in Param : c = "config"
    BY <1>2
  <2>2. cursor' = c /\ ShowMode(c) /\ c # "do_hook" /\ UNCHANGED value /\ DataTypes
    BY <1>1, <2>1 DEF IInv
  <2>3. QED
    BY <2>2, PromptIsBuilt
<1>6. ContextInv'
  <2>1. ASSUME ~lost PROVE KeptInv'
    <3>1. OfTheServer(tlv_buff) = ServerTLVs(Matching, value)
      BY <1>1, <2>1 DEF IInv, ContextInv, CollectedInv
    <3>2. Matching = "config"
      BY <1>1 DEF Matching, Capability
    <3>3. SubSeq(tlv_buff, 1, Len(tlv_buff)) = tlv_buff
      BY FrontOfAppend DEF IInv, DataTypes
    <3>4. QED
      BY <1>1, <3>1, <3>2, <3>3 DEF KeptInv, Ends
  <2>2. QED
    BY <1>1, <2>1 DEF ContextInv, CollectedInv
<1>7. ReachInv' /\ ToldInv'
  BY <1>1 DEF ReachInv, ToldInv
<1>8. QED
  BY <1>3, <1>4, <1>5, <1>6, <1>7 DEF IInv

\* The device is given another name.
LEMMA ConsoleNameStep ==
  ASSUME IInv, config_console_name_handler
  PROVE  IInv'
<1>1. /\ pc = "invoke" /\ pc' = "built" /\ NoParse
      /\ UNCHANGED <<cursor, tlv_buff, checkpoint, value, lost, last, calls, failed>>
  BY DEF config_console_name_handler, Over
<1>2. /\ console_name'.mode = console_name.mode
      /\ console_name' = [device |-> console_name'.device, mode |-> console_name'.mode]
  <2>1. console_name = [device |-> console_name.device, mode |-> console_name.mode]
    BY DEF IInv, DataTypes
  <2>2. console_name' = [console_name EXCEPT !.device = tlv_buff[Len(tlv_buff) - 1].val]
    BY DEF config_console_name_handler
  <2>3. QED
    BY <2>1, <2>2
<1>3. DataTypes'
  <2>1. "root" \in Param
    BY ParamIs DEF Nodes
  <2>2. QED
    BY <1>1, <1>2, <2>1 DEF IInv, DataTypes, NoParse
<1>4. FrameTypes' /\ \A h \in ConfigModes : Borrowed(h) => Borrowed(h)'
  BY <1>1, SameFrames DEF IInv
<1>5. PromptInv'
  <2>1. \A h : ShownPath(h)' = ShownPath(h)
    BY <1>1 DEF ShownPath, Shown
  <2>2. QED
    BY <1>1, <1>2, <1>4, <2>1 DEF IInv, PromptInv
<1>6. ContextInv'
  <2>1. KeptInv' = KeptInv
    BY <1>1 DEF KeptInv
  <2>2. QED
    BY <1>1, <2>1 DEF IInv, ContextInv, CollectedInv
<1>7. ReachInv' /\ ToldInv'
  BY <1>1 DEF ReachInv, ToldInv
<1>8. QED
  BY <1>3, <1>4, <1>5, <1>6, <1>7 DEF IInv

\* The process is told to end.
LEMMA TerminateStep ==
  ASSUME IInv, cli_terminate_handler
  PROVE  IInv'
<1>1. /\ pc = "invoke" /\ pc' = "exit"
      /\ UNCHANGED <<cursor, tlv_buff, checkpoint, value, console_name, lost, last, calls,
                     todo, param, parent, enable_or_disable, failed>>
  BY DEF cli_terminate_handler, context, parse
<1>2. DataTypes'
  BY <1>1 DEF IInv, DataTypes
<1>3. FrameTypes' /\ \A h \in ConfigModes : Borrowed(h) => Borrowed(h)'
  BY <1>1, SameFrames DEF IInv
<1>4. PromptInv'
  BY <1>1, <1>3, SamePrompt DEF IInv
<1>5. ContextInv'
  <2>1. KeptInv' = KeptInv
    BY <1>1 DEF KeptInv
  <2>2. QED
    BY <1>1, <2>1 DEF IInv, ContextInv, CollectedInv
<1>6. ReachInv' /\ ToldInv'
  BY <1>1 DEF ReachInv, ToldInv
<1>7. QED
  BY <1>2, <1>3, <1>4, <1>5, <1>6 DEF IInv

-----------------------------------------------------------------------------
\* A handler is called.
LEMMA HandlerStep ==
  ASSUME IInv, Handler
  PROVE  IInv'
<1>1. CASE ServerCommand
  <2>1. pc = "invoke" /\ (Fail("noname") \/ Nothing)
    BY <1>1 DEF ServerCommand
  <2>2. QED
    BY <2>1, FailStep, NothingStep
<1>2. CASE config_mode_enter_handler
  BY <1>2, ConfigModeStep
<1>3. CASE show_history_callback
  <2>1. CASE Nothing
    BY <1>3, <2>1, NothingStep DEF show_history_callback
  <2>2. CASE \E line \in Recorded : Enter(line) /\ UNCHANGED <<context, last, failed>>
    <3>1. PICK line \in Recorded : Enter(line) /\ UNCHANGED <<context, last, failed>>
      BY <2>2
    <3>2. line \in Line /\ pc = "invoke" /\ param \in {"history", "N", "repeat"}
      BY <1>3 DEF Recorded, show_history_callback
    <3>3. QED
      BY <3>1, <3>2, EnterStep
  <2>3. QED
    BY <1>3, <2>1, <2>2 DEF show_history_callback
<1>4. CASE config_console_name_handler
  BY <1>4, ConsoleNameStep
<1>5. CASE repeat_last_command
  <2>1. last \in Line
    BY DEF IInv, DataTypes
  <2>2. QED
    BY <1>5, <2>1, EnterStep DEF repeat_last_command
<1>6. CASE cli_terminate_handler
  BY <1>6, TerminateStep
<1>7. CASE IdleHandler
  BY <1>7, NothingStep DEF IdleHandler
<1>8. QED
  BY <1>1, <1>2, <1>3, <1>4, <1>5, <1>6, <1>7 DEF Handler

\* The TLVs on the way to a node are a buffer.
LEMMA TLVsToType ==
  ASSUME NEW p \in Param, NEW v \in [Leaf -> Text]
  PROVE  TLVsTo(p, v) \in Seq(Field)
<1> DEFINE s == LeavesTo(p)
<1>1. PathLeaves(p) = s
  BY PathLeavesIs
<1>2. s \in Seq(Leaf)
  <2>1. \A a, b, c \in Leaf : /\ <<>> \in Seq(Leaf) /\ <<a>> \in Seq(Leaf)
                              /\ <<a, b>> \in Seq(Leaf) /\ <<a, b, c>> \in Seq(Leaf)
    OBVIOUS
  <2>2. "name" \in Leaf /\ "addr" \in Leaf /\ "port" \in Leaf
    BY DEF Leaf
  <2>3. \/ s = <<>> \/ (p \in Leaf /\ s = <<p>>)
        \/ s = <<"name">> \/ s = <<"name", "addr">> \/ s = <<"name", "addr", "port">>
    <3>1. CASE p \in {"N", "show-name", "file-name", "cons-name"}
      BY <3>1 DEF LeavesTo, Leaf
    <3>2. CASE p \in {"name", "start", "stop", "disable-conn-accept", "no"}
      BY <3>2 DEF LeavesTo
    <3>3. CASE p \in {"addr", "port"}
      BY <3>3 DEF LeavesTo
    <3>4. CASE p \notin Leaf \cup {"start", "stop", "disable-conn-accept", "no"}
      <4>1. /\ p \notin {"N", "show-name", "file-name", "cons-name"}
            /\ p \notin {"name", "start", "stop", "disable-conn-accept", "no"}
            /\ p # "addr" /\ p # "port"
        BY <3>4 DEF Leaf
      <4>2. LeavesTo(p) = <<>>
        BY <4>1 DEF LeavesTo
      <4>3. QED
        BY <4>2
    <3>5. QED
      BY <3>1, <3>2, <3>3, <3>4 DEF Leaf
  <2> HIDE DEF s
  <2>4. QED
    BY <2>1, <2>2, <2>3
<1>3. \A i \in 1..Len(s) : TLV(s[i], v[s[i]]) \in Field
  <2> HIDE DEF s
  <2>1. \A i \in 1..Len(s) : s[i] \in Leaf /\ v[s[i]] \in Text
    BY <1>2
  <2>2. QED
    BY <2>1, TLVIsField
<1> HIDE DEF s
<1>4. [i \in 1..Len(s) |-> TLV(s[i], v[s[i]])] \in Seq(Field)
  <2>1. Len(s) \in Nat
    BY <1>2
  <2>2. QED
    BY <1>3, <2>1
<1>5. QED
  BY <1>1, <1>4 DEF TLVsTo

\* What a reset that was too late leaves is a buffer.
LEMMA GarbageIsField == <<TLV("garbage", "")>> \in Seq(Field) /\ <<>> \in Seq(Field)
<1>1. "" \in Text
  BY DEF Text
<1>2. TLV("garbage", "") \in Field
  BY <1>1, TLVIsField
<1> DEFINE x == TLV("garbage", "")
<1> HIDE DEF x
<1>3. x \in Field => <<x>> \in Seq(Field)
  OBVIOUS
<1>4. <<>> \in Seq(Field)
  OBVIOUS
<1>5. QED
  BY <1>2, <1>3, <1>4 DEF x

\* A buffer is collected behind another.
LEMMA JoinedType ==
  ASSUME NEW S, NEW s \in Seq(S), NEW t \in Seq(S)
  PROVE  s \o t \in Seq(S) /\ Len(s \o t) \in Nat /\ SubSeq(s \o t, 1, Len(s \o t)) = s \o t
         /\ s \o <<>> = s
OBVIOUS

-----------------------------------------------------------------------------
\* What is collected for the node that a "do" comes back to.
LEMMA LeavesDataIs ==
  ASSUME NEW h \in ConfigModes, value \in [Leaf -> Text]
  PROVE  LET s == LeavesData(h)
         IN /\ s \in Seq(Field) /\ Len(s) \in Nat /\ SubSeq(s, 1, Len(s)) = s
            /\ h \notin NoCmd => /\ OfTheServer(s) = ServerTLVs(h, value)
                                 /\ Ends(h, s, Len(s))
<1> DEFINE e == IF h \in NoCmd THEN <<TLV("garbage", "")>> ELSE <<>>
<1>1. h \in Param
  BY ParamIs DEF ConfigModes, Nodes, ConfigBranch, ServerBranch
<1>2. e \in Seq(Field) /\ (h \notin NoCmd => e = <<>>)
  BY GarbageIsField
<1>3. PathTLVs(h) = TLVsTo(h, value)
  BY DEF PathTLVs, TLVsTo
<1>4. LeavesData(h) = TLVsTo(h, value) \o e
  BY <1>3 DEF LeavesData
<1> HIDE DEF e
<1>5. PICK s : s = TLVsTo(h, value)
  OBVIOUS
<1>6. s \in Seq(Field)
  BY <1>1, <1>5, TLVsToType
<1>7. /\ s \o e \in Seq(Field) /\ Len(s \o e) \in Nat
      /\ SubSeq(s \o e, 1, Len(s \o e)) = s \o e
      /\ s \o <<>> = s
  BY <1>2, <1>6, JoinedType
<1>8. ASSUME h \notin NoCmd
      PROVE  OfTheServer(s) = ServerTLVs(h, value) /\ Ends(h, s, Len(s))
  <2>1. OfTheServer(s) = ServerTLVs(h, value)
    BY <1>1, <1>5, OfTheServerToNode
  <2>2. CASE h = "name"
    <3>1. LeavesTo(h) = <<"name">>
      BY <2>2 DEF LeavesTo
    <3>2. s = <<TLV("name", value["name"])>>
      BY <1>1, <1>5, <3>1, TLVsToNode
    <3>3. Len(s) = 1 /\ s[1].leaf = "name"
      BY <3>2 DEF TLV
    <3>4. QED
      BY <2>1, <2>2, <3>3 DEF Ends
  <2>3. CASE h = "addr"
    <3>1. s = <<TLV("name", value["name"]), TLV("addr", value["addr"])>>
      BY <1>1, <1>5, <2>3, TLVsToNode
    <3>2. Len(s) = 2 /\ s[1].leaf = "name" /\ s[2].leaf = "addr"
      BY <3>1 DEF TLV
    <3>3. QED
      BY <2>1, <2>3, <3>2 DEF Ends
  <2>4. CASE h \notin {"name", "addr"}
    BY <1>8, <2>1, <2>4 DEF Ends, NoCmd
  <2>5. QED
    BY <2>2, <2>3, <2>4
<1>9. h \notin NoCmd => s \o e = s
  BY <1>2, <1>7
<1>10. QED
  BY <1>4, <1>5, <1>7, <1>8, <1>9

\* What stays of the calls when a "do" is over.
LEMMA DoOverFrames ==
  ASSUME FrameTypes, pc = "built", calls # <<>>, calls' = [calls EXCEPT ![1].old = None],
         pc' = "built"
  PROVE  FrameTypes'
<1>1. calls \in Seq(Frame) /\ Len(calls) \in Nat
  BY DEF FrameTypes
<1>2. /\ calls' \in Seq(Frame) /\ Len(calls') = Len(calls) /\ calls' # <<>>
      /\ calls'[1].of = calls[1].of /\ calls'[1].lines = calls[1].lines
      /\ calls'[1].old = None
      /\ \A i \in 2..Len(calls) : calls'[i] = calls[i]
  <2>1. None \in {None} \cup ConfigModes
    OBVIOUS
  <2>2. LET t == [calls EXCEPT ![1].old = None]
        IN /\ t \in Seq(Frame) /\ Len(t) = Len(calls) /\ t # <<>>
           /\ t[1].of = calls[1].of /\ t[1].lines = calls[1].lines /\ t[1].old = None
           /\ \A i \in 2..Len(calls) : t[i] = calls[i]
    BY <1>1, <2>1, CallChanged
  <2>3. QED
    BY <2>2
<1>3. ASSUME NEW i \in 1..Len(calls')
      PROVE  LineOrFile(calls'[i]) /\ calls'[i].lines # <<>>
  <2>1. LineOrFile(calls[i]) /\ calls[i].lines # <<>> /\ i \in 1..Len(calls)
    BY <1>2 DEF FrameTypes
  <2>2. CASE i = 1
    BY <1>2, <2>1, <2>2 DEF LineOrFile
  <2>3. CASE i # 1
    <3>1. calls'[i] = calls[i]
      BY <1>1, <1>2, <2>1, <2>3
    <3>2. QED
      BY <2>1, <3>1
  <2>4. QED
    BY <2>2, <2>3
<1>4. calls'[Len(calls')].of = "line"
  BY <1>1, <1>2 DEF FrameTypes
<1>5. QED
  BY <1>2, <1>3, <1>4 DEF FrameTypes

\* A "do" is done: what it was typed in is there again.
LEMMA DoDoneStep ==
  ASSUME IInv, DoDone
  PROVE  IInv'
<1>1. pc = "built" /\ calls # <<>> /\ calls[1].old # None /\ Innermost = calls[1]
  BY DEF DoDone, IInv, FrameTypes, Innermost
<1>2. calls \in Seq(Frame) /\ Len(calls) \in Nat /\ 1 \in 1..Len(calls)
  BY <1>1 DEF IInv, FrameTypes
<1>3. PICK h \in ConfigModes : h = calls[1].old
  <2>1. calls[1] \in Frame
    BY <1>2
  <2>2. calls[1].old \in {None} \cup ConfigModes
    BY <2>1 DEF Frame
  <2>3. QED
    BY <1>1, <2>2
<1>4. CASE cursor = "do_hook"
  <2>1. /\ cursor' = h /\ tlv_buff' = LeavesData(h) /\ checkpoint' = Len(tlv_buff')
        /\ lost' = (h \in NoCmd) /\ calls' = [calls EXCEPT ![1].old = None]
        /\ pc' = "built"
        /\ UNCHANGED <<value, console_name, last, todo, param, parent, enable_or_disable, failed>>
    BY <1>1, <1>3, <1>4 DEF DoDone, parse
  <2>2. PICK s : s = LeavesData(h)
    OBVIOUS
  <2>3. /\ s \in Seq(Field) /\ Len(s) \in Nat /\ SubSeq(s, 1, Len(s)) = s
        /\ h \notin NoCmd => OfTheServer(s) = ServerTLVs(h, value) /\ Ends(h, s, Len(s))
    <3>1. value \in [Leaf -> Text]
      BY DEF IInv, DataTypes
    <3>2. QED
      BY <2>2, <3>1, LeavesDataIs
  <2>4. tlv_buff' = s /\ checkpoint' = Len(s)
    BY <2>1, <2>2
  <2>5. DataTypes'
    <3>1. h \in Modes \cup {"root", "do_hook", "no"}
      BY DEF ConfigModes, Modes
    <3>2. Len(s) \in 0..Len(s) /\ lost' \in BOOLEAN
      BY <2>1, <2>3
    <3>3. QED
      BY <1>1, <2>1, <2>3, <2>4, <3>1, <3>2 DEF IInv, DataTypes
  <2>6. FrameTypes'
    BY <1>1, <2>1, DoOverFrames DEF IInv
  <2>7. PromptInv'
    <3>1. PICK g \in ConfigModes : Borrowed(g) /\ console_name.mode = ShownPath(g)
      BY <1>4 DEF IInv, PromptInv
    <3>2. PICK i \in 1..Len(calls) : /\ calls[i].old = g
                                     /\ \A j \in 1 .. i - 1 : calls[j].old = None
      BY <3>1 DEF Borrowed
    <3>3. i = 1
      <4>1. i # 1 => 1 \in 1 .. i - 1
        BY <1>2
      <4>2. QED
        BY <1>1, <3>2, <4>1
    <3>4. g = h
      BY <1>3, <3>2, <3>3
    <3>5. ShownPath(h)' = ShownPath(h)
      BY <2>1 DEF ShownPath, Shown
    <3>6. console_name'.mode = ShownPath(h)'
      BY <2>1, <3>1, <3>4, <3>5
    <3>7. h # "do_hook"
      BY DEF ConfigModes
    <3>8. QED
      BY <2>1, <3>6, <3>7 DEF PromptInv
  <2>8. ContextInv'
    <3>1. ASSUME ~lost' PROVE KeptInv'
      BY <2>1, <2>3, <2>4, <3>1 DEF KeptInv
    <3>2. QED
      BY <2>1, <3>1 DEF ContextInv, CollectedInv
  <2>9. ReachInv' /\ ToldInv'
    BY <2>1 DEF ReachInv, ToldInv
  <2>10. QED
    BY <2>5, <2>6, <2>7, <2>8, <2>9 DEF IInv
<1>5. CASE cursor # "do_hook"
  <2>1. CASE Fail("assert")
    BY <1>1, <2>1, FailStep
  <2>2. CASE Fail("impossible")
    BY <1>1, <2>2, FailStep
  <2>3. CASE /\ calls' = [calls EXCEPT ![1].old = None]
             /\ UNCHANGED <<pc, context, last, parse, failed>>
    <3>1. /\ calls' = [calls EXCEPT ![1].old = None] /\ pc' = "built"
          /\ UNCHANGED <<cursor, tlv_buff, checkpoint, value, console_name, lost, last, todo,
                         param, parent, enable_or_disable, failed>>
      BY <1>1, <2>3 DEF context, parse
    <3>2. DataTypes'
      BY <1>1, <3>1 DEF IInv, DataTypes
    <3>3. FrameTypes'
      BY <1>1, <3>1, DoOverFrames DEF IInv
    <3>4. PromptInv'
      <4>1. \A g : ShownPath(g)' = ShownPath(g)
        BY <3>1 DEF ShownPath, Shown
      <4>2. QED
        BY <1>5, <3>1, <4>1 DEF IInv, PromptInv
    <3>5. ContextInv'
      <4>1. KeptInv' = KeptInv
        BY <3>1 DEF KeptInv
      <4>2. QED
        BY <3>1, <4>1 DEF IInv, ContextInv, CollectedInv
    <3>6. ReachInv' /\ ToldInv'
      BY <3>1 DEF ReachInv, ToldInv
    <3>7. QED
      BY <3>2, <3>3, <3>4, <3>5, <3>6 DEF IInv
  <2>4. QED
    BY <1>5, <2>1, <2>2, <2>3 DEF DoDone
<1>6. QED
  BY <1>4, <1>5

-----------------------------------------------------------------------------
\* No leaf has a value yet.
LEMMA NoValues == [l \in Leaf |-> ""] \in [Leaf -> Text]
<1>1. "" \in Text
  BY DEF Text
<1>2. QED
  BY <1>1

\* The cursor is at the root and nothing is collected.
LEMMA InitStep == Init => IInv
<1> SUFFICES ASSUME Init PROVE IInv
  OBVIOUS
<1>1. value \in [Leaf -> Text]
  BY NoValues DEF Init
<1>2. /\ pc = "prompt" /\ cursor = "root" /\ tlv_buff = <<>> /\ checkpoint = 0
      /\ last = <<>> /\ calls = <<>> /\ todo = <<>> /\ param = "root" /\ parent = None
      /\ enable_or_disable = "MODE_UNKNOWN" /\ failed = None /\ lost = FALSE
      /\ console_name = [device |-> "TcpServerLibrary", mode |-> <<>>]
  BY DEF Init
<1>3. <<>> \in Seq(Field) /\ Len(<<>>) = 0 /\ 0 \in 0..0 /\ SubSeq(<<>>, 1, 0) = <<>>
  BY EmptyBuffer
<1>4. "root" \in Param /\ Way("root") = <<>>
  BY ParamIs DEF Nodes, Way
<1>5. DataTypes
  <2>1. last \in Line /\ todo \in Seq(STRING)
    BY <1>2, LineAssumption
  <2>2. console_name = [device |-> console_name.device, mode |-> console_name.mode]
    BY <1>2
  <2>3. checkpoint \in 0..Len(tlv_buff) /\ tlv_buff \in Seq(Field)
    BY <1>2, <1>3
  <2>4. QED
    BY <1>1, <1>2, <1>4, <2>1, <2>2, <2>3 DEF DataTypes
<1>6. FrameTypes
  <2>1. calls \in Seq(Frame) /\ Len(calls) = 0
    BY <1>2
  <2>2. MaxDepth \in Nat
    BY LineAssumption
  <2>3. QED
    BY <1>2, <2>1, <2>2 DEF FrameTypes
<1>7. ReachInv /\ ToldInv
  BY <1>2 DEF ReachInv, ToldInv
<1>8. PromptInv
  <2>1. Path("root") = <<>>
    BY <1>4, PathIs
  <2>2. ShownPath("root") = <<>>
    BY <2>1 DEF ShownPath
  <2>3. QED
    BY <1>2, <2>2 DEF PromptInv
<1>9. ContextInv
  <2>1. ServerTLVs("root", value) = <<>>
    BY DEF ServerTLVs
  <2>2. KeptInv
    BY <1>2, <1>3, <2>1, OfTheServerEmpty DEF KeptInv, Ends
  <2>3. QED
    BY <1>2, <1>3, <2>2 DEF ContextInv, CollectedInv
<1>10. QED
  BY <1>5, <1>6, <1>7, <1>8, <1>9 DEF IInv

\* A line is typed.
LEMMA TypeStep ==
  ASSUME IInv, Type
  PROVE  IInv'
<1>1. PICK line \in Line : Enter(line)
  BY DEF Type
<1>2. pc = "prompt" /\ UNCHANGED <<context, last, failed>>
  BY DEF Type
<1>3. QED
  BY <1>1, <1>2, EnterStep

\* The tokens are all matched, and nothing is called.
LEMMA NothingCalledStep ==
  ASSUME IInv, Incomplete \/ Expand
  PROVE  IInv'
<1>1. pc = "descend" /\ Nothing
  BY DEF Incomplete, Expand, Matched
<1>2. QED
  BY <1>1, NothingStep

\* Nothing happens.
LEMMA StutterStep ==
  ASSUME IInv, UNCHANGED vars
  PROVE  IInv'
<1>1. UNCHANGED <<pc, cursor, tlv_buff, checkpoint, value, console_name, lost, last, calls, todo,
                  param, parent, enable_or_disable, failed>>
  BY DEF vars, context, parse
<1>2. DataTypes'
  BY <1>1 DEF IInv, DataTypes
<1>3. FrameTypes' /\ \A h \in ConfigModes : Borrowed(h) => Borrowed(h)'
  BY <1>1 DEF IInv, FrameTypes, Borrowed
<1>4. ReachInv'
  BY <1>1 DEF IInv, ReachInv, Matching
<1>5. PromptInv'
  BY <1>1, <1>3, SamePrompt DEF IInv
<1>6. ContextInv'
  <2>1. KeptInv' = KeptInv /\ CollectedInv' = CollectedInv
    BY <1>1 DEF KeptInv, CollectedInv, Matching
  <2>2. QED
    BY <1>1, <2>1 DEF IInv, ContextInv
<1>7. ToldInv'
  <2>1. /\ TheLine' = TheLine /\ ValueSaysNo' = ValueSaysNo /\ Matching' = Matching
    BY <1>1 DEF TheLine, Innermost, ValueSaysNo, Matching
  <2>2. \A k : TokensMatched(k)' = TokensMatched(k)
    BY <1>1, <2>1 DEF TokensMatched
  <2>3. Told' = Told
    BY <1>1, <2>1 DEF Told
  <2>4. QED
    BY <1>1, <2>1, <2>2, <2>3 DEF IInv, ToldInv
<1>8. QED
  BY <1>2, <1>3, <1>4, <1>5, <1>6, <1>7 DEF IInv

\* Every step of the shell keeps the invariant.
LEMMA NextStep ==
  ASSUME IInv, [Next]_vars
  PROVE  IInv'
<1>1. CASE Type
  BY <1>1, TypeStep
<1>2. CASE Dispatch
  BY <1>2, DispatchStep
<1>3. CASE FileLine
  BY <1>3, FileLineStep
<1>4. CASE FileEnds
  BY <1>4, FileEndsStep
<1>5. CASE Descend
  BY <1>5, DescendStep
<1>6. CASE Incomplete \/ Expand
  BY <1>6, NothingCalledStep
<1>7. CASE Suboptions
  BY <1>7, SuboptionsStep
<1>8. CASE EnterMode
  BY <1>8, EnterModeStep
<1>9. CASE Command
  BY <1>9, CommandStep
<1>10. CASE Handler
  BY <1>10, HandlerStep
<1>11. CASE FileLineDone
  BY <1>11, FileLineDoneStep
<1>12. CASE DoDone
  BY <1>12, DoDoneStep
<1>13. CASE Return
  BY <1>13, ReturnStep
<1>14. CASE UNCHANGED vars
  BY <1>14, StutterStep
<1>15. QED
  BY <1>1, <1>2, <1>3, <1>4, <1>5, <1>6, <1>7, <1>8, <1>9, <1>10, <1>11, <1>12, <1>13, <1>14
     DEF Next

\* The inductive invariant holds.
THEOREM Inductive == Spec => []IInv
<1>1. Init => IInv
  BY InitStep
<1>2. IInv /\ [Next]_vars => IInv'
  BY NextStep
<1>3. QED
  BY <1>1, <1>2, PTL DEF Spec

-----------------------------------------------------------------------------
\* At the prompt the checkpoint is behind all, and that is the cursor's.
LEMMA KeepsContext == IInv => ContextKept
<1> SUFFICES ASSUME IInv PROVE ContextKept
  OBVIOUS
<1>1. cursor \in Param
  BY ConfigModesAre DEF IInv, DataTypes
<1>2. TypeOK
  <2>1. \A i \in DOMAIN tlv_buff : tlv_buff[i].leaf \in Leaf \cup {"CMDCODE", "garbage"}
    <3>1. \A i \in DOMAIN tlv_buff : tlv_buff[i] \in Field
      BY DEF IInv, DataTypes
    <3>2. QED
      BY <3>1 DEF Field
  <2>2. DOMAIN value = Leaf
    BY DEF IInv, DataTypes
  <2>3. Len(calls) <= MaxDepth /\ (pc = "prompt" <=> calls = <<>>)
    BY DEF IInv, FrameTypes
  <2>4. QED
    BY <1>1, <2>1, <2>2, <2>3 DEF IInv, DataTypes, TypeOK
<1>3. ASSUME pc = "prompt", ~lost
      PROVE  /\ OfTheServer(tlv_buff) = OfTheServer(PathTLVs(cursor))
             /\ checkpoint = Len(tlv_buff)
  <2>1. checkpoint = Len(tlv_buff) /\ KeptInv
    BY <1>3 DEF IInv, ContextInv
  <2>2. SubSeq(tlv_buff, 1, Len(tlv_buff)) = tlv_buff
    BY FrontOfAppend DEF IInv, DataTypes
  <2>3. OfTheServer(tlv_buff) = ServerTLVs(cursor, value)
    BY <2>1, <2>2 DEF KeptInv
  <2>4. PathTLVs(cursor) = TLVsTo(cursor, value)
    BY DEF PathTLVs, TLVsTo
  <2>5. OfTheServer(TLVsTo(cursor, value)) = ServerTLVs(cursor, value)
    BY <1>1, OfTheServerToNode DEF IInv, DataTypes
  <2>6. QED
    BY <2>1, <2>3, <2>4, <2>5
<1>4. QED
  BY <1>2, <1>3 DEF ContextKept

\* What a handler of the application is called with is that of its node.
LEMMA SeesPath == IInv => HandlerSeesPath
<1> SUFFICES ASSUME IInv, pc = "invoke", param \in Application, ~lost
             PROVE  /\ OfTheServer(tlv_buff) = PathTLVs(param)
                    /\ Last(tlv_buff) = Code(param)
                    /\ (\A i \in DOMAIN tlv_buff : ~SaysNo(tlv_buff[i].val))
                         => enable_or_disable = IF Hook(param) # "config" THEN "OPERATIONAL"
                                                ELSE IF \E i \in DOMAIN TheLine : SaysNo(TheLine[i])
                                                THEN "CONFIG_DISABLE" ELSE "CONFIG_ENABLE"
  BY DEF HandlerSeesPath
<1>1. param \in Param /\ param \notin Capability /\ Hook(param) = Branch(param)
  <2>1. param \in Param /\ param \notin Capability
    BY ParamIs DEF Application, Nodes, ShowBranch, ConfigBranch, ServerBranch, Capability
  <2>2. QED
    BY <2>1, HookIs
<1>2. OfTheServer(tlv_buff) = PathTLVs(param)
  <2>1. OfTheServer(tlv_buff) = ServerTLVs(param, value)
    BY <1>1 DEF IInv, ContextInv, CollectedInv, Matching
  <2>2. TLVsTo(param, value) = ServerTLVs(param, value)
    BY TLVsOfApplication
  <2>3. QED
    BY <2>1, <2>2 DEF PathTLVs, TLVsTo
<1>3. Last(tlv_buff) = Code(param)
  BY DEF IInv, ToldInv, Last
<1>4. ASSUME \A i \in DOMAIN tlv_buff : ~SaysNo(tlv_buff[i].val)
      PROVE  enable_or_disable = IF Hook(param) # "config" THEN "OPERATIONAL"
                                 ELSE IF \E i \in DOMAIN TheLine : SaysNo(TheLine[i])
                                 THEN "CONFIG_DISABLE" ELSE "CONFIG_ENABLE"
  <2>1. DOMAIN tlv_buff = 1..Len(tlv_buff)
    BY DEF IInv, DataTypes
  <2>2. ~ValueSaysNo
    BY <1>4, <2>1 DEF ValueSaysNo
  <2>3. Told
    BY <2>2 DEF IInv, ToldInv
  <2>4. TheLine \in Seq(STRING)
    <3>1. calls # <<>> /\ calls[1].lines # <<>>
      BY DEF IInv, FrameTypes
    <3>2. QED
      BY <3>1, TheLineIs DEF IInv
  <2>5. DOMAIN TheLine = 1..Len(TheLine)
    BY <2>4
  <2>6. QED
    BY <1>1, <2>3, <2>5 DEF Told
<1>5. QED
  BY <1>2, <1>3, <1>4

\* At the prompt no "do" is open, so that the prompt is the cursor's.
LEMMA ShowsMode == IInv => PromptIsMode
<1> SUFFICES ASSUME IInv, pc = "prompt"
             PROVE  console_name.mode = [i \in DOMAIN Path(cursor) |-> Shown(Path(cursor)[i])]
  BY DEF PromptIsMode
<1>1. cursor # "do_hook"
  <2> SUFFICES ASSUME cursor = "do_hook" PROVE FALSE
    OBVIOUS
  <2>1. PICK h \in ConfigModes : Borrowed(h)
    BY DEF IInv, PromptInv
  <2>2. calls = <<>>
    BY DEF IInv, FrameTypes
  <2>3. QED
    BY <2>1, <2>2 DEF Borrowed
<1>2. QED
  BY <1>1 DEF IInv, PromptInv, ShownPath

\* The cursor at the hook of "do" is borrowed.
LEMMA ComesBack == IInv => DoComesBack
<1> SUFFICES ASSUME IInv, cursor = "do_hook"
             PROVE  \E i \in DOMAIN calls : /\ calls[i].old # None /\ Hook(calls[i].old) = "config"
                                            /\ \A j \in 1 .. i - 1 : calls[j].old = None
  BY DEF DoComesBack
<1>1. PICK h \in ConfigModes : Borrowed(h)
  BY DEF IInv, PromptInv
<1>2. Hook(h) = "config" /\ h # None
  BY ConfigModesAre DEF ConfigModes, Modes, None
<1>3. PICK i \in 1..Len(calls) : /\ calls[i].old = h
                                 /\ \A j \in 1 .. i - 1 : calls[j].old = None
  BY <1>1 DEF Borrowed
<1>4. DOMAIN calls = 1..Len(calls)
  BY DEF IInv, FrameTypes
<1>5. QED
  BY <1>2, <1>3, <1>4

\* At the prompt the buffer has the values on the way to the cursor and no other, and the
\* checkpoint keeps them, after whatever lines, files, histories and "do"s: no command
\* leaves behind what it collected, and no mode is left without its own.
THEOREM ContextIsKept == Spec => []ContextKept
BY Inductive, KeepsContext, PTL

\* A handler of the application is called with the values on the way to its command, the
\* command code behind them, and with the "no" that its line has said.
THEOREM HandlersSeePath == Spec => []HandlerSeesPath
BY Inductive, SeesPath, PTL

\* The prompt, which is built of the values when the cursor moves and never again, is that
\* of the mode the user is in whenever a line is asked for.
THEOREM PromptShowsMode == Spec => []PromptIsMode
BY Inductive, ShowsMode, PTL

\* The cursor is at the hook of "do" only while a call is open that will put it back to a
\* mode of the configuration.
THEOREM DoReturns == Spec => []DoComesBack
BY Inductive, ComesBack, PTL
=============================================================================
