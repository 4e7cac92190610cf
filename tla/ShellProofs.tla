----------------------------- MODULE ShellProofs -----------------------------
(***************************************************************************)
(* The parser runs a command; the history and the unit test parser are     *)
(* what it is run on account of.  Of these two: the line that a number     *)
(* chooses is the one that was seen under it, a run's first lines are in   *)
(* the file; a pattern is judged against the last show of its test case,   *)
(* and no output stays in the queue.  A step of the shell is one of a part *)
(* or leaves the part alone, so that an invariant of a part is one of the  *)
(* shell.                                                                  *)
(***************************************************************************)
EXTENDS Shell, CommandParserProofs

-----------------------------------------------------------------------------
\* What the shell does is a step of the history or leaves it alone.
LEMMA ShellTakesHistorySteps == [ShellNext]_<<vars, history, ut>> => [H!Next]_(H!vars)
<1>1. UNCHANGED history => UNCHANGED H!vars
  BY DEF history, H!vars, H!process
<1>2. QED
  BY <1>1 DEF ShellNext, ParserStep, HistoryStep, UtStep

\* And of the unit test parser.
LEMMA ShellTakesUtSteps == [ShellNext]_<<vars, history, ut>> => [U!Next]_(U!vars)
<1>1. UNCHANGED ut => UNCHANGED U!vars
  BY DEF ut, U!vars, U!recv, U!flags, U!history
<1>2. QED
  BY <1>1 DEF ShellNext, ParserStep, HistoryStep, UtStep

-----------------------------------------------------------------------------
\* The pieces of the file and what may have been read there.
Entry == [line : H!Command \cup {H!None}, part : {1, 2}, by : Process \X Nat]
Read == {<<>>} \cup {<<e>> : e \in Entry}
Choice == {<<>>} \cup (Nat \X Read)

\* The history's variables have their types.
HistoryTypes ==
  /\ file \in Seq(Entry)
  /\ at \in [Process -> {"prompt", "run", "list", "choose", "overrun", "over"}]
  /\ typed \in [Process -> H!Command \cup {H!None}]
  /\ what \in [Process -> H!Command \cup {H!None}]
  /\ cmd_counter \in [Process -> Nat]
  /\ listed \in [Process -> Seq(Entry)]
  /\ choice \in [Process -> Choice]
  /\ run \in [Process -> Nat]

\* What a process has printed is still the beginning of the file, and the process has
\* written nothing since.
StillThere(p) ==
  /\ Len(listed[p]) <= Len(file)
  /\ \A i \in 1 .. Len(file) :
       IF i <= Len(listed[p]) THEN file[i] = listed[p][i]
       ELSE file[i].by # <<p, run[p]>>

\* So it is from the listing to the choice.
ListedInv == \A p \in Process : at[p] = "choose" => StillThere(p)

HistoryInv == HistoryTypes /\ ListedInv /\ H!TriggersWhatWasListed

-----------------------------------------------------------------------------
\* A line is one or two entries of whoever typed it.
LEMMA PiecesOfALine ==
  ASSUME NEW line \in H!Command \cup {H!None}, NEW by \in Process \X Nat
  PROVE  /\ H!Pieces(line, by) \in Seq(Entry)
         /\ \A i \in 1 .. Len(H!Pieces(line, by)) : H!Pieces(line, by)[i].by = by
<1> DEFINE n == IF line \in Long THEN 2 ELSE 1
<1>1. n \in Nat /\ H!Pieces(line, by) = [i \in 1..n |-> H!Piece(line, i, by)]
  BY DEF H!Pieces
<1>2. \A i \in 1..n : H!Piece(line, i, by) \in Entry
  BY DEF H!Piece, Entry
<1>3. H!Pieces(line, by) \in Seq(Entry) /\ Len(H!Pieces(line, by)) = n
  BY <1>1, <1>2
<1>4. QED
  BY <1>1, <1>3 DEF H!Piece

\* A process appends: its own listing is over, and that of another stays where it was.
LEMMA AppendKeepsListings ==
  ASSUME HistoryTypes, ListedInv, NEW q \in Process, at[q] # "choose", H!record_command(q),
         NEW p \in Process, at[p] = "choose", listed'[p] = listed[p], run' = run
  PROVE  StillThere(p)'
<1>1. StillThere(p) /\ p # q
  BY DEF ListedInv
<1>2. CASE UNCHANGED file
  BY <1>1, <1>2 DEF StillThere
<1>3. CASE file' = file \o H!Pieces(typed[q], <<q, run[q]>>)
  <2> DEFINE new == H!Pieces(typed[q], <<q, run[q]>>)
  <2>1. new \in Seq(Entry) /\ \A i \in 1 .. Len(new) : new[i].by = <<q, run[q]>>
    BY PiecesOfALine DEF HistoryTypes
  <2>2. file' = file \o new
    BY <1>3
  <2> HIDE DEF new
  <2>3. Len(file') = Len(file) + Len(new) /\ Len(file) \in Nat /\ Len(new) \in Nat
    BY <2>1, <2>2 DEF HistoryTypes
  <2>4. \A i \in 1 .. Len(file') :
          file'[i] = IF i <= Len(file) THEN file[i] ELSE new[i - Len(file)]
    BY <2>1, <2>2, <2>3 DEF HistoryTypes
  <2>5. ASSUME NEW i \in 1 .. Len(file'), i > Len(file)
        PROVE  file'[i].by # <<p, run[p]>>
    <3>1. i - Len(file) \in 1 .. Len(new)
      BY <2>3, <2>5
    <3>2. file'[i].by = <<q, run[q]>>
      BY <2>1, <2>3, <2>4, <2>5, <3>1
    <3>3. QED
      BY <1>1, <3>2
  <2>6. Len(listed[p]) \in Nat
    BY DEF HistoryTypes
  <2>7. QED
    BY <1>1, <2>3, <2>4, <2>5, <2>6 DEF StillThere
<1>4. QED
  BY <1>2, <1>3 DEF H!record_command

\* record_command appends entries.
LEMMA AppendKeepsTypes ==
  ASSUME HistoryTypes, NEW q \in Process, H!record_command(q)
  PROVE  file' \in Seq(Entry) /\ cmd_counter' \in [Process -> Nat]
<1>1. H!Pieces(typed[q], <<q, run[q]>>) \in Seq(Entry)
  BY PiecesOfALine DEF HistoryTypes
<1>2. file' \in Seq(Entry)
  <2> DEFINE new == H!Pieces(typed[q], <<q, run[q]>>)
  <2>1. file \in Seq(Entry)
    BY DEF HistoryTypes
  <2>2. file' = file \/ file' = file \o new
    BY DEF H!record_command
  <2>3. new \in Seq(Entry)
    BY <1>1
  <2> HIDE DEF new
  <2>4. QED
    BY <2>1, <2>2, <2>3, ConcatProperties
<1>3. cmd_counter[q] + 1 \in Nat
  BY DEF HistoryTypes
<1>4. cmd_counter' \in [Process -> Nat]
  BY <1>3 DEF H!record_command, HistoryTypes
<1>5. QED
  BY <1>2, <1>4

\* What a process reads at an offset it has printed is what it printed.
LEMMA ReadsWhatWasListed ==
  ASSUME HistoryTypes, NEW p \in Process, StillThere(p), NEW c \in Nat
  PROVE  IF c < Len(listed[p]) THEN H!ReadAt(c) = <<listed[p][c + 1]>>
         ELSE \A i \in DOMAIN H!ReadAt(c) : H!ReadAt(c)[i].by # <<p, run[p]>>
<1>1. file \in Seq(Entry) /\ listed[p] \in Seq(Entry)
  BY DEF HistoryTypes
<1>2. DOMAIN file = 1 .. Len(file) /\ Len(file) \in Nat /\ Len(listed[p]) \in Nat
  BY <1>1
<1>3. CASE c + 1 <= Len(file)
  <2>1. H!ReadAt(c) = <<file[c + 1]>>
    BY <1>2, <1>3 DEF H!ReadAt
  <2>2. IF c + 1 <= Len(listed[p]) THEN file[c + 1] = listed[p][c + 1]
        ELSE file[c + 1].by # <<p, run[p]>>
    BY <1>2, <1>3 DEF StillThere
  <2>3. c < Len(listed[p]) <=> c + 1 <= Len(listed[p])
    BY <1>2
  <2>4. QED
    BY <2>1, <2>2, <2>3
<1>4. CASE ~(c + 1 <= Len(file))
  <2>1. H!ReadAt(c) = <<>>
    BY <1>2, <1>4 DEF H!ReadAt
  <2>2. ~(c < Len(listed[p]))
    BY <1>2, <1>4 DEF StillThere
  <2>3. QED
    BY <2>1, <2>2
<1>5. QED
  BY <1>3, <1>4

\* An empty file, of which nobody has listed anything.
LEMMA InitHistory == H!Init => HistoryInv
<1> SUFFICES ASSUME H!Init PROVE HistoryInv
  OBVIOUS
<1>1. <<>> \in Choice /\ <<>> \in Seq(Entry)
  BY DEF Choice
<1>2. HistoryTypes
  BY <1>1 DEF H!Init, HistoryTypes
<1>3. ListedInv /\ H!TriggersWhatWasListed
  BY DEF H!Init, ListedInv, H!TriggersWhatWasListed
<1>4. QED
  BY <1>2, <1>3 DEF HistoryInv

\* Every step of every process keeps HistoryInv, its being killed too.
LEMMA StepHistory == HistoryInv /\ [H!Next]_(H!vars) => HistoryInv'
<1> SUFFICES ASSUME HistoryInv, [H!Next]_(H!vars) PROVE HistoryInv'
  OBVIOUS
<1> USE DEF HistoryInv, HistoryTypes
<1>0. <<>> \in Choice /\ <<>> \in Seq(Entry)
  BY DEF Choice
<1>1. ASSUME NEW q \in Process, H!Type(q) PROVE HistoryInv'
  <2>1. HistoryTypes'
    BY <1>1 DEF H!Type, H!Goto, H!RunOf, H!Command
  <2>2. ListedInv' /\ H!TriggersWhatWasListed'
    BY <1>1 DEF H!Type, H!Goto, H!RunOf, ListedInv, StillThere, H!TriggersWhatWasListed
  <2>3. QED
    BY <2>1, <2>2
<1>2. ASSUME NEW q \in Process, H!Run(q) PROVE HistoryInv'
  BY <1>2 DEF H!Run, H!Goto, ListedInv, StillThere, H!TriggersWhatWasListed
<1>3. ASSUME NEW q \in Process, H!List(q) PROVE HistoryInv'
  <2>1. HistoryTypes'
    BY <1>0, <1>3 DEF H!List, H!Goto
  <2>2. ListedInv'
    <3> SUFFICES ASSUME NEW p \in Process, at'[p] = "choose" PROVE StillThere(p)'
      BY DEF ListedInv
    <3>1. CASE p = q
      <4>1. listed'[p] = file /\ file' = file
        BY <1>3, <3>1 DEF H!List
      <4>2. QED
        BY <4>1 DEF StillThere
    <3>2. CASE p # q
      <4>1. at[p] = "choose" /\ listed'[p] = listed[p] /\ UNCHANGED <<file, run>>
        BY <1>3, <3>2 DEF H!List, H!Goto
      <4>2. QED
        BY <4>1 DEF ListedInv, StillThere
    <3>3. QED
      BY <3>1, <3>2
  <2>3. H!TriggersWhatWasListed'
    BY <1>3 DEF H!List, H!TriggersWhatWasListed
  <2>4. QED
    BY <2>1, <2>2, <2>3
<1>4. ASSUME NEW q \in Process, H!Choose(q) PROVE HistoryInv'
  <2>1. CASE H!Goto(q, "over") /\ UNCHANGED <<choice, what>>
    BY <1>4, <2>1 DEF H!Choose, H!Goto, ListedInv, StillThere, H!TriggersWhatWasListed
  <2>2. CASE \E c \in 0 .. Len(listed[q]) :
               LET read == H!ReadAt(c)
                   whole == read # <<>> /\ read[1].line \notin Long
               IN /\ choice' = [choice EXCEPT ![q] = <<c, read>>]
                  /\ what' = [what EXCEPT ![q] = IF whole THEN read[1].line ELSE H!None]
                  /\ H!Goto(q, H!RunOf(what'[q]))
    <3>1. PICK c \in 0 .. Len(listed[q]) :
            /\ choice' = [choice EXCEPT ![q] = <<c, H!ReadAt(c)>>]
            /\ what' = [what EXCEPT ![q] =
                          IF H!ReadAt(c) # <<>> /\ H!ReadAt(c)[1].line \notin Long
                          THEN H!ReadAt(c)[1].line ELSE H!None]
            /\ H!Goto(q, H!RunOf(what'[q]))
      BY <2>2
    <3>2. c \in Nat /\ c + 1 \in Nat /\ DOMAIN file = 1 .. Len(file)
      OBVIOUS
    <3>3. H!ReadAt(c) = IF c + 1 <= Len(file) THEN <<file[c + 1]>> ELSE <<>>
      BY <3>2 DEF H!ReadAt
    <3>4. c + 1 <= Len(file) => file[c + 1] \in Entry
      BY <3>2
    <3>5. HistoryTypes'
      <4>1. H!ReadAt(c) \in Read
        BY <3>3, <3>4 DEF Read
      <4>2. H!ReadAt(c) # <<>> => H!ReadAt(c)[1].line \in H!Command \cup {H!None}
        <5>1. \A e \in Entry : e.line \in H!Command \cup {H!None}
          BY DEF Entry
        <5>2. H!ReadAt(c) # <<>> => H!ReadAt(c)[1] \in Entry
          BY <3>3, <3>4
        <5>3. QED
          BY <5>1, <5>2
      <4>3. choice' \in [Process -> Choice]
        <5>1. <<c, H!ReadAt(c)>> \in Choice
          BY <3>2, <4>1 DEF Choice
        <5>2. QED
          BY <3>1, <5>1
      <4>4. what' \in [Process -> H!Command \cup {H!None}]
        BY <3>1, <4>2
      <4>5. QED
        BY <1>4, <3>1, <4>3, <4>4 DEF H!Choose, H!Goto, H!RunOf
    <3>6. ListedInv'
      BY <1>4, <3>1 DEF H!Choose, H!Goto, H!RunOf, ListedInv, StillThere
    <3>7. H!TriggersWhatWasListed'
      <4>1. StillThere(q)
        BY <1>4 DEF H!Choose, ListedInv
      <4>2. IF c < Len(listed[q]) THEN H!ReadAt(c) = <<listed[q][c + 1]>>
            ELSE \A i \in DOMAIN H!ReadAt(c) : H!ReadAt(c)[i].by # <<q, run[q]>>
        BY <3>2, <4>1, ReadsWhatWasListed
      <4>3. choice' = [choice EXCEPT ![q] = <<c, H!ReadAt(c)>>]
        BY <3>1
      <4>4. ASSUME NEW p \in Process, choice'[p] # <<>>, p # q
            PROVE  choice'[p] = choice[p]
        BY <4>3, <4>4
      <4>5. choice'[q][1] = c /\ choice'[q][2] = H!ReadAt(c)
        BY <4>3
      <4>6. UNCHANGED <<listed, run>>
        BY <1>4 DEF H!Choose
      <4>7. QED
        BY <4>2, <4>4, <4>5, <4>6 DEF H!TriggersWhatWasListed
    <3>8. QED
      BY <3>5, <3>6, <3>7
  <2>3. QED
    BY <1>4, <2>1, <2>2 DEF H!Choose
<1>5. ASSUME NEW q \in Process, H!Over(q) PROVE HistoryInv'
  <2>1. HistoryTypes'
    <3>1. file' \in Seq(Entry) /\ cmd_counter' \in [Process -> Nat]
      BY <1>5, AppendKeepsTypes DEF H!Over
    <3>2. QED
      BY <1>0, <1>5, <3>1 DEF H!Over, H!Goto
  <2>2. ListedInv'
    <3> SUFFICES ASSUME NEW p \in Process, at'[p] = "choose" PROVE StillThere(p)'
      BY DEF ListedInv
    <3>1. at[p] = "choose" /\ listed'[p] = listed[p] /\ run' = run
      BY <1>5 DEF H!Over, H!Goto
    <3>2. CASE UNCHANGED file
      BY <3>1, <3>2 DEF ListedInv, StillThere
    <3>3. CASE H!record_command(q)
      BY <1>5, <3>1, <3>3, AppendKeepsListings DEF H!Over
    <3>4. QED
      BY <1>5, <3>2, <3>3 DEF H!Over
  <2>3. H!TriggersWhatWasListed'
    BY <1>5 DEF H!Over, H!TriggersWhatWasListed
  <2>4. QED
    BY <2>1, <2>2, <2>3
<1>6. ASSUME NEW q \in Process, H!Restart(q) PROVE HistoryInv'
  <2>1. HistoryTypes'
    BY <1>0, <1>6 DEF H!Restart, H!Goto
  <2>2. ListedInv' /\ H!TriggersWhatWasListed'
    BY <1>6 DEF H!Restart, H!Goto, ListedInv, StillThere, H!TriggersWhatWasListed
  <2>3. QED
    BY <2>1, <2>2
<1>7. CASE UNCHANGED H!vars
  BY <1>7 DEF H!vars, H!process, ListedInv, StillThere, H!TriggersWhatWasListed
<1>8. QED
  BY <1>1, <1>2, <1>3, <1>4, <1>5, <1>6, <1>7 DEF H!Next

\* "show history" runs the line it showed under the number chosen; the number behind
\* the last one gives nothing of the process's own.
THEOREM HistoryRunsWhatItShowed == ShellSpec => []TriggersWhatWasListed
<1>1. ShellInit => HistoryInv
  BY InitHistory DEF ShellInit
<1>2. HistoryInv /\ [ShellNext]_<<vars, history, ut>> => HistoryInv'
  BY StepHistory, ShellTakesHistorySteps
<1>3. HistoryInv => TriggersWhatWasListed
  BY DEF HistoryInv, TriggersWhatWasListed
<1>4. QED
  BY <1>1, <1>2, <1>3, PTL DEF ShellSpec

-----------------------------------------------------------------------------
\* The file and the lines of each run.

\* The first pieces of what run r of p typed: of them KeepsTheFirstOfEach is about.
Own(p, r) == [line : H!Command, part : {1}, by : {<<p, r>>}]

\* Run r of p has completed the lines done and counted n of them: those are its first
\* pieces in the file f, and no later run has any.
Kept(f, p, r, n, done) ==
  /\ n = Len(Selected(f, Own(p, r)))
  /\ n <= MAX_SAVED_CMDS /\ n <= Len(done) /\ n \in {MAX_SAVED_CMDS, Len(done)}
  /\ \A i \in 1 .. n : Selected(f, Own(p, r))[i].line = done[i]
  /\ \A k \in Nat : k > r => Selected(f, Own(p, k)) = <<>>

\* The lines that were typed.
RunsTypes ==
  /\ completed \in [Process -> Seq(H!Command)]
  /\ \A p \in Process : at[p] # "prompt" => typed[p] \in H!Command

\* What the file has of each process is its present run's.
RunsInv == \A p \in Process : Kept(file, p, run[p], cmd_counter[p], completed[p])

\* A line is one piece more for the run that typed it, of however many pieces it is,
\* and none for any other.
LEMMA SelectedPieces ==
  ASSUME NEW f \in Seq(Entry), NEW line \in H!Command, NEW by \in Process \X Nat,
         NEW p \in Process, NEW r \in Nat
  PROVE  /\ f \o H!Pieces(line, by) \in Seq(Entry)
         /\ Selected(f, Own(p, r)) \in Seq(Entry)
         /\ Selected(f \o H!Pieces(line, by), Own(p, r)) =
              IF by = <<p, r>> THEN Append(Selected(f, Own(p, r)), H!Piece(line, 1, by))
              ELSE Selected(f, Own(p, r))
<1> DEFINE a == H!Piece(line, 1, by)
           b == H!Piece(line, 2, by)
           g == Append(f, a)
<1>1. a \in Entry /\ b \in Entry
  BY DEF H!Piece, Entry
<1>2. a \in Own(p, r) <=> by = <<p, r>>
  BY DEF H!Piece, Own
<1>3. b \notin Own(p, r)
  BY DEF H!Piece, Own
<1>4. line \in Long => H!Pieces(line, by) = <<a, b>>
  BY DEF H!Pieces
<1>5. line \notin Long => H!Pieces(line, by) = <<a>>
  BY DEF H!Pieces
<1> HIDE DEF a, b
<1>6. g \in Seq(Entry) /\ Append(g, b) \in Seq(Entry)
  BY <1>1
<1>7. f \o <<a>> = g
  BY <1>1, AppendIsConcat
<1>8. f \o <<a, b>> = Append(g, b)
  <2>1. <<a, b>> \in Seq(Entry) /\ Len(<<a, b>>) = 2 /\ <<a, b>>[1] = a /\ <<a, b>>[2] = b
    BY <1>1
  <2>2. /\ f \o <<a, b>> \in Seq(Entry)
        /\ Len(f \o <<a, b>>) = Len(f) + 2
        /\ \A i \in 1 .. Len(f) + 2 :
             (f \o <<a, b>>)[i] = IF i <= Len(f) THEN f[i] ELSE <<a, b>>[i - Len(f)]
    <3>1. f \o <<a, b>> \in Seq(Entry)
      BY <2>1, ConcatProperties
    <3>2. Len(f \o <<a, b>>) = Len(f) + Len(<<a, b>>)
      BY <2>1, ConcatProperties
    <3>3. \A i \in 1 .. Len(f) + Len(<<a, b>>) :
            (f \o <<a, b>>)[i] = IF i <= Len(f) THEN f[i] ELSE <<a, b>>[i - Len(f)]
      BY <2>1, ConcatProperties
    <3>4. QED
      BY <2>1, <3>1, <3>2, <3>3
  <2>3. /\ Len(Append(g, b)) = Len(f) + 2
        /\ \A i \in 1 .. Len(f) + 2 :
             Append(g, b)[i] = IF i <= Len(f) THEN f[i]
                               ELSE IF i = Len(f) + 1 THEN a ELSE b
    BY <1>1, <1>6
  <2>4. \A i \in 1 .. Len(f) + 2 : (f \o <<a, b>>)[i] = Append(g, b)[i]
    <3> SUFFICES ASSUME NEW i \in 1 .. Len(f) + 2
                 PROVE  (f \o <<a, b>>)[i] = Append(g, b)[i]
      OBVIOUS
    <3>1. i > Len(f) => i = Len(f) + 1 \/ i = Len(f) + 2
      OBVIOUS
    <3>2. Len(f) \in Nat /\ (Len(f) + 1) - Len(f) = 1 /\ (Len(f) + 2) - Len(f) = 2
      OBVIOUS
    <3> DEFINE w == <<a, b>>
    <3>3. w[1] = a /\ w[2] = b
      BY <2>1
    <3>4. (f \o w)[i] = IF i <= Len(f) THEN f[i] ELSE w[i - Len(f)]
      BY <2>2
    <3> HIDE DEF w
    <3>5. (f \o w)[i] = Append(g, b)[i]
      BY <2>3, <3>1, <3>2, <3>3, <3>4
    <3>6. QED
      BY <3>5 DEF w
  <2>5. QED
    BY <1>6, <2>2, <2>3, <2>4, SeqEqual
<1> HIDE DEF g
<1>9. /\ Selected(f, Own(p, r)) \in Seq(Entry)
      /\ Selected(g, Own(p, r)) = IF a \in Own(p, r) THEN Append(Selected(f, Own(p, r)), a)
                                  ELSE Selected(f, Own(p, r))
  BY <1>1, SelectedAppend DEF g
<1>10. Selected(Append(g, b), Own(p, r)) = Selected(g, Own(p, r))
  BY <1>1, <1>3, <1>6, SelectedAppend
<1>11. QED
  BY <1>2, <1>4, <1>5, <1>6, <1>7, <1>8, <1>9, <1>10 DEF a

\* The run completes a line, which is counted and written.
LEMMA KeptOneMore ==
  ASSUME NEW f \in Seq(Entry), NEW p \in Process, NEW r \in Nat, NEW n \in Nat,
         NEW done \in Seq(H!Command), NEW line \in H!Command,
         Kept(f, p, r, n, done), n # MAX_SAVED_CMDS
  PROVE  Kept(f \o H!Pieces(line, <<p, r>>), p, r, n + 1, Append(done, line))
<1> DEFINE by == <<p, r>>
           g == f \o H!Pieces(line, by)
           mine == Selected(f, Own(p, r))
           piece == H!Piece(line, 1, by)
<1>1. by \in Process \X Nat
  OBVIOUS
<1>2. mine \in Seq(Entry) /\ Selected(g, Own(p, r)) = Append(mine, piece)
  BY <1>1, SelectedPieces
<1>3. piece \in Entry /\ piece.line = line
  BY DEF H!Piece, Entry
<1>4. ASSUME NEW k \in Nat, k > r PROVE Selected(g, Own(p, k)) = <<>>
  <2>1. by # <<p, k>>
    BY <1>4
  <2>2. Selected(g, Own(p, k)) = Selected(f, Own(p, k))
    BY <1>1, <2>1, SelectedPieces
  <2>3. QED
    BY <1>4, <2>2 DEF Kept
<1>5. /\ n = Len(mine) /\ n <= MAX_SAVED_CMDS /\ n <= Len(done)
      /\ n \in {MAX_SAVED_CMDS, Len(done)} /\ \A i \in 1 .. n : mine[i].line = done[i]
  BY DEF Kept
<1> HIDE DEF by, g, mine, piece
<1> DEFINE more == Append(mine, piece)
           all == Append(done, line)
<1>6. /\ Len(more) = n + 1 /\ more[n + 1] = piece
      /\ \A i \in 1 .. n : more[i] = mine[i]
  BY <1>2, <1>3, <1>5
<1>7. n = Len(done)
  BY <1>5
<1>8. /\ Len(all) = n + 1 /\ all[n + 1] = line
      /\ \A i \in 1 .. n : all[i] = done[i]
  BY <1>7
<1> HIDE DEF more, all
<1>9. \A i \in 1 .. n + 1 : more[i].line = all[i]
  BY <1>3, <1>5, <1>6, <1>8
<1>10. n + 1 <= MAX_SAVED_CMDS
  BY <1>5, ShellAssumption
<1>11. Kept(g, p, r, n + 1, all)
  <2>1. Selected(g, Own(p, r)) = more
    BY <1>2 DEF more
  <2>2. n + 1 \in {MAX_SAVED_CMDS, Len(all)} /\ n + 1 <= Len(all)
    BY <1>8
  <2>3. QED
    BY <1>4, <1>6, <1>9, <1>10, <2>1, <2>2 DEF Kept
<1>12. QED
  BY <1>11 DEF g, all, by

\* It completes one of which there is no count any more.
LEMMA KeptWhenFull ==
  ASSUME NEW f \in Seq(Entry), NEW p \in Process, NEW r \in Nat,
         NEW done \in Seq(H!Command), NEW line \in H!Command,
         Kept(f, p, r, MAX_SAVED_CMDS, done)
  PROVE  Kept(f, p, r, MAX_SAVED_CMDS, Append(done, line))
<1> DEFINE all == Append(done, line)
<1>1. /\ Len(all) = Len(done) + 1 /\ Len(done) \in Nat
      /\ \A i \in 1 .. Len(done) : all[i] = done[i]
  OBVIOUS
<1> HIDE DEF all
<1>2. Kept(f, p, r, MAX_SAVED_CMDS, all)
  BY <1>1, ShellAssumption DEF Kept
<1>3. QED
  BY <1>2 DEF all

\* Another process writes.
LEMMA KeptFromOthers ==
  ASSUME NEW f \in Seq(Entry), NEW p \in Process, NEW r \in Nat, NEW n, NEW done,
         NEW line \in H!Command, NEW q \in Process, q # p, NEW k \in Nat,
         Kept(f, p, r, n, done)
  PROVE  Kept(f \o H!Pieces(line, <<q, k>>), p, r, n, done)
<1> DEFINE g == f \o H!Pieces(line, <<q, k>>)
<1>1. ASSUME NEW m \in Nat PROVE Selected(g, Own(p, m)) = Selected(f, Own(p, m))
  <2>1. <<q, k>> \in Process \X Nat /\ <<q, k>> # <<p, m>>
    OBVIOUS
  <2>2. QED
    BY <2>1, SelectedPieces
<1> HIDE DEF g
<1>2. Kept(g, p, r, n, done)
  BY <1>1 DEF Kept
<1>3. QED
  BY <1>2 DEF g

\* The process is started again: the run after it has nothing in the file yet.
LEMMA KeptByTheNextRun ==
  ASSUME NEW f, NEW p, NEW r \in Nat, NEW n, NEW done, Kept(f, p, r, n, done)
  PROVE  Kept(f, p, r + 1, 0, <<>>)
<1>1. r + 1 \in Nat /\ r + 1 > r /\ \A k \in Nat : k > r + 1 => k > r
  OBVIOUS
<1>2. Selected(f, Own(p, r + 1)) = <<>> /\ \A k \in Nat : k > r + 1 => Selected(f, Own(p, k)) = <<>>
  BY <1>1 DEF Kept
<1>3. Len(<<>>) = 0
  OBVIOUS
<1>4. 0 <= MAX_SAVED_CMDS /\ 1 .. 0 = {}
  BY ShellAssumption
<1>5. QED
  BY <1>2, <1>3, <1>4 DEF Kept

\* Nothing is in the file and nothing is completed.
LEMMA InitKept == H!Init => RunsTypes /\ RunsInv
<1> SUFFICES ASSUME H!Init PROVE RunsTypes /\ RunsInv
  OBVIOUS
<1>1. <<>> \in Seq(H!Command)
  OBVIOUS
<1>2. RunsTypes
  BY <1>1 DEF H!Init, RunsTypes
<1>4. ASSUME NEW p \in Process PROVE Kept(<<>>, p, 1, 0, <<>>)
  <2>1. \A k \in Nat : Selected(<<>>, Own(p, k)) = <<>>
    BY SelectedEmpty
  <2>2. Len(<<>>) = 0 /\ 1 .. 0 = {} /\ 0 <= MAX_SAVED_CMDS /\ 1 \in Nat
    BY ShellAssumption
  <2>3. QED
    BY <2>1, <2>2 DEF Kept
<1>5. RunsInv
  <2> SUFFICES ASSUME NEW p \in Process
               PROVE  Kept(file, p, run[p], cmd_counter[p], completed[p])
    BY DEF RunsInv
  <2>1. file = <<>> /\ run[p] = 1 /\ cmd_counter[p] = 0 /\ completed[p] = <<>>
    BY DEF H!Init
  <2>2. QED
    BY <1>4, <2>1
<1>6. QED
  BY <1>2, <1>5

\* Every step of every process keeps the bookkeeping of the runs.
LEMMA StepKept ==
  ASSUME HistoryTypes, RunsTypes, RunsInv, [H!Next]_(H!vars)
  PROVE  RunsTypes' /\ RunsInv'
<1>1. ASSUME UNCHANGED <<file, run, cmd_counter, completed>> PROVE RunsInv'
  BY <1>1 DEF RunsInv
<1>2. ASSUME UNCHANGED completed, \A p \in Process : at'[p] # "prompt" => typed'[p] \in H!Command
      PROVE  RunsTypes'
  BY <1>2 DEF RunsTypes
<1>3. ASSUME NEW q \in Process, H!Type(q) PROVE RunsTypes' /\ RunsInv'
  <2>1. \A p \in Process : at'[p] # "prompt" => typed'[p] \in H!Command
    BY <1>3 DEF H!Type, H!Goto, RunsTypes, HistoryTypes
  <2>2. QED
    BY <1>1, <1>2, <1>3, <2>1 DEF H!Type
<1>4. ASSUME NEW q \in Process, H!Run(q) \/ H!List(q) \/ H!Choose(q)
      PROVE  RunsTypes' /\ RunsInv'
  <2>1. at[q] # "prompt" /\ UNCHANGED <<typed, file, run, cmd_counter, completed>>
    BY <1>4 DEF H!Run, H!List, H!Choose
  <2>2. \E where : at' = [at EXCEPT ![q] = where]
    BY <1>4 DEF H!Run, H!List, H!Choose, H!Goto
  <2>3. \A p \in Process : at'[p] # "prompt" => typed'[p] \in H!Command
    BY <2>1, <2>2 DEF RunsTypes, HistoryTypes
  <2>4. QED
    BY <1>1, <1>2, <2>1, <2>3
<1>5. ASSUME NEW q \in Process, H!Over(q) PROVE RunsTypes' /\ RunsInv'
  <2>1. typed[q] \in H!Command
    BY <1>5 DEF H!Over, RunsTypes
  <2>2. completed' = completed \/ completed' = [completed EXCEPT ![q] = Append(@, typed[q])]
    BY <1>5 DEF H!Over
  <2>3. completed' \in [Process -> Seq(H!Command)]
    BY <2>1, <2>2 DEF RunsTypes
  <2>4. \A p \in Process : at'[p] # "prompt" => typed'[p] \in H!Command
    BY <1>5 DEF H!Over, H!Goto, RunsTypes, HistoryTypes
  <2>5. UNCHANGED run
    BY <1>5 DEF H!Over
  <2>6. ASSUME UNCHANGED <<file, cmd_counter, completed>> PROVE RunsInv'
    BY <1>1, <2>5, <2>6
  <2>7. ASSUME H!record_command(q),
               completed' = [completed EXCEPT ![q] = Append(@, typed[q])],
               NEW p \in Process
        PROVE  Kept(file', p, run'[p], cmd_counter'[p], completed'[p])
    <3> DEFINE f == file
               r == run[p]
               n == cmd_counter[p]
               done == completed[p]
               line == typed[q]
    <3>1. /\ f \in Seq(Entry) /\ r \in Nat /\ n \in Nat /\ done \in Seq(H!Command)
          /\ line \in H!Command /\ run[q] \in Nat /\ Kept(f, p, r, n, done)
      BY <2>1 DEF HistoryTypes, RunsTypes, RunsInv
    <3>2. CASE p = q
      <4>1. CASE n = MAX_SAVED_CMDS
        <5>1. /\ file' = f /\ run'[p] = r /\ cmd_counter'[p] = MAX_SAVED_CMDS
              /\ completed'[p] = Append(done, line)
          BY <2>5, <2>7, <3>2, <4>1 DEF H!record_command, RunsTypes
        <5>2. Kept(f, p, r, MAX_SAVED_CMDS, done)
          BY <3>1, <4>1
        <5> HIDE DEF f, r, n, done, line
        <5>3. Kept(f, p, r, MAX_SAVED_CMDS, Append(done, line))
          BY <3>1, <5>2, KeptWhenFull
        <5>4. QED
          BY <5>1, <5>3
      <4>2. CASE n # MAX_SAVED_CMDS
        <5>1. /\ file' = f \o H!Pieces(line, <<p, r>>) /\ run'[p] = r
              /\ cmd_counter'[p] = n + 1 /\ completed'[p] = Append(done, line)
          BY <2>5, <2>7, <3>2, <4>2 DEF H!record_command, RunsTypes, HistoryTypes
        <5> HIDE DEF f, r, n, done, line
        <5>2. Kept(f \o H!Pieces(line, <<p, r>>), p, r, n + 1, Append(done, line))
          BY <3>1, <4>2, KeptOneMore
        <5>3. QED
          BY <5>1, <5>2
      <4>3. QED
        BY <4>1, <4>2
    <3>3. CASE p # q
      <4>1. run'[p] = r /\ cmd_counter'[p] = n /\ completed'[p] = done
        BY <2>5, <2>7, <3>3 DEF H!record_command, RunsTypes, HistoryTypes
      <4>2. file' = f \/ file' = f \o H!Pieces(line, <<q, run[q]>>)
        BY <2>7 DEF H!record_command
      <4> HIDE DEF f, r, n, done, line
      <4>3. Kept(f \o H!Pieces(line, <<q, run[q]>>), p, r, n, done)
        BY <3>1, <3>3, KeptFromOthers
      <4>4. QED
        BY <3>1, <4>1, <4>2, <4>3
    <3>4. QED
      BY <3>2, <3>3
  <2>8. RunsInv'
    BY <1>5, <2>6, <2>7 DEF H!Over, RunsInv
  <2>9. QED
    BY <2>3, <2>4, <2>8 DEF RunsTypes
<1>6. ASSUME NEW q \in Process, H!Restart(q) PROVE RunsTypes' /\ RunsInv'
  <2>1. completed' = [completed EXCEPT ![q] = <<>>] /\ <<>> \in Seq(H!Command)
    BY <1>6 DEF H!Restart
  <2>2. completed' \in [Process -> Seq(H!Command)]
    BY <2>1 DEF RunsTypes
  <2>3. \A p \in Process : at'[p] # "prompt" => typed'[p] \in H!Command
    BY <1>6 DEF H!Restart, H!Goto, RunsTypes, HistoryTypes
  <2>4. ASSUME NEW p \in Process
        PROVE  Kept(file', p, run'[p], cmd_counter'[p], completed'[p])
    <3> DEFINE f == file
               r == run[p]
               n == cmd_counter[p]
               done == completed[p]
    <3>1. r \in Nat /\ Kept(f, p, r, n, done)
      BY DEF HistoryTypes, RunsInv
    <3>2. file' = f
      BY <1>6 DEF H!Restart
    <3>3. CASE p = q
      <4>1. run'[p] = r + 1 /\ cmd_counter'[p] = 0 /\ completed'[p] = <<>>
        BY <1>6, <3>3 DEF H!Restart, HistoryTypes, RunsTypes
      <4> HIDE DEF f, r, n, done
      <4>2. Kept(f, p, r + 1, 0, <<>>)
        BY <3>1, KeptByTheNextRun
      <4>3. QED
        BY <3>2, <4>1, <4>2
    <3>4. CASE p # q
      <4>1. run'[p] = r /\ cmd_counter'[p] = n /\ completed'[p] = done
        BY <1>6, <3>4 DEF H!Restart, HistoryTypes, RunsTypes
      <4>2. QED
        BY <3>1, <3>2, <4>1
    <3>5. QED
      BY <3>3, <3>4
  <2>5. QED
    BY <2>2, <2>3, <2>4 DEF RunsTypes, RunsInv
<1>7. CASE UNCHANGED H!vars
  BY <1>1, <1>2, <1>7 DEF H!vars, H!process, RunsTypes
<1>8. QED
  BY <1>3, <1>4, <1>5, <1>6, <1>7 DEF H!Next

\* The least of two numbers, one of which n is and neither of which it exceeds.
LEMMA LeastOfTwo ==
  ASSUME NEW a \in Nat, NEW b \in Nat, NEW n \in {a, b}, n <= a, n <= b
  PROVE  n = H!Min({a, b})
<1>1. n \in {a, b} /\ \A y \in {a, b} : n <= y
  OBVIOUS
<1>2. ASSUME NEW x \in {a, b}, \A y \in {a, b} : x <= y PROVE x = n
  <2>1. x <= n /\ n <= x /\ x \in Nat /\ n \in Nat
    BY <1>1, <1>2
  <2>2. QED
    BY <2>1
<1>3. n = CHOOSE x \in {a, b} : \A y \in {a, b} : x <= y
  BY <1>1, <1>2
<1>4. QED
  BY <1>3 DEF H!Min

\* The history selects as the parser does.
LEMMA SameSelected == \A s, S : H!Selected(s, S) = Selected(s, S)
BY DEF H!Selected, Selected

\* What is kept is a beginning of what was completed, and as long as there is room for.
LEMMA KeptSaysIt == HistoryTypes /\ RunsTypes /\ RunsInv => H!KeepsTheFirstOfEach
<1> SUFFICES ASSUME HistoryTypes, RunsTypes, RunsInv, NEW p \in Process
             PROVE  LET mine == H!Of(p, run[p])
                        kept == [i \in DOMAIN mine |-> mine[i].line]
                    IN /\ H!IsPrefix(kept, completed[p])
                       /\ Len(kept) = H!Min({MAX_SAVED_CMDS, Len(completed[p])})
  BY DEF H!KeepsTheFirstOfEach
<1> DEFINE mine == H!Of(p, run[p])
           kept == [i \in DOMAIN mine |-> mine[i].line]
           n == cmd_counter[p]
           done == completed[p]
<1>1. n \in Nat /\ done \in Seq(H!Command) /\ Kept(file, p, run[p], n, done)
  BY DEF HistoryTypes, RunsTypes, RunsInv
<1>2. mine = Selected(file, Own(p, run[p]))
  BY SameSelected DEF H!Of, Own
<1>3. mine \in Seq(Entry)
  BY <1>2, SelectedType DEF HistoryTypes
<1>4. /\ n = Len(mine) /\ n <= MAX_SAVED_CMDS /\ n <= Len(done)
      /\ n \in {MAX_SAVED_CMDS, Len(done)} /\ \A i \in 1 .. n : mine[i].line = done[i]
  BY <1>1, <1>2 DEF Kept
<1> HIDE DEF mine, n, done
<1>5. DOMAIN mine = 1 .. n
  BY <1>3, <1>4
<1>6. kept = [i \in 1 .. n |-> done[i]]
  BY <1>4, <1>5
<1>7. Len(kept) = n /\ Len(done) \in Nat
  BY <1>1, <1>6
<1> HIDE DEF kept
<1>8. H!IsPrefix(kept, done)
  <2>1. SubSeq(kept, 1, n) = [i \in 1 .. n |-> done[i]]
    BY <1>1, <1>6
  <2>2. SubSeq(done, 1, n) = [i \in 1 .. n |-> done[i]]
    BY <1>1, <1>4
  <2>3. QED
    BY <1>4, <1>7, <2>1, <2>2 DEF H!IsPrefix
<1>9. Len(kept) = H!Min({MAX_SAVED_CMDS, Len(done)})
  BY <1>1, <1>4, <1>7, LeastOfTwo, ShellAssumption
<1>10. QED
  BY <1>8, <1>9 DEF mine, kept, n, done

\* Each run of a process has the first commands it completed in the file, in order and
\* once each, up to MAX_SAVED_CMDS, whatever other processes append, whenever any is
\* killed and whatever the history itself has run.
THEOREM HistoryKeepsTheFirst == ShellSpec => []KeepsTheFirstOfEach
<1> DEFINE Inv == HistoryInv /\ RunsTypes /\ RunsInv
<1>1. ShellInit => Inv
  BY InitHistory, InitKept DEF ShellInit
<1>2. Inv /\ [ShellNext]_<<vars, history, ut>> => Inv'
  <2> SUFFICES ASSUME Inv, [ShellNext]_<<vars, history, ut>> PROVE Inv'
    OBVIOUS
  <2>1. [H!Next]_(H!vars)
    BY ShellTakesHistorySteps
  <2>2. HistoryInv'
    BY <2>1, StepHistory
  <2>3. RunsTypes' /\ RunsInv'
    BY <2>1, StepKept DEF HistoryInv
  <2>4. QED
    BY <2>2, <2>3
<1>3. Inv => KeepsTheFirstOfEach
  BY KeptSaysIt DEF HistoryInv, KeepsTheFirstOfEach
<1> HIDE DEF Inv
<1>4. QED
  BY <1>1, <1>2, <1>3, PTL DEF ShellSpec

-----------------------------------------------------------------------------
\* At most one text, as in a queue of one message.
AtMostOne(s) == s = <<>> \/ s = <<s[1]>>

\* What the parser has received says what the show has written; of a show that was
\* silent it has nothing.
Received == \/ ut_parser_recv_buff = due
            \/ ut_parser_recv_buff = <<>> /\ due[1].lines = {}

\* A show of a running test case: its output is still to be written, or in the queue,
\* or there is none.
OnItsWay == \/ cmd.outs = due /\ mq = <<>>
            \/ cmd.outs = <<>> /\ mq = due
            \/ cmd.outs = <<>> /\ mq = <<>> /\ due[1].lines = {}

\* The queue is empty but between the write of a show in a test case and its return.
QueueInv ==
  /\ cmd = [show |-> cmd.show, outs |-> cmd.outs]
  /\ place # "cmd" => mq = <<>>
  /\ place = "cmd" => \/ cmd.outs = <<>>
                      \/ cmd.outs = <<Head(cmd.outs)>> /\ mq = <<>>
  /\ place = "cmd" /\ mq # <<>> => cmd.show /\ TC_RUNNING /\ mq = <<mq[1]>>
  /\ place = "cmd" /\ ~cmd.show /\ TC_RUNNING => cmd.outs = <<>>

\* What the parser has, or will have, is what the show wrote.
VerdictInv ==
  /\ AtMostOne(due)
  /\ TC_RUNNING /\ place = "cmd" /\ cmd.show => due # <<>> /\ OnItsWay
  /\ TC_RUNNING /\ due # <<>> /\ (place = "line" \/ (place = "cmd" /\ ~cmd.show)) => Received

\* The results of the one test run, all of them right.
Result == [pass : BOOLEAN, right : {TRUE}]
UtFrame == [tc_no : {0, 1}, results : Seq(Result)]

\* One call of run_test_case while a script runs.
UtFramesInv ==
  /\ frames \in {<<>>} \cup {<<f>> : f \in UtFrame}
  /\ place = "prompt" => frames = <<>>
  /\ place \in {"line", "skip", "cmd"} => frames # <<>>

\* Of runs in which shows answer at once and nothing else writes.
TameInv ==
  tame => ~ut_parser_debug /\ late = <<>> /\ QueueInv /\ VerdictInv /\ UtFramesInv

-----------------------------------------------------------------------------
\* Nothing is in the queue, or the run is not one the properties are about.
LEMMA InitTame == U!Init => TameInv
<1> SUFFICES ASSUME U!Init, tame PROVE TameInv
  BY DEF TameInv
<1>1. mq = <<>>
  BY DEF U!Init
<1>2. cmd = [show |-> cmd.show, outs |-> cmd.outs] /\ cmd.outs = <<>>
  BY DEF U!Init, U!Idle
<1>3. QueueInv
  BY <1>1, <1>2 DEF U!Init, QueueInv
<1>4. VerdictInv /\ UtFramesInv
  BY DEF U!Init, VerdictInv, UtFramesInv, AtMostOne
<1>5. QED
  BY <1>3, <1>4 DEF U!Init, TameInv

\* A text and what was received of it match the same patterns.
LEMMA SameVerdict ==
  ASSUME Received, AtMostOne(due), due # <<>>, NEW p
  PROVE  U!pattern_match(ut_parser_recv_buff, p) = U!pattern_match(due, p)
<1>1. CASE ut_parser_recv_buff = due
  BY <1>1
<1>2. CASE ut_parser_recv_buff = <<>> /\ due[1].lines = {}
  <2>1. ~U!pattern_match(ut_parser_recv_buff, p)
    BY <1>2 DEF U!pattern_match
  <2>2. ~U!pattern_match(due, p)
    BY <1>2 DEF U!pattern_match, U!Contains
  <2>3. QED
    BY <2>1, <2>2 DEF U!pattern_match
<1>3. QED
  BY <1>1, <1>2 DEF Received

\* run_test_case returns, to the prompt when its call is the only one.
LEMMA LeaveIsToPrompt ==
  ASSUME UtFramesInv, place \in {"line", "skip"}, U!Leave
  PROVE  UtFramesInv'
<1>1. PICK f \in UtFrame : frames = <<f>>
  BY DEF UtFramesInv
<1>2. Len(frames) = 1 /\ Tail(frames) = <<>>
  BY <1>1
<1>3. frames' = <<>> /\ place' = "prompt"
  BY <1>2 DEF U!Leave
<1>4. QED
  BY <1>3 DEF UtFramesInv

\* Every line of a script and every write of a handler keeps TameInv.
LEMMA StepTame ==
  ASSUME TameInv, [U!Next]_(U!vars)
  PROVE  TameInv'
<1> SUFFICES ASSUME tame' PROVE TameInv'
  BY DEF TameInv
<1> USE DEF TameInv, U!recv, U!flags, U!history
<1>1. CASE U!UserRuns
  <2>1. tame /\ ~ut_parser_debug' /\ late' = <<>>
    BY <1>1 DEF U!UserRuns, U!run_test_case
  <2>2. QueueInv'
    BY <1>1, <2>1 DEF U!UserRuns, U!run_test_case, QueueInv
  <2>3. VerdictInv'
    BY <1>1, <2>1 DEF U!UserRuns, U!run_test_case, QueueInv, VerdictInv, AtMostOne,
           Received, OnItsWay
  <2>4. UtFramesInv'
    <3>1. PICK tc_no \in {0, 1} : U!run_test_case(tc_no)
      BY <1>1 DEF U!UserRuns
    <3>2. frames = <<>>
      BY <1>1, <2>1 DEF U!UserRuns, UtFramesInv
    <3>3. CASE place' = "failed" /\ UNCHANGED frames
      BY <3>2, <3>3 DEF UtFramesInv
    <3>4. CASE /\ place' = "line"
               /\ frames' = <<[tc_no |-> tc_no, results |-> <<>>]>> \o frames
      <4> DEFINE f == [tc_no |-> tc_no, results |-> <<>>]
      <4>1. f \in UtFrame
        BY DEF UtFrame
      <4>2. frames' = <<f>>
        BY <3>2, <3>4
      <4> HIDE DEF f
      <4>3. frames' \in {<<g>> : g \in UtFrame} /\ frames' # <<>>
        BY <4>1, <4>2
      <4>4. QED
        BY <3>4, <4>3 DEF UtFramesInv
    <3>5. QED
      BY <3>1, <3>3, <3>4 DEF U!run_test_case
  <2>5. QED
    BY <2>1, <2>2, <2>3, <2>4
<1>2. CASE U!EndOfFile
  <2>1. tame /\ ~ut_parser_debug' /\ late' = <<>>
    BY <1>2 DEF U!EndOfFile, U!Leave
  <2>2. QueueInv'
    BY <1>2, <2>1 DEF U!EndOfFile, U!Leave, QueueInv
  <2>3. VerdictInv'
    BY <1>2, <2>1 DEF U!EndOfFile, U!Leave, QueueInv, VerdictInv, AtMostOne, Received,
           OnItsWay
  <2>4. UtFramesInv'
    BY <1>2, <2>1, LeaveIsToPrompt DEF U!EndOfFile
  <2>5. QED
    BY <2>1, <2>2, <2>3, <2>4
<1>3. CASE U!ABORT
  <2>1. tame /\ ~ut_parser_debug' /\ late' = <<>>
    BY <1>3 DEF U!ABORT, U!Leave, U!Reading, U!NextLine
  <2>2. QueueInv'
    BY <1>3, <2>1 DEF U!ABORT, U!Leave, U!Reading, U!NextLine, QueueInv
  <2>3. VerdictInv'
    BY <1>3, <2>1 DEF U!ABORT, U!Leave, U!Reading, U!NextLine, QueueInv, VerdictInv,
           AtMostOne, Received, OnItsWay
  <2>4. UtFramesInv'
    BY <1>3, <2>1, LeaveIsToPrompt DEF U!ABORT, U!Reading
  <2>5. QED
    BY <2>1, <2>2, <2>3, <2>4
<1>4. CASE U!TESTCASE_BEGIN
  <2>1. tame /\ ~ut_parser_debug' /\ late' = <<>>
    BY <1>4 DEF U!TESTCASE_BEGIN, U!Found, U!Innermost, U!Reading, U!NextLine
  <2>2. QueueInv'
    BY <1>4, <2>1 DEF U!TESTCASE_BEGIN, U!Found, U!Innermost, U!Reading, U!NextLine, QueueInv
  <2>3. VerdictInv'
    BY <1>4, <2>1 DEF U!TESTCASE_BEGIN, U!Found, U!Innermost, U!Reading, U!NextLine, QueueInv,
           VerdictInv, AtMostOne, Received, OnItsWay
  <2>4. UtFramesInv'
    BY <1>4, <2>1 DEF U!TESTCASE_BEGIN, U!Found, U!Innermost, U!Reading, U!NextLine,
           UtFramesInv, UtFrame
  <2>5. QED
    BY <2>1, <2>2, <2>3, <2>4
<1>5. CASE U!SkipToTestcase
  <2>1. tame /\ ~ut_parser_debug' /\ late' = <<>>
    BY <1>5 DEF U!SkipToTestcase, U!Found
  <2>2. QueueInv'
    BY <1>5, <2>1 DEF U!SkipToTestcase, U!Found, QueueInv
  <2>3. VerdictInv'
    BY <1>5, <2>1 DEF U!SkipToTestcase, U!Found, QueueInv, VerdictInv, AtMostOne,
           Received, OnItsWay
  <2>4. UtFramesInv'
    BY <1>5, <2>1 DEF U!SkipToTestcase, U!Found, UtFramesInv, UtFrame
  <2>5. QED
    BY <2>1, <2>2, <2>3, <2>4
<1>6. CASE U!TESTCASE_END
  <2>1. tame /\ ~ut_parser_debug' /\ late' = <<>>
    BY <1>6 DEF U!TESTCASE_END, U!Leave, U!Innermost, U!Reading, U!NextLine
  <2>2. QueueInv'
    BY <1>6, <2>1 DEF U!TESTCASE_END, U!Leave, U!Innermost, U!Reading, U!NextLine, QueueInv
  <2>3. VerdictInv'
    BY <1>6, <2>1 DEF U!TESTCASE_END, U!Leave, U!Innermost, U!Reading, U!NextLine, QueueInv,
           VerdictInv, AtMostOne, Received, OnItsWay
  <2>4. UtFramesInv'
    <3>1. CASE U!Leave
      BY <1>6, <2>1, <3>1, LeaveIsToPrompt DEF U!TESTCASE_END, U!Reading
    <3>2. CASE frames' = [frames EXCEPT ![1].results = <<>>] /\ UNCHANGED place
      <4>1. PICK f \in UtFrame : frames = <<f>>
        BY <1>6, <2>1 DEF U!TESTCASE_END, U!Reading, UtFramesInv
      <4>2. frames' = <<[f EXCEPT !.results = <<>>]>>
        BY <3>2, <4>1
      <4>3. [f EXCEPT !.results = <<>>] \in UtFrame
        <5>1. <<>> \in Seq(Result)
          OBVIOUS
        <5>2. QED
          BY <5>1 DEF UtFrame
      <4>4. QED
        BY <1>6, <3>2, <4>2, <4>3 DEF U!TESTCASE_END, U!Reading, UtFramesInv
    <3>3. QED
      BY <1>6, <3>1, <3>2 DEF U!TESTCASE_END
  <2>5. QED
    BY <2>1, <2>2, <2>3, <2>4
<1>7. CASE U!CMD_show
  <2>1. tame /\ ~ut_parser_debug' /\ late' = <<>>
    BY <1>7 DEF U!CMD_show, U!Reading, U!NextLine, U!Text
  <2>2. \E n \in {0, 1} : \E text :
          /\ cmd' = [show |-> TRUE, outs |-> [i \in 1..n |-> text]]
          /\ due' = <<IF n = 0 THEN U!Text(serial + 1, {}) ELSE text>>
    <3>1. PICK ls \in Output :
            \/ \E n \in 0..2 :
                 /\ cmd' = [show |-> TRUE, outs |-> [i \in 1..n |-> U!Text(serial + 1, ls)]]
                 /\ due' = <<IF n = 0 THEN U!Text(serial + 1, {}) ELSE U!Text(serial + 1, ls)>>
                 /\ tame' = (tame /\ n < 2)
            \/ tame' = FALSE
      BY <1>7 DEF U!CMD_show
    <3>2. PICK n \in 0..2 :
            /\ cmd' = [show |-> TRUE, outs |-> [i \in 1..n |-> U!Text(serial + 1, ls)]]
            /\ due' = <<IF n = 0 THEN U!Text(serial + 1, {}) ELSE U!Text(serial + 1, ls)>>
            /\ tame' = (tame /\ n < 2)
      BY <3>1
    <3>3. n \in {0, 1}
      <4>1. n < 2
        BY <3>2, Zenon
      <4>2. QED
        BY <4>1
    <3>4. QED
      BY <3>2, <3>3
  <2> PICK n \in {0, 1} : \E text :
        /\ cmd' = [show |-> TRUE, outs |-> [i \in 1..n |-> text]]
        /\ due' = <<IF n = 0 THEN U!Text(serial + 1, {}) ELSE text>>
    BY <2>2
  <2>3. PICK text :
          /\ cmd' = [show |-> TRUE, outs |-> [i \in 1..n |-> text]]
          /\ due' = <<IF n = 0 THEN U!Text(serial + 1, {}) ELSE text>>
    OBVIOUS
  <2>4. mq' = <<>> /\ place' = "cmd"
    BY <1>7, <2>1 DEF U!CMD_show, U!Reading, QueueInv
  <2>5. ASSUME n = 0 PROVE QueueInv' /\ VerdictInv'
    <3>1. cmd' = [show |-> TRUE, outs |-> <<>>] /\ due' = <<U!Text(serial + 1, {})>>
      BY <2>3, <2>5
    <3>2. due'[1].lines = {}
      BY <3>1 DEF U!Text
    <3>3. QED
      BY <2>4, <3>1, <3>2 DEF QueueInv, VerdictInv, AtMostOne, OnItsWay
  <2>6. ASSUME n = 1 PROVE QueueInv' /\ VerdictInv'
    <3>1. [i \in 1..n |-> text] = <<text>>
      BY <2>6
    <3>2. cmd' = [show |-> TRUE, outs |-> <<text>>]
      BY <2>3, <3>1, Zenon
    <3>3. due' = <<text>>
      BY <2>3, <2>6
    <3>4. QED
      BY <2>4, <3>2, <3>3 DEF QueueInv, VerdictInv, AtMostOne, OnItsWay
  <2>7. UtFramesInv'
    BY <1>7, <2>1 DEF U!CMD_show, U!Reading, UtFramesInv
  <2>8. QED
    BY <2>1, <2>5, <2>6, <2>7
<1>8. CASE U!CMD_other
  <2>1. tame /\ ~ut_parser_debug' /\ late' = <<>>
    BY <1>8 DEF U!CMD_other, U!Reading, U!NextLine, U!Text
  <2>2. /\ cmd' = [show |-> FALSE, outs |-> cmd'.outs]
        /\ \/ cmd'.outs = <<>>
           \/ cmd'.outs = <<Head(cmd'.outs)>> /\ ~TC_RUNNING
    <3>1. CASE cmd' = U!Idle
      <4>1. cmd' = [show |-> FALSE, outs |-> <<>>]
        BY <3>1 DEF U!Idle
      <4>2. cmd'.outs = <<>>
        BY <4>1
      <4>3. QED
        BY <4>1, <4>2, Zenon
    <3>2. CASE /\ cmd' = [show |-> FALSE, outs |-> <<U!Text(serial + 1, {Pattern})>>]
               /\ tame' = (tame /\ ~TC_RUNNING)
      <4>1. ~TC_RUNNING
        BY <3>2, Zenon
      <4>2. QED
        BY <3>2, <4>1
    <3>3. QED
      BY <1>8, <3>1, <3>2 DEF U!CMD_other
  <2>3. mq' = <<>> /\ place = "line" /\ place' = "cmd"
    BY <1>8, <2>1 DEF U!CMD_other, U!Reading, QueueInv
  <2>4. UNCHANGED <<TC_RUNNING, ut_parser_recv_buff, due>>
    BY <1>8 DEF U!CMD_other
  <2>5. QueueInv'
    BY <2>2, <2>3, <2>4 DEF QueueInv
  <2>6. VerdictInv'
    BY <2>1, <2>2, <2>3, <2>4 DEF VerdictInv, AtMostOne, Received
  <2>7. UtFramesInv'
    BY <1>8, <2>1 DEF U!CMD_other, U!Reading, U!NextLine, U!Text, UtFramesInv, UtFrame
  <2>8. QED
    BY <2>1, <2>5, <2>6, <2>7
<1>9. CASE U!CMD_run_ut
  <2>1. tame /\ ~ut_parser_debug' /\ late' = <<>>
    BY <1>9 DEF U!CMD_run_ut, U!Reading, U!NextLine
  <2>2. QueueInv'
    BY <1>9, <2>1 DEF U!CMD_run_ut, U!Reading, U!NextLine, QueueInv
  <2>3. VerdictInv'
    BY <1>9, <2>1 DEF U!CMD_run_ut, U!Reading, U!NextLine, QueueInv, VerdictInv,
           AtMostOne, Received, OnItsWay
  <2>4. UtFramesInv'
    BY <1>9, <2>1 DEF U!CMD_run_ut, U!Reading, U!NextLine, UtFramesInv, UtFrame
  <2>5. QED
    BY <2>1, <2>2, <2>3, <2>4
<1>10. CASE U!CMD_debug_ut
  <2>1. tame /\ ~ut_parser_debug' /\ late' = <<>>
    BY <1>10 DEF U!CMD_debug_ut, U!Reading, U!NextLine
  <2>2. QueueInv'
    BY <1>10, <2>1 DEF U!CMD_debug_ut, U!Reading, U!NextLine, QueueInv
  <2>3. VerdictInv'
    BY <1>10, <2>1 DEF U!CMD_debug_ut, U!Reading, U!NextLine, QueueInv, VerdictInv,
           AtMostOne, Received, OnItsWay
  <2>4. UtFramesInv'
    BY <1>10, <2>1 DEF U!CMD_debug_ut, U!Reading, U!NextLine, UtFramesInv, UtFrame
  <2>5. QED
    BY <2>1, <2>2, <2>3, <2>4
<1>11. CASE U!CMD_incomplete
  <2>1. tame /\ ~ut_parser_debug' /\ late' = <<>>
    BY <1>11 DEF U!CMD_incomplete, U!Reading, U!NextLine
  <2>2. QueueInv'
    BY <1>11, <2>1 DEF U!CMD_incomplete, U!Reading, U!NextLine, QueueInv
  <2>3. VerdictInv'
    BY <1>11, <2>1 DEF U!CMD_incomplete, U!Reading, U!NextLine, QueueInv, VerdictInv,
           AtMostOne, Received, OnItsWay
  <2>4. UtFramesInv'
    BY <1>11, <2>1 DEF U!CMD_incomplete, U!Reading, U!NextLine, UtFramesInv, UtFrame
  <2>5. QED
    BY <2>1, <2>2, <2>3, <2>4
<1>12. CASE U!HandlerWrites
  <2>1. tame /\ ~ut_parser_debug' /\ late' = <<>>
    BY <1>12 DEF U!HandlerWrites, U!cli_out, U!MAX_MESSAGES
  <2>2. QueueInv'
    <3>1. place = "cmd" /\ cmd.outs = <<Head(cmd.outs)>> /\ mq = <<>>
      BY <1>12, <2>1 DEF U!HandlerWrites, QueueInv
    <3>2. PICK o : cmd.outs = <<o>>
      BY <3>1
    <3>3. Head(cmd.outs) = o /\ Tail(cmd.outs) = <<>>
      BY <3>2
    <3>4. cmd' = [show |-> cmd.show, outs |-> <<>>]
      BY <1>12, <2>1, <3>3 DEF U!HandlerWrites, QueueInv
    <3>5. mq' = <<>> \/ (TC_RUNNING /\ mq' = <<o>>)
      <4>1. U!cli_out(o)
        BY <1>12, <3>3 DEF U!HandlerWrites
      <4>2. IF ~TC_RUNNING THEN mq' = mq ELSE mq' = Append(mq, o)
        BY <4>1, Zenon DEF U!cli_out
      <4>3. Append(mq, o) = <<o>>
        BY <3>1
      <4>4. QED
        BY <3>1, <4>2, <4>3, Zenon
    <3>6. QED
      BY <1>12, <2>1, <3>1, <3>2, <3>4, <3>5 DEF U!HandlerWrites, QueueInv
  <2>3. VerdictInv'
    BY <1>12, <2>1 DEF U!HandlerWrites, U!cli_out, U!MAX_MESSAGES, QueueInv, VerdictInv,
           AtMostOne, Received, OnItsWay
  <2>4. UtFramesInv'
    BY <1>12, <2>1 DEF U!HandlerWrites, U!cli_out, U!MAX_MESSAGES, UtFramesInv, UtFrame
  <2>5. QED
    BY <2>1, <2>2, <2>3, <2>4
<1>13. CASE U!OtherThreadWrites
  <2>1. tame /\ ~ut_parser_debug' /\ late' = <<>>
    BY <1>13 DEF U!OtherThreadWrites
  <2>2. QueueInv'
    BY <1>13, <2>1 DEF U!OtherThreadWrites, QueueInv
  <2>3. VerdictInv'
    BY <1>13, <2>1 DEF U!OtherThreadWrites, QueueInv, VerdictInv, AtMostOne, Received,
           OnItsWay
  <2>4. UtFramesInv'
    BY <1>13, <2>1 DEF U!OtherThreadWrites, UtFramesInv, UtFrame
  <2>5. QED
    BY <2>1, <2>2, <2>3, <2>4
<1>14. CASE U!CommandReturns
  <2>1. tame /\ ~ut_parser_debug' /\ late' = <<>>
    BY <1>14 DEF U!CommandReturns, U!mq_timedreceive, U!Idle
  <2>2. QueueInv'
    <3>1. cmd' = [show |-> FALSE, outs |-> <<>>] /\ place' = "line" /\ place = "cmd"
      BY <1>14 DEF U!CommandReturns, U!Idle
    <3>2. mq # <<>> => cmd.show /\ TC_RUNNING /\ mq = <<mq[1]>>
      BY <2>1, <3>1 DEF QueueInv
    <3>3. mq = <<mq[1]>> => Tail(mq) = <<>>
      <4>1. \A x : Tail(<<x>>) = <<>>
        OBVIOUS
      <4>2. QED
        BY <4>1, Zenon
    <3>4. mq' = <<>>
      BY <1>14, <3>2, <3>3 DEF U!CommandReturns, U!mq_timedreceive
    <3>5. QED
      BY <3>1, <3>4 DEF QueueInv
  <2>3. VerdictInv'
    BY <1>14, <2>1 DEF U!CommandReturns, U!mq_timedreceive, U!Idle, QueueInv, VerdictInv,
           AtMostOne, Received, OnItsWay
  <2>4. UtFramesInv'
    BY <1>14, <2>1 DEF U!CommandReturns, U!mq_timedreceive, U!Idle, UtFramesInv, UtFrame
  <2>5. QED
    BY <2>1, <2>2, <2>3, <2>4
<1>15. ASSUME NEW match \in BOOLEAN, U!PATTERN(match) PROVE TameInv'
  <2>1. tame /\ ~ut_parser_debug' /\ late' = <<>>
    BY <1>15 DEF U!PATTERN
  <2>2. QueueInv'
    BY <1>15, <2>1 DEF U!PATTERN, QueueInv
  <2>3. VerdictInv'
    BY <1>15, <2>1 DEF U!PATTERN, QueueInv, VerdictInv, AtMostOne, Received, OnItsWay
  <2>4. UtFramesInv'
    <3>1. PICK p \in Pattern \cup {"$INT_STORE1"} :
            LET pass == (U!pattern_match(ut_parser_recv_buff, p) = match)
                right == due = <<>> \/ ~TC_RUNNING \/ pass = (U!pattern_match(due, p) = match)
            IN frames' = [frames EXCEPT ![1].results =
                                          Append(@, [pass |-> pass, right |-> right])]
      BY <1>15 DEF U!PATTERN
    <3> DEFINE pass == (U!pattern_match(ut_parser_recv_buff, p) = match)
               right == due = <<>> \/ ~TC_RUNNING \/ pass = (U!pattern_match(due, p) = match)
    <3>2. right
      <4>1. place = "line"
        BY <1>15 DEF U!PATTERN, U!Reading
      <4>2. due # <<>> /\ TC_RUNNING => Received /\ AtMostOne(due)
        <5>1. VerdictInv
          BY <2>1
        <5>2. QED
          BY <4>1, <5>1, Zenon DEF VerdictInv
      <4>3. QED
        BY <4>2, SameVerdict
    <3> DEFINE r == [pass |-> pass, right |-> right]
    <3>3. r \in Result
      BY <3>2 DEF Result
    <3>4. PICK f \in UtFrame : frames = <<f>>
      BY <1>15, <2>1 DEF U!PATTERN, U!Reading, UtFramesInv
    <3>5. frames' = [frames EXCEPT ![1].results = Append(@, r)]
      BY <3>1
    <3> HIDE DEF pass, right, r
    <3>6. Append(f.results, r) \in Seq(Result) /\ f.tc_no \in {0, 1}
      BY <3>3 DEF UtFrame
    <3>7. frames' = <<[f EXCEPT !.results = Append(f.results, r)]>>
      <4>1. frames[1] = f
        BY <3>4
      <4>2. frames' = [frames EXCEPT ![1] = [f EXCEPT !.results = Append(f.results, r)]]
        BY <3>5, <4>1
      <4> DEFINE g == [f EXCEPT !.results = Append(f.results, r)]
      <4>3. frames' = [frames EXCEPT ![1] = g]
        BY <4>2
      <4> HIDE DEF g
      <4>4. frames' = <<g>>
        BY <3>4, <4>3
      <4>5. QED
        BY <4>4 DEF g
    <3>8. [f EXCEPT !.results = Append(f.results, r)] \in UtFrame
      BY <3>6 DEF UtFrame
    <3>9. place' = "line"
      BY <1>15 DEF U!PATTERN, U!Reading
    <3>10. QED
      BY <3>7, <3>8, <3>9 DEF UtFramesInv
  <2>5. QED
    BY <2>1, <2>2, <2>3, <2>4
<1>16. CASE U!GREP
  <2>1. tame /\ ~ut_parser_debug' /\ late' = <<>>
    BY <1>16 DEF U!GREP, U!Reading, U!NextLine
  <2>2. QueueInv'
    BY <1>16, <2>1 DEF U!GREP, U!Reading, U!NextLine, QueueInv
  <2>3. VerdictInv'
    <3> DEFINE grep(buff, p) ==
                 IF U!pattern_match(buff, p) THEN <<U!Grepped(buff[1], p)>> ELSE <<>>
    <3>1. PICK p \in Pattern :
            /\ ut_parser_recv_buff' = grep(ut_parser_recv_buff, p)
            /\ due' = [i \in DOMAIN due |-> U!Grepped(due[i], p)]
      BY <1>16 DEF U!GREP
    <3>2. place' = "line" /\ place = "line" /\ UNCHANGED TC_RUNNING
      BY <1>16 DEF U!GREP, U!Reading
    <3>3. CASE due = <<>>
      <4>1. due' = <<>>
        BY <3>1, <3>3
      <4>2. QED
        BY <3>2, <4>1 DEF VerdictInv, AtMostOne
    <3>4. CASE due = <<due[1]>>
      <4>1. due' = <<U!Grepped(due[1], p)>>
        BY <3>1, <3>4
      <4>2. ~U!pattern_match(due, p) => U!Grepped(due[1], p).lines = {}
        BY <3>4, ShellAssumption DEF U!pattern_match, U!Contains, U!Grepped, U!Text
      <4>3. due[1].lines = {} => U!Grepped(due[1], p).lines = {}
        BY DEF U!Grepped, U!Text
      <4>4. Received => Received'
        BY <3>1, <4>1, <4>2, <4>3 DEF Received, U!pattern_match
      <4>5. QED
        <5>1. AtMostOne(due)'
          BY <4>1 DEF AtMostOne
        <5>2. due # <<>>
          BY <3>4
        <5>3. TC_RUNNING /\ due # <<>> => Received
          BY <2>1, <3>2, Zenon DEF VerdictInv
        <5>4. TC_RUNNING' => Received'
          BY <3>2, <4>4, <5>2, <5>3, Zenon
        <5>5. QED
          BY <3>2, <5>1, <5>4 DEF VerdictInv
    <3>5. QED
      BY <2>1, <3>3, <3>4 DEF VerdictInv, AtMostOne
  <2>4. UtFramesInv'
    BY <1>16, <2>1 DEF U!GREP, U!Reading, U!NextLine, UtFramesInv, UtFrame
  <2>5. QED
    BY <2>1, <2>2, <2>3, <2>4
<1>17. CASE U!INT_STORE
  <2>1. tame /\ ~ut_parser_debug' /\ late' = <<>>
    BY <1>17 DEF U!INT_STORE, U!Reading, U!NextLine
  <2>2. QueueInv'
    BY <1>17, <2>1 DEF U!INT_STORE, U!Reading, U!NextLine, QueueInv
  <2>3. VerdictInv'
    BY <1>17, <2>1 DEF U!INT_STORE, U!Reading, U!NextLine, QueueInv, VerdictInv,
           AtMostOne, Received, OnItsWay
  <2>4. UtFramesInv'
    BY <1>17, <2>1 DEF U!INT_STORE, U!Reading, U!NextLine, UtFramesInv, UtFrame
  <2>5. QED
    BY <2>1, <2>2, <2>3, <2>4
<1>18. CASE UNCHANGED U!vars
  BY <1>18 DEF U!vars, QueueInv, VerdictInv, UtFramesInv, AtMostOne, Received, OnItsWay
<1>19. QED
  BY <1>1, <1>2, <1>3, <1>4, <1>5, <1>6, <1>7, <1>8, <1>9, <1>10, <1>11, <1>12,
     <1>13, <1>14, <1>15, <1>16, <1>17, <1>18 DEF U!Next

-----------------------------------------------------------------------------
\* mq_send never waits in the parser's own thread and no output is left for a later
\* command, after whatever runs, when shows answer at once.
THEOREM NoOutputIsLeftBehind == ShellSpec => []QueueIsFree
<1>1. ShellInit => TameInv
  BY InitTame DEF ShellInit
<1>2. TameInv /\ [ShellNext]_<<vars, history, ut>> => TameInv'
  BY StepTame, ShellTakesUtSteps
<1>3. TameInv => QueueIsFree
  BY DEF TameInv, QueueInv, QueueIsFree, U!QueueIsFree, U!WaitsForItself, U!MAX_MESSAGES
<1>4. QED
  BY <1>1, <1>2, <1>3, PTL DEF ShellSpec

\* ut_parser_recv_buff and the queue are static: still, a pattern is judged against the
\* output of the last show of its test case.
THEOREM VerdictIsAboutTheLastShow == ShellSpec => []VerdictsAreOwn
<1>1. ShellInit => TameInv
  BY InitTame DEF ShellInit
<1>2. TameInv /\ [ShellNext]_<<vars, history, ut>> => TameInv'
  BY StepTame, ShellTakesUtSteps
<1>3. TameInv => VerdictsAreOwn
  <2> SUFFICES ASSUME TameInv, tame, NEW i \in DOMAIN frames,
                      NEW k \in DOMAIN frames[i].results
               PROVE  frames[i].results[k].right
    BY DEF VerdictsAreOwn, U!VerdictsAreOwn
  <2>1. PICK f \in UtFrame : frames = <<f>>
    BY DEF TameInv, UtFramesInv
  <2>2. frames[i] = f
    BY <2>1
  <2>3. f.results[k] \in Result
    BY <2>2 DEF UtFrame
  <2>4. QED
    BY <2>2, <2>3 DEF Result
<1>4. QED
  BY <1>1, <1>2, <1>3, PTL DEF ShellSpec
=============================================================================
