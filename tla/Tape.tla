--------------------------------- MODULE Tape ---------------------------------
(***************************************************************************)
(* What the serialisation buffer promises: a tape of bytes without an end, *)
(* written and read at one position, with one mark to come back to.  How   *)
(* much memory stands behind it is not seen, but for three exceptions: a   *)
(* read beyond what is there ends the process, a patch beyond it may       *)
(* destroy memory, and a tape cut at its start is of no more use.          *)
(* SerBuffer is shown to implement this module.                            *)
(***************************************************************************)
EXTENDS Integers, Sequences

CONSTANTS Data,   \* the byte sequences a caller may write
          Count,  \* the numbers of bytes a caller may read or skip
          Blank,  \* a byte nobody has written
          Limit   \* bound on the position

VARIABLES tape,   \* place -> the byte last written there
          pos, mark,
          room,   \* how many places are there: at least those the position has been at
          state,  \* "ok", "dead" (unusable), "aborted" (by a read) or "stray" (a patch)
          got     \* what the last read returned

tapeVars == <<tape, pos, mark, room, state, got>>

Place == 0 .. Limit - 1

Overwritten(d, at) ==
  [i \in Place |-> IF at <= i /\ i < at + Len(d) THEN d[i - at + 1] ELSE tape[i]]

\* The position moves by n; there is room for it.
Move(n) == /\ pos' = pos + n
           /\ room' \in Nat /\ room' >= room /\ room' >= pos + n

Init == /\ tape = [i \in Place |-> Blank]
        /\ pos = 0 /\ mark = 0 /\ room \in Nat /\ state = "ok" /\ got = <<>>

Write(d) == /\ tape' = Overwritten(d, pos)
            /\ Move(Len(d))
            /\ UNCHANGED <<mark, state, got>>

Read(n) == IF pos + n <= room
           THEN /\ got' = [i \in 1..n |-> tape[pos + i - 1]]
                /\ Move(n)
                /\ UNCHANGED <<tape, mark, state>>
           ELSE /\ state' = "aborted"
                /\ UNCHANGED <<tape, pos, mark, room, got>>

Skip(n) == /\ pos + n >= 0
           /\ Move(n)
           /\ UNCHANGED <<tape, mark, state, got>>

Patch(d, at) == /\ IF at + Len(d) <= room
                   THEN tape' = Overwritten(d, at) /\ UNCHANGED state
                   ELSE state' = "stray" /\ UNCHANGED tape
                /\ UNCHANGED <<pos, mark, room, got>>

Mark == mark' = pos /\ UNCHANGED <<tape, pos, room, state, got>>

Restore == /\ pos' = mark
           /\ UNCHANGED <<tape, mark, room, state, got>>

Rewind == /\ pos' = 0 /\ mark' = 0
          /\ UNCHANGED <<tape, room, state, got>>

\* What is behind the position is gone; the mark may be gone too.
Cut == /\ tape' = [i \in Place |-> IF i < pos THEN tape[i] ELSE Blank]
       /\ room' = pos
       /\ mark' \in {0, mark}
       /\ state' = IF pos = 0 THEN "dead" ELSE "ok"
       /\ UNCHANGED <<pos, got>>

Next == /\ state = "ok"
        /\ \/ \E d \in Data : Write(d)
           \/ \E d \in Data, at \in Place : Patch(d, at)
           \/ \E n \in Count : Read(n) \/ Skip(n) \/ Skip(-n)
           \/ Mark \/ Restore \/ Rewind \/ Cut

Spec == Init /\ [][Next]_tapeVars
=============================================================================
