------------------------------ MODULE ByteFifo ------------------------------
(***************************************************************************)
(* What a per-client receive buffer promises its user: a first-in          *)
(* first-out queue of at most Capacity bytes.  A put is all or nothing, a  *)
(* get of n bytes returns the n oldest ones and takes them out only when   *)
(* asked to, and a refused call changes nothing.  ByteCircularBuffer is    *)
(* shown to implement this module.                                         *)
(***************************************************************************)
EXTENDS Naturals, Sequences

CONSTANTS Byte,      \* the values a byte of the stream can have
          Capacity,  \* how many bytes the queue can hold
          Chunk,     \* the byte sequences a caller may put
          ReadSize   \* the sizes a caller may ask for

VARIABLES queue,     \* the bytes held, oldest first
          reply      \* the last put or get: what was asked, the count, the bytes

fifoVars == <<queue, reply>>

\* A get may remove what it returns or leave it.
Name(remove) == IF remove THEN "take" ELSE "peek"

Reply(call, asked, n, d) == [call |-> call, asked |-> asked, ret |-> n, data |-> d]

Init == /\ queue = <<>>
        /\ reply = Reply("none", 0, 0, <<>>)

Refuse(call, n) == /\ reply' = Reply(call, n, 0, <<>>)
                   /\ UNCHANGED queue

Put(d) == /\ Len(queue) + Len(d) <= Capacity
          /\ queue' = queue \o d
          /\ reply' = Reply("put", Len(d), Len(d), <<>>)

Get(n, remove) == /\ n <= Len(queue)
                  /\ reply' = Reply(Name(remove), n, n, SubSeq(queue, 1, n))
                  /\ queue' = IF remove THEN SubSeq(queue, n + 1, Len(queue))
                                        ELSE queue

Clear == /\ queue' = <<>>
         /\ UNCHANGED reply

\* A put is refused only for want of room, a get only for want of bytes.
Next == \/ \E d \in Chunk : \/ Put(d)
                            \/ Len(queue) + Len(d) > Capacity /\ Refuse("put", Len(d))
        \/ \E n \in ReadSize, remove \in BOOLEAN :
             \/ Get(n, remove)
             \/ n > Len(queue) /\ Refuse(Name(remove), n)
        \/ Clear

Spec == Init /\ [][Next]_fifoVars
=============================================================================
