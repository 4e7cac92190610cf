------------------------- MODULE ByteCircularBuffer -------------------------
(***************************************************************************)
(* The ring of src/ByteCircularBuffer.cpp that holds the bytes received    *)
(* from one client until whole messages can be cut out of them: front is   *)
(* the slot the next byte is written to, rear the slot the oldest byte is  *)
(* read from, and current_size tells an empty ring from a full one.        *)
(*                                                                         *)
(* The uint16_t arithmetic of the source is kept as arithmetic on Nat:     *)
(* IndexInv bounds every sum the code forms by Size, which fits.           *)
(***************************************************************************)
EXTENDS Naturals, Sequences

CONSTANTS Byte, Size, Chunk, ReadSize

ASSUME SizeAssumption == Size \in Nat \ {0}
ASSUME ChunkAssumption == Chunk \subseteq Seq(Byte)
ASSUME ReadSizeAssumption == ReadSize \subseteq Nat
ASSUME ByteAssumption == Byte # {}

VARIABLES buffer,        \* slot -> byte
          front, rear, current_size,
          reply          \* the last Write or Read: what was asked, return value, bytes

vars == <<buffer, front, rear, current_size, reply>>

Slots == 0 .. Size - 1

Reply(call, asked, n, d) == [call |-> call, asked |-> asked, ret |-> n, data |-> d]
PutReply(n) == Reply("put", n, n, <<>>)
Name(remove) == IF remove THEN "take" ELSE "peek"
GetReply(n, remove, d) == Reply(Name(remove), n, n, d)

-----------------------------------------------------------------------------
IsFull == current_size = Size
AvailableSize == Size - current_size

\* Where an index ends up after n bytes that do not run past the last slot.
Advance(p, n) == IF p + n = Size THEN 0 ELSE p + n

\* memcpy(BCB(at), d, Len(d)) on the ring's storage.
CopyIn(store, at, d) ==
  [i \in Slots |-> IF at <= i /\ i < at + Len(d) THEN d[i - at + 1] ELSE store[i]]

\* memcpy(data, BCB(at), n).
CopyOut(at, n) == [k \in 1..n |-> buffer[at + k - 1]]

\* One stretch of slots is enough, or the bytes go round the end.
FitsBehindFront(n) == front < rear \/ n <= Size - front
FitsBehindRear(n) == rear < front \/ n <= Size - rear

-----------------------------------------------------------------------------
Init == /\ buffer \in [Slots -> Byte]
        /\ front = 0
        /\ rear = 0
        /\ current_size = 0
        /\ reply = Reply("none", 0, 0, <<>>)

Refuse(call, n) == /\ reply' = Reply(call, n, 0, <<>>)
                   /\ UNCHANGED <<buffer, front, rear, current_size>>

WriteRefused(d) == /\ IsFull \/ AvailableSize < Len(d)
                   /\ Refuse("put", Len(d))

WriteContiguous(d) ==
  /\ ~IsFull /\ AvailableSize >= Len(d)
  /\ FitsBehindFront(Len(d))
  /\ buffer' = CopyIn(buffer, front, d)
  /\ front' = Advance(front, Len(d))
  /\ current_size' = current_size + Len(d)
  /\ reply' = PutReply(Len(d))
  /\ UNCHANGED rear

WriteWrapped(d) ==
  /\ ~IsFull /\ AvailableSize >= Len(d)
  /\ ~FitsBehindFront(Len(d))
  /\ LET leading == Size - front IN
       /\ buffer' = CopyIn(CopyIn(buffer, front, SubSeq(d, 1, leading)),
                           0, SubSeq(d, leading + 1, Len(d)))
       /\ front' = Len(d) - leading
  /\ current_size' = current_size + Len(d)
  /\ reply' = PutReply(Len(d))
  /\ UNCHANGED rear

Write(d) == WriteRefused(d) \/ WriteContiguous(d) \/ WriteWrapped(d)

-----------------------------------------------------------------------------
\* Mutant of ReadRefused: refuses to hand out the last bytes.
ReadRefusedAtLast(n, remove) == current_size <= n /\ Refuse(Name(remove), n)

ReadRefused(n, remove) == current_size < n /\ Refuse(Name(remove), n)

ReadContiguous(n, remove) ==
  /\ current_size >= n
  /\ FitsBehindRear(n)
  /\ reply' = GetReply(n, remove, CopyOut(rear, n))
  /\ IF remove THEN /\ rear' = Advance(rear, n)
                    /\ current_size' = current_size - n
               ELSE UNCHANGED <<rear, current_size>>
  /\ UNCHANGED <<buffer, front>>

ReadWrapped(n, remove) ==
  /\ current_size >= n
  /\ ~FitsBehindRear(n)
  /\ LET leading == Size - rear IN
       /\ reply' = GetReply(n, remove, CopyOut(rear, leading) \o CopyOut(0, n - leading))
       /\ IF remove THEN /\ rear' = n - leading
                         /\ current_size' = current_size - n
                    ELSE UNCHANGED <<rear, current_size>>
  /\ UNCHANGED <<buffer, front>>

Read(n, remove) ==
  ReadRefused(n, remove) \/ ReadContiguous(n, remove) \/ ReadWrapped(n, remove)

Reset == /\ current_size' = 0
         /\ front' = 0
         /\ rear' = 0
         /\ UNCHANGED <<buffer, reply>>

Next == \/ \E d \in Chunk : Write(d)
        \/ \E n \in ReadSize, remove \in BOOLEAN : Read(n, remove)
        \/ Reset

Spec == Init /\ [][Next]_vars

-----------------------------------------------------------------------------
Replies == [call : {"none", "put", "peek", "take"}, asked : Nat, ret : Nat, data : Seq(Byte)]

\* The three indices and the storage stay in range: front and rear name a slot
\* (ByteCircularBuffer.cpp:32,43,53,71,87,99 wrap or rebase them), so no memcpy
\* of the class leaves the string that backs the ring.
TypeOK == /\ buffer \in [Slots -> Byte]
          /\ front \in Slots
          /\ rear \in Slots
          /\ current_size \in 0..Size
          /\ reply \in Replies

\* The slot that holds byte number k of the ring, counted from rear.
Slot(k) == IF k < Size THEN k ELSE k - Size

\* The three indices are redundant and must agree: front is current_size slots
\* after rear.  The source updates them at ten places, in a different branch
\* each, and the tests "front < rear" and "rear < front" that choose the branch
\* mean what they are meant to mean only while this holds.
IndexInv == front = Slot(rear + current_size)

\* The bytes the ring stands for, oldest first.
Contents == [k \in 1..current_size |-> buffer[Slot(rear + k - 1)]]

Fifo == INSTANCE ByteFifo WITH queue <- Contents, Capacity <- Size

\* The ring is a FIFO queue of bytes: whatever the sequence of writes, peeks and
\* reads and wherever the indices wrap, a read returns the oldest bytes in the
\* order they were written and a refused call loses nothing.
FifoSpec == Fifo!Spec
=============================================================================
