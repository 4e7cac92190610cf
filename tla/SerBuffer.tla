------------------------------ MODULE SerBuffer ------------------------------
(***************************************************************************)
(* The buffer of serialize.c: size bytes of memory, doubled until a write  *)
(* fits, with one index, next, for writing and reading, and a checkpoint.  *)
(* The shell keeps the TLVs of its command in one of these; it uses        *)
(* strings, negative skips, the checkpoint and reset.  The write functions *)
(* differ in the size of what they write only.  A byte that calloc or      *)
(* realloc has provided and nobody has written is Blank.                   *)
(***************************************************************************)
EXTENDS Integers, Sequences

CONSTANTS Value,       \* the values that are written
          ScalarSize,  \* sizeof the integer types
          RealSize,    \* sizeof the floating-point types
          StringSize,  \* the lengths of strings
          InitSize,    \* the sizes a buffer is created with
          Blank,
          MaxPiece,    \* the most that is written or read at once
          Limit        \* bound on next

VARIABLES b,           \* the memory: offset -> byte
          size, next, checkpoint,
          state,       \* "ok", "hung" in a loop, "aborted" by an assertion, memory
                       \* "overrun" by a write or by a "stray" patch
          got          \* what the last read returned

vars == <<b, size, next, checkpoint, state, got>>

\* The n bytes of value v.
Bytes(v, n) == [i \in 1..n |-> <<v, i>>]

Memory(n) == [i \in 0 .. n - 1 |-> Blank]

\* memcpy to offset at.
Copied(m, d, at) ==
  [i \in DOMAIN m |-> IF at <= i /\ i < at + Len(d) THEN d[i - at + 1] ELSE m[i]]

\* realloc.
Resized(n) == [i \in 0 .. n - 1 |-> IF i < size THEN b[i] ELSE Blank]

\* init_serialized_buffer and init_serialized_buffer_of_defined_size.
Init == /\ size \in InitSize /\ b = Memory(size)
        /\ next = 0 /\ checkpoint = 0
        /\ state = "ok" /\ got = <<>>

-----------------------------------------------------------------------------
Hangs(n) == size = 0 /\ n > 0

\* Mutant of Grown: doubles once.
GrownOnce(n) == IF n <= size THEN size ELSE 2 * size

\* size doubled until n bytes fit; twice nothing is nothing.
Grown(n) ==
  LET doubled[k \in 0..n] == IF k = 0 THEN size ELSE 2 * doubled[k - 1]
  IN doubled[CHOOSE k \in 0..n : doubled[k] >= n /\ \A j \in 0 .. k - 1 : doubled[j] < n]

Stop(how) == state' = how /\ UNCHANGED <<b, size, next, checkpoint, got>>

\* The body the seven functions share.
serialize(d) ==
  \/ Hangs(Len(d)) /\ Stop("hung")
  \/ /\ ~Hangs(Len(d))
     /\ LET n == Grown(next + Len(d)) IN
          IF next + Len(d) > n THEN Stop("overrun")
          ELSE /\ b' = Copied(Resized(n), d, next)
               /\ size' = n
               /\ next' = next + Len(d)
               /\ UNCHANGED <<checkpoint, state, got>>

serialize_scalar == \E v \in Value, n \in ScalarSize : serialize(Bytes(v, n))
serialize_real == \E v \in Value, n \in RealSize : serialize(Bytes(v, n))
serialize_string == \E v \in Value, n \in StringSize : serialize(Bytes(v, n))

\* Also backwards, but never beyond the start: cd_tree.. at the start of an empty
\* buffer does, and CommandParser has that as a failure.
serialize_buffer_skip ==
  \E n \in ScalarSize \cup {-k : k \in ScalarSize} :
    /\ next + n >= 0
    /\ \/ Hangs(n) /\ Stop("hung")
       \/ /\ ~Hangs(n)
          /\ LET grown == IF size - next >= n THEN size ELSE Grown(next + n)
             IN b' = Resized(grown) /\ size' = grown
          /\ next' = next + n
          /\ UNCHANGED <<checkpoint, state, got>>

\* The assertion is about the memory, not about what has been written.
de_serialize_string ==
  \E n \in StringSize \ {0} :
    \/ size - next < n /\ Stop("aborted")
    \/ /\ size - next >= n
       /\ got' = [i \in 1..n |-> b[next + i - 1]]
       /\ next' = next + n
       /\ UNCHANGED <<b, size, checkpoint, state>>

\* The room that is asked for is that behind next, not that behind the offset.
copy_in_serialized_buffer_by_offset ==
  \E v \in Value, n \in StringSize, offset \in 0 .. Limit - 1 :
    /\ size - next >= n /\ offset <= size
    /\ IF offset + n > size THEN Stop("stray")
       ELSE b' = Copied(b, Bytes(v, n), offset) /\ UNCHANGED <<size, next, checkpoint, state, got>>

mark_checkpoint_serialize_buffer ==
  checkpoint' = next /\ UNCHANGED <<b, size, next, state, got>>

restore_checkpoint_serialize_buffer ==
  next' = checkpoint /\ UNCHANGED <<b, size, checkpoint, state, got>>

reset_serialize_buffer ==
  next' = 0 /\ checkpoint' = 0 /\ UNCHANGED <<b, size, state, got>>

\* The clone is as large as what is in use and has no checkpoint.
truncate_serialize_buffer ==
  /\ next # size
  /\ size' = next /\ b' = [i \in 0 .. next - 1 |-> b[i]]
  /\ checkpoint' = 0
  /\ UNCHANGED <<next, state, got>>

Next == /\ state = "ok" /\ next <= Limit
        /\ \/ serialize_scalar \/ serialize_real \/ serialize_string
           \/ serialize_buffer_skip \/ de_serialize_string
           \/ copy_in_serialized_buffer_by_offset
           \/ mark_checkpoint_serialize_buffer \/ restore_checkpoint_serialize_buffer
           \/ reset_serialize_buffer \/ truncate_serialize_buffer

Spec == Init /\ [][Next]_vars

-----------------------------------------------------------------------------
\* How far next can get.
Extent == Limit + MaxPiece

Contents == [i \in 0 .. Extent - 1 |-> IF i \in DOMAIN b THEN b[i] ELSE Blank]

Abstract == INSTANCE Tape WITH
  Data <- {Bytes(v, n) : v \in Value, n \in ScalarSize \cup RealSize \cup StringSize},
  Count <- StringSize \cup ScalarSize,
  Limit <- Extent,
  tape <- Contents, pos <- next, mark <- checkpoint, room <- size,
  state <- IF size = 0 THEN "dead" ELSE state

\* However the buffer is doubled, truncated and moved about in, it is one tape:
\* growing keeps every byte, nothing is written outside of the memory but by a patch
\* with a wrong offset (serialize.c:332 tests the wrong room), a read that
\* fits returns what was written there last, and only truncating an empty buffer
\* makes it useless (serialize.c:277 doubles 0 for ever).
BufferSpec == Abstract!Spec
=============================================================================
