----------------------- MODULE TcpMsgFixedSizeDemarcar -----------------------
(***************************************************************************)
(* The demarcar for messages that all have msg_fixed_size bytes, with the  *)
(* rings of the clients of one listening thread (see                       *)
(* TcpMsgVariableSizeDemarcar for how ProcessMsg is called).  It keeps no   *)
(* state of its own between two calls, so sharing it does no harm.         *)
(***************************************************************************)
EXTENDS Naturals, Sequences

CONSTANTS Client, Byte, Chunk, None,
          FixedSize,     \* msg_fixed_size
          RingSize

ASSUME SizesAssumption == FixedSize \in Nat \ {0} /\ RingSize \in Nat
ASSUME ChunkAssumption == Chunk \subseteq Seq(Byte) \ {<<>>}
ASSUME RoomAssumption == \A d \in Chunk : FixedSize + Len(d) <= RingSize + 1
ASSUME NoneAssumption == None \notin Client

VARIABLES pc,        \* "idle", or "read": in the loop of ReadMsg
          serving,   \* the client whose bytes ProcessMsg works on
          ring,      \* client -> the bytes in its circular buffer
          delivered, \* client -> messages passed to on_msg_demarked for it
          failed,    \* None or "assert"
          received   \* history: client -> all bytes received from it

vars == <<pc, serving, ring, delivered, failed, received>>

Init == /\ pc = "idle" /\ serving = None /\ failed = None
        /\ ring = [c \in Client |-> <<>>]
        /\ delivered = [c \in Client |-> <<>>]
        /\ received = [c \in Client |-> <<>>]

\* Mutant of IsBufferReadyToFlush: waits for one byte more.
IsBufferReadyLate(bytes) == Len(bytes) > FixedSize

IsBufferReadyToFlush(bytes) == Len(bytes) >= FixedSize

ProcessMsg(c, d) ==
  /\ pc = "idle"
  /\ received' = [received EXCEPT ![c] = @ \o d]
  /\ serving' = c
  /\ IF RingSize - Len(ring[c]) < Len(d)
     THEN failed' = "assert" /\ UNCHANGED <<ring, pc>>
     ELSE /\ ring' = [ring EXCEPT ![c] = @ \o d]
          /\ pc' = IF IsBufferReadyToFlush(ring'[c]) THEN "read" ELSE "idle"
          /\ UNCHANGED failed
  /\ UNCHANGED delivered

\* Mutant of ReadOne: the last byte of the message stays in the ring.
ReadOneButOne ==
  /\ pc = "read"
  /\ Len(ring[serving]) >= FixedSize
  /\ delivered' = [delivered EXCEPT ![serving] =
                     Append(@, SubSeq(ring[serving], 1, FixedSize))]
  /\ ring' = [ring EXCEPT ![serving] = SubSeq(@, FixedSize, Len(@))]
  /\ UNCHANGED <<pc, serving, failed, received>>

\* A pass of ReadMsg's loop: one message, or too few bytes for one.
ReadOne ==
  /\ pc = "read"
  /\ Len(ring[serving]) >= FixedSize
  /\ delivered' = [delivered EXCEPT ![serving] =
                     Append(@, SubSeq(ring[serving], 1, FixedSize))]
  /\ ring' = [ring EXCEPT ![serving] = SubSeq(@, FixedSize + 1, Len(@))]
  /\ UNCHANGED <<pc, serving, failed, received>>

ReadNothing ==
  /\ pc = "read"
  /\ Len(ring[serving]) < FixedSize
  /\ pc' = "idle"
  /\ UNCHANGED <<serving, ring, delivered, failed, received>>

Next == /\ failed = None
        /\ \/ \E c \in Client, d \in Chunk : ProcessMsg(c, d)
           \/ ReadOne
           \/ ReadNothing

Spec == Init /\ [][Next]_vars

-----------------------------------------------------------------------------
\* The variables have the values of the program, and when ProcessMsg returns no
\* ring holds a whole message.
TypeOK == /\ pc \in {"idle", "read"}
          /\ serving \in Client \cup {None}
          /\ pc = "read" => serving \in Client
          /\ ring \in [Client -> Seq(Byte)]
          /\ failed \in {None, "assert"}
          /\ \A c \in Client :
               pc = "idle" \/ c # serving => Len(ring[c]) < FixedSize

\* For every client, whoever else is served in between, the messages delivered
\* and the bytes still waiting are the client's stream, cut every FixedSize
\* bytes.
SlicesOfTheStream ==
  failed = None =>
    \A c \in Client :
      LET n == Len(delivered[c]) IN
        /\ \A i \in 1..n : delivered[c][i] =
             SubSeq(received[c], (i - 1) * FixedSize + 1, i * FixedSize)
        /\ ring[c] = SubSeq(received[c], n * FixedSize + 1, Len(received[c]))

\* The ring always has room for what one recv returns, so ProcessMsg's assertion
\* holds.
WriteNeverRefused == failed = None
=============================================================================
