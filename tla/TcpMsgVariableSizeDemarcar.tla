---------------------- MODULE TcpMsgVariableSizeDemarcar ----------------------
(***************************************************************************)
(* The demarcar of a listening thread: it cuts the bytes received from each *)
(* client into messages, each preceded by a header of HeaderSize characters *)
(* that says how long it is.  Every client has a ring of its own; whether a *)
(* header has been read, and the size it announced, is kept once for all    *)
(* clients of the thread (TcpClientServiceManager.cpp:29).                  *)
(*                                                                         *)
(* Only the thread itself touches this state, so ProcessMsg is cut into     *)
(* steps for its loop, not for interleaving.  A ring is the sequence of     *)
(* bytes it holds, which ByteCircularBuffer is proved to implement.  Other  *)
(* than the bytes received, what reaches the demarcar is a client leaving   *)
(* and the service stopping and starting again, which replaces the thread,  *)
(* its demarcar and its rings while the connections live on.                *)
(***************************************************************************)
EXTENDS Integers, Sequences

CONSTANTS Client,        \* the clients of the listening thread
          HeaderSize,    \* msg_header_size
          RingSize,      \* DEFAULT_CBC_SIZE
          ScratchSize,   \* MAX_BUFFER_SIZE: the bytes buffer has room for
          Modulus,       \* 2^16, the range of msg_size
          Chunk,         \* what one recv may return
          StrayDigits,   \* digits that may lie behind the header on the stack
          None

ASSUME SizesAssumption == /\ {HeaderSize, RingSize, ScratchSize, Modulus} \subseteq Nat
                          /\ HeaderSize > 0
                          /\ HeaderSize <= ScratchSize
                          /\ Modulus > 0
ASSUME ClientAssumption == None \notin Client \cup {"assert", "overrun"}

\* Characters: the digits, and those atoi tells from other text.
Digit == 0..9
Space == 10
Minus == 11
Letter == 12
Byte == 0..12

ASSUME ChunkAssumption == Chunk \subseteq Seq(Byte) \ {<<>>}
ASSUME StrayAssumption == StrayDigits \subseteq Seq(Digit)

\* 1024 bytes of scratch and at most 1024 a recv, against a ring of 10240.
ASSUME RoomAssumption == \A d \in Chunk : ScratchSize + Len(d) <= RingSize + 1

VARIABLES
  pc,            \* "idle", or "read": in the loop of ReadMsg
  serving,       \* the client whose bytes ProcessMsg works on
  ring,          \* client -> the bytes in its circular buffer, oldest first
  IsReadingMsg,
  msg_size,
  delivered,     \* client -> messages passed to on_msg_demarked for it
  connected,     \* the clients the thread serves
  failed,        \* None, "assert", or "overrun" of the scratch buffer
  \* history
  received,      \* client -> all bytes received from it
  owner,         \* the client whose header set msg_size
  longest,       \* the largest size a header has announced
  torn,          \* clients some of whose bytes were taken for what they are not:
                 \* a header read with stray digits, a body cut by another
                 \* client's header, bytes dropped by a restart
  held           \* clients whose bytes wait for another client's message

demarcar == <<IsReadingMsg, msg_size, owner, longest>>
vars == <<pc, serving, ring, demarcar, delivered, connected, failed, received, torn, held>>

-----------------------------------------------------------------------------
\* std::atoi: blanks, a sign, digits, and whatever follows is ignored.
LeadLength(s, S) ==
  CHOOSE n \in 0..Len(s) : /\ \A i \in 1..n : s[i] \in S
                           /\ n < Len(s) => s[n + 1] \notin S

Value(digits) ==
  LET val[n \in 0..Len(digits)] == IF n = 0 THEN 0 ELSE 10 * val[n - 1] + digits[n]
  IN val[Len(digits)]

atoi(s) ==
  LET text == SubSeq(s, LeadLength(s, {Space}) + 1, Len(s))
      negative == text # <<>> /\ text[1] = Minus
      number == IF negative THEN Tail(text) ELSE text
      value == Value(SubSeq(number, 1, LeadLength(number, Digit)))
  IN IF negative THEN -value ELSE value

\* The header is copied to an array without a terminator: when it ends in a
\* digit, atoi reads on in whatever the stack holds behind it.
Announced(header, stray) ==
  (IF header[Len(header)] \in Digit THEN atoi(header \o stray) ELSE atoi(header))
    % Modulus

Front(s, n) == SubSeq(s, 1, n)

\* Mutant of Behind: the last byte that was read stays.
BehindButOne(s, n) == SubSeq(s, n, Len(s))

Behind(s, n) == SubSeq(s, n + 1, Len(s))

-----------------------------------------------------------------------------
Init == /\ pc = "idle" /\ serving = None
        /\ ring = [c \in Client |-> <<>>]
        /\ IsReadingMsg = FALSE /\ msg_size = 0
        /\ delivered = [c \in Client |-> <<>>]
        /\ connected = Client
        /\ failed = None
        /\ received = [c \in Client |-> <<>>]
        /\ owner = None /\ longest = 0 /\ torn = {} /\ held = {}

Needed == IF IsReadingMsg THEN msg_size ELSE HeaderSize

\* Mutant of IsBufferReadyToFlush: waits for one byte more.
IsBufferReadyLate(bytes) == Len(bytes) > Needed

IsBufferReadyToFlush(bytes) == Len(bytes) >= Needed

\* ProcessMsg up to IsBufferReadyToFlush, with the assertion that the ring took
\* the bytes.
ProcessMsg(c, d) ==
  /\ pc = "idle"
  /\ c \in connected
  /\ received' = [received EXCEPT ![c] = @ \o d]
  /\ serving' = c
  /\ IF RingSize - Len(ring[c]) < Len(d)
     THEN failed' = "assert" /\ UNCHANGED <<ring, pc, held>>
     ELSE /\ ring' = [ring EXCEPT ![c] = @ \o d]
          /\ pc' = IF IsBufferReadyToFlush(ring'[c]) THEN "read" ELSE "idle"
          /\ held' = IF pc' = "idle" /\ IsReadingMsg /\ owner # c
                     THEN held \cup {c} ELSE held
          /\ UNCHANGED failed
  /\ UNCHANGED <<demarcar, delivered, connected, torn>>

\* Read finds fewer bytes than asked for: the loop ends.
ReadNothing ==
  /\ pc = "read"
  /\ Len(ring[serving]) < Needed
  /\ pc' = "idle"
  /\ held' = IF IsReadingMsg /\ owner # serving THEN held \cup {serving}
                                                ELSE held \ {serving}
  /\ UNCHANGED <<serving, ring, demarcar, delivered, connected, failed, received, torn>>

\* The body goes to the scratch buffer and from there to on_msg_demarked.
ReadBody ==
  /\ pc = "read" /\ IsReadingMsg
  /\ Len(ring[serving]) >= msg_size
  /\ ring' = [ring EXCEPT ![serving] = Behind(@, msg_size)]
  /\ IsReadingMsg' = FALSE
  /\ IF msg_size > ScratchSize
     THEN failed' = "overrun" /\ UNCHANGED delivered
     ELSE /\ delivered' = [delivered EXCEPT ![serving] =
                             Append(@, Front(ring[serving], msg_size))]
          /\ UNCHANGED failed
  /\ torn' = IF owner = serving THEN torn ELSE torn \cup {owner, serving}
  /\ UNCHANGED <<pc, serving, msg_size, owner, longest, connected, received, held>>

\* A header that announces nothing makes ReadMsg fail, and the listening thread
\* then takes the client out; any other is followed by its message.
ReadHeader ==
  /\ pc = "read" /\ ~IsReadingMsg
  /\ Len(ring[serving]) >= HeaderSize
  /\ \E stray \in StrayDigits :
       LET header == Front(ring[serving], HeaderSize)
           n == Announced(header, stray)
       IN /\ n \in 0..(Modulus - 1)
          /\ msg_size' = n
          /\ longest' = IF n > longest THEN n ELSE longest
          /\ torn' = IF n = Announced(header, <<>>) THEN torn ELSE torn \cup {serving}
  /\ IF msg_size' = 0
     THEN /\ pc' = "idle"
          /\ connected' = connected \ {serving}
          /\ ring' = [ring EXCEPT ![serving] = <<>>]
          /\ UNCHANGED <<IsReadingMsg, owner>>
     ELSE /\ IsReadingMsg' = TRUE
          /\ owner' = serving
          /\ ring' = [ring EXCEPT ![serving] = Behind(@, HeaderSize)]
          /\ UNCHANGED <<pc, connected>>
  /\ UNCHANGED <<serving, delivered, failed, received, held>>

ReadMsg == ReadNothing \/ ReadBody \/ ReadHeader

\* The connection is reset: the client goes with its ring, the demarcar stays.
Leave(c) ==
  /\ pc = "idle"
  /\ c \in connected
  /\ connected' = connected \ {c}
  /\ ring' = [ring EXCEPT ![c] = <<>>]
  /\ UNCHANGED <<pc, serving, demarcar, delivered, failed, received, torn, held>>

\* Stop and Start: a new thread serves the same clients.
Restart ==
  /\ pc = "idle"
  /\ ring' = [c \in Client |-> <<>>]
  /\ IsReadingMsg' = FALSE
  /\ torn' = torn \cup {c \in connected : ring[c] # <<>> \/ (IsReadingMsg /\ owner = c)}
  /\ held' = {}
  /\ UNCHANGED <<pc, serving, msg_size, owner, longest, delivered, connected,
                 failed, received>>

Next == /\ failed = None
        /\ \/ \E c \in Client : Leave(c) \/ \E d \in Chunk : ProcessMsg(c, d)
           \/ ReadMsg
           \/ Restart

Spec == Init /\ [][Next]_vars

-----------------------------------------------------------------------------
\* What a stream of bytes says, by the format alone: the messages from position
\* p on, up to the first that is not complete or a header that announces none.
Messages(s) ==
  LET from[p \in 1..(Len(s) + 1)] ==
        LET body == p + HeaderSize
            n == Announced(SubSeq(s, p, body - 1), <<>>)
        IN IF body - 1 > Len(s) THEN <<>>
           ELSE IF n = 0 \/ body + n - 1 > Len(s) THEN <<>>
           ELSE <<SubSeq(s, body, body + n - 1)>> \o from[body + n]
  IN from[1]

\* The variables have the values of the program; a ring holds what fits in it.
TypeOK == /\ pc \in {"idle", "read"}
          /\ serving \in Client \cup {None}
          /\ pc = "read" => serving \in Client
          /\ ring \in [Client -> Seq(Byte)]
          /\ \A c \in Client : Len(ring[c]) <= RingSize
          /\ IsReadingMsg \in BOOLEAN
          /\ msg_size \in 0..(Modulus - 1)
          /\ IsReadingMsg => msg_size # 0
          /\ longest \in 0..(Modulus - 1)
          /\ failed \in {None, "assert", "overrun"}

\* However the network cuts a client's stream into chunks, what is delivered for
\* it are the messages of the stream, in order, none split, joined or repeated.
\* The demarcar's state does not say whose header it has read, so this is
\* promised only to clients not torn.
FramedInOrder ==
  \A c \in Client \ torn :
    /\ Len(delivered[c]) <= Len(Messages(received[c]))
    /\ \A i \in 1..Len(delivered[c]) : delivered[c][i] = Messages(received[c])[i]

\* When ProcessMsg returns no complete message is left in the ring: the loop of
\* ReadMsg reads on until bytes are missing, whatever the chunk contained.  Only
\* a message of another client that is still incomplete holds a client up.
NothingLeftBehind ==
  pc = "idle" /\ failed = None =>
    \A c \in connected \ (torn \cup held) : delivered[c] = Messages(received[c])

\* The sizes of the rings, of the scratch buffer and of one recv fit together:
\* the assertion in ProcessMsg and the scratch buffer's bound can break only
\* after some header announced more than the scratch buffer holds.
ShortMessagesNeverFail == failed # None => longest > ScratchSize
==============================================================================
