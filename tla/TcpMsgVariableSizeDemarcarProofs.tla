------------------- MODULE TcpMsgVariableSizeDemarcarProofs -------------------
(***************************************************************************)
(* Proofs about TcpMsgVariableSizeDemarcar: types, that the demarcar       *)
(* cannot fail on short messages, and that it delivers the messages of     *)
(* each stream, in order and without leaving one behind; for every set of  *)
(* clients, every size of header, scratch buffer and ring that satisfies   *)
(* the assumptions, every way atoi may read a header, and streams of any   *)
(* length.                                                                 *)
(***************************************************************************)
EXTENDS TcpMsgVariableSizeDemarcar, SequenceTheorems, WellFoundedInduction, TLAPS

\* The ring of a client that ProcessMsg is not working on holds less than the
\* longest thing the demarcar ever waited for, unless that was a long message.
RingsStayShort ==
  longest > ScratchSize \/
    \A c \in Client : pc = "idle" \/ c # serving => Len(ring[c]) < ScratchSize

\* What makes ShortMessagesNeverFail inductive.
IInv == /\ TypeOK
        /\ msg_size <= longest
        /\ failed = None => RingsStayShort
        /\ ShortMessagesNeverFail

LEMMA Constants ==
  /\ HeaderSize \in Nat /\ RingSize \in Nat /\ ScratchSize \in Nat /\ Modulus \in Nat
  /\ 0 < HeaderSize /\ HeaderSize <= ScratchSize /\ 0 < Modulus
  /\ None \notin Client /\ None # "assert" /\ None # "overrun"
  /\ 0 \in 0..(Modulus - 1) /\ 0 <= RingSize
  BY SizesAssumption, ClientAssumption

LEMMA ChunkFacts ==
  ASSUME NEW d \in Chunk
  PROVE  /\ d \in Seq(Byte)
         /\ ScratchSize + Len(d) <= RingSize + 1
  BY ChunkAssumption, RoomAssumption

\* Dropping the first n elements of a sequence.
LEMMA BehindFacts ==
  ASSUME NEW S, NEW s \in Seq(S), NEW n \in Nat, n <= Len(s)
  PROVE  /\ Behind(s, n) \in Seq(S)
         /\ Len(Behind(s, n)) = Len(s) - n
  BY SMT DEF Behind

LEMMA InitIInv == Init => IInv
  <1> SUFFICES ASSUME Init PROVE IInv
    OBVIOUS
  <1> USE Constants DEF Init
  <1>1. \A c \in Client : ring[c] = <<>> /\ Len(ring[c]) = 0
    OBVIOUS
  <1>2. ring \in [Client -> Seq(Byte)]
    BY SMT
  <1>3. TypeOK
    <2>1. \A c \in Client : Len(ring[c]) <= RingSize
      BY <1>1
    <2> QED
      BY <1>2, <2>1, Zenon DEF TypeOK
  <1>4. RingsStayShort
    BY <1>1 DEF RingsStayShort
  <1> QED
    BY <1>3, <1>4 DEF IInv, ShortMessagesNeverFail

LEMMA ProcessMsgKeeps ==
  ASSUME IInv, failed = None, NEW c \in Client, NEW d \in Chunk, ProcessMsg(c, d)
  PROVE  IInv'
  <1> USE Constants
  <1>1. /\ ring \in [Client -> Seq(Byte)] /\ ring[c] \in Seq(Byte) /\ Len(ring[c]) \in Nat
        /\ pc = "idle" /\ msg_size \in Nat /\ longest \in Nat
        /\ longest \in 0..(Modulus - 1) /\ msg_size \in 0..(Modulus - 1)
        /\ IsReadingMsg \in BOOLEAN /\ (IsReadingMsg => msg_size # 0)
        /\ msg_size <= longest
    BY SMT DEF IInv, TypeOK, ProcessMsg
  <1>2. d \in Seq(Byte) /\ Len(d) \in Nat /\ ScratchSize + Len(d) <= RingSize + 1
    BY ChunkFacts, SMT
  <1>3. /\ UNCHANGED <<IsReadingMsg, msg_size, owner, longest>>
        /\ serving' = c
    BY DEF ProcessMsg, demarcar
  <1>4. longest > ScratchSize \/ \A e \in Client : Len(ring[e]) < ScratchSize
    BY <1>1 DEF IInv, RingsStayShort
  <1>5. CASE RingSize - Len(ring[c]) < Len(d)
    <2>1. failed' = "assert" /\ ring' = ring /\ pc' = pc
      BY <1>5 DEF ProcessMsg
    <2>2. longest > ScratchSize
      BY <1>1, <1>2, <1>4, <1>5, SMT
    <2>3. TypeOK'
      BY <1>1, <1>3, <2>1 DEF IInv, TypeOK
    <2> QED
      BY <1>1, <1>3, <2>1, <2>2, <2>3 DEF IInv, RingsStayShort, ShortMessagesNeverFail
  <1>6. CASE ~(RingSize - Len(ring[c]) < Len(d))
    <2>1. /\ failed' = failed
          /\ ring' = [ring EXCEPT ![c] = @ \o d]
          /\ pc' = IF Len(ring'[c]) >= Needed THEN "read" ELSE "idle"
      BY <1>6 DEF ProcessMsg, IsBufferReadyToFlush
    <2>2. /\ ring'[c] = ring[c] \o d
          /\ \A e \in Client : e # c => ring'[e] = ring[e]
      BY <1>1, <2>1
    <2>3. /\ ring'[c] \in Seq(Byte)
          /\ Len(ring'[c]) = Len(ring[c]) + Len(d)
      BY <1>1, <1>2, <2>2, SMT
    <2>4. ring' \in [Client -> Seq(Byte)]
      BY <1>1, <2>1, <2>2, <2>3
    <2>5. Len(ring'[c]) <= RingSize
      BY <1>1, <1>2, <1>6, <2>3, SMT
    <2>6. TypeOK'
      BY <1>1, <1>3, <2>1, <2>2, <2>4, <2>5 DEF IInv, TypeOK
    <2>7. ASSUME pc' = "idle" PROVE longest > ScratchSize \/ Len(ring'[c]) < ScratchSize
      <3>1. Len(ring'[c]) < Needed
        BY <1>1, <1>2, <2>1, <2>3, <2>7, SMT DEF Needed
      <3> QED
        BY <1>1, <1>2, <2>3, <3>1, SMT DEF Needed
    <2>8. RingsStayShort'
      BY <1>3, <1>4, <2>2, <2>7 DEF RingsStayShort
    <2> QED
      BY <1>1, <1>3, <2>1, <2>6, <2>8 DEF IInv, ShortMessagesNeverFail
  <1> QED
    BY <1>5, <1>6

\* What the three steps of the loop have in common.
LEMMA InLoop ==
  ASSUME IInv, pc = "read"
  PROVE  /\ serving \in Client
         /\ ring \in [Client -> Seq(Byte)]
         /\ ring[serving] \in Seq(Byte) /\ Len(ring[serving]) \in Nat
         /\ Len(ring[serving]) <= RingSize
         /\ msg_size \in Nat /\ longest \in Nat
         /\ msg_size <= longest
         /\ IsReadingMsg \in BOOLEAN
  BY Constants, SMT DEF IInv, TypeOK

LEMMA ReadNothingKeeps ==
  ASSUME IInv, failed = None, ReadNothing
  PROVE  IInv'
  <1> USE Constants
  <1>1. pc = "read" /\ pc' = "idle" /\ Len(ring[serving]) < Needed
        /\ UNCHANGED <<serving, ring, IsReadingMsg, msg_size, owner, longest, failed>>
    BY DEF ReadNothing, demarcar
  <1>2. TypeOK'
    BY <1>1, InLoop DEF IInv, TypeOK
  <1>3. longest > ScratchSize \/ Len(ring[serving]) < ScratchSize
    BY <1>1, InLoop, SMT DEF Needed
  <1>4. RingsStayShort'
    BY <1>1, <1>3 DEF IInv, RingsStayShort
  <1> QED
    BY <1>1, <1>2, <1>4 DEF IInv, ShortMessagesNeverFail

LEMMA ReadBodyKeeps ==
  ASSUME IInv, failed = None, ReadBody
  PROVE  IInv'
  <1> USE Constants
  <1>1. /\ pc = "read" /\ IsReadingMsg /\ IsReadingMsg' = FALSE
        /\ Len(ring[serving]) >= msg_size
        /\ ring' = [ring EXCEPT ![serving] = Behind(@, msg_size)]
        /\ UNCHANGED <<pc, serving, msg_size, owner, longest>>
    BY DEF ReadBody
  <1>2. /\ Behind(ring[serving], msg_size) \in Seq(Byte)
        /\ Len(Behind(ring[serving], msg_size)) <= RingSize
    BY <1>1, InLoop, BehindFacts, SMT
  <1>3. /\ ring' \in [Client -> Seq(Byte)]
        /\ \A c \in Client : c # serving => ring'[c] = ring[c]
        /\ ring'[serving] = Behind(ring[serving], msg_size)
    BY <1>1, <1>2, InLoop
  <1>4. \/ failed' = "overrun" /\ msg_size > ScratchSize
        \/ failed' = failed
    BY DEF ReadBody
  <1>5. TypeOK'
    BY <1>1, <1>2, <1>3, <1>4, InLoop DEF IInv, TypeOK
  <1>6. RingsStayShort'
    BY <1>1, <1>3 DEF IInv, RingsStayShort
  <1>7. failed' # None => longest > ScratchSize
    BY <1>1, <1>4, InLoop, SMT
  <1> QED
    BY <1>1, <1>5, <1>6, <1>7 DEF IInv, ShortMessagesNeverFail

LEMMA ReadHeaderKeeps ==
  ASSUME IInv, failed = None, ReadHeader
  PROVE  IInv'
  <1> USE Constants
  <1>1. /\ pc = "read" /\ ~IsReadingMsg /\ Len(ring[serving]) >= HeaderSize
        /\ UNCHANGED <<serving, failed>>
    BY DEF ReadHeader
  <1>2. PICK n \in 0..(Modulus - 1) :
          /\ msg_size' = n
          /\ longest' = IF n > longest THEN n ELSE longest
    BY DEF ReadHeader
  <1>3. longest' \in 0..(Modulus - 1) /\ longest' >= longest /\ msg_size' <= longest'
    <2>1. n \in Nat /\ longest \in Nat /\ longest \in 0..(Modulus - 1)
      BY <1>1, InLoop, SMT DEF IInv, TypeOK
    <2> QED
      BY <1>2, <2>1, SMT
  <1>4. \/ /\ msg_size' = 0 /\ pc' = "idle" /\ IsReadingMsg' = IsReadingMsg
           /\ ring' = [ring EXCEPT ![serving] = <<>>]
        \/ /\ msg_size' # 0 /\ pc' = pc /\ IsReadingMsg' = TRUE
           /\ ring' = [ring EXCEPT ![serving] = Behind(@, HeaderSize)]
    BY DEF ReadHeader
  <1>5. /\ Behind(ring[serving], HeaderSize) \in Seq(Byte)
        /\ Len(Behind(ring[serving], HeaderSize)) <= RingSize
    BY <1>1, InLoop, BehindFacts, SMT
  <1>6. <<>> \in Seq(Byte) /\ Len(<<>>) = 0
    BY SMT
  <1>7. /\ ring' \in [Client -> Seq(Byte)]
        /\ \A c \in Client : c # serving => ring'[c] = ring[c]
        /\ Len(ring'[serving]) <= RingSize
        /\ msg_size' = 0 => Len(ring'[serving]) = 0
    <2>1. CASE ring' = [ring EXCEPT ![serving] = <<>>]
      BY <1>1, <1>4, <1>6, <2>1, InLoop
    <2>2. CASE msg_size' # 0 /\ ring' = [ring EXCEPT ![serving] = Behind(@, HeaderSize)]
      BY <1>1, <1>5, <2>2, InLoop
    <2> QED
      BY <1>4, <2>1, <2>2
  <1>8. TypeOK'
    <2>1. \A c \in Client : Len(ring'[c]) <= RingSize
      BY <1>7 DEF IInv, TypeOK
    <2>2. msg_size' \in 0..(Modulus - 1) /\ longest' \in 0..(Modulus - 1)
      BY <1>2, <1>3
    <2>3. pc' \in {"idle", "read"} /\ IsReadingMsg' \in BOOLEAN
          /\ (IsReadingMsg' => msg_size' # 0) /\ serving' \in Client
      <3>1. CASE msg_size' = 0 /\ pc' = "idle" /\ IsReadingMsg' = IsReadingMsg
        BY <1>1, <3>1, InLoop, Zenon
      <3>2. CASE msg_size' # 0 /\ pc' = pc /\ IsReadingMsg' = TRUE
        BY <1>1, <3>2, InLoop, Zenon
      <3> QED
        BY <1>4, <3>1, <3>2
    <2> QED
      BY <1>1, <1>7, <2>1, <2>2, <2>3, Zenon DEF IInv, TypeOK
  <1>9. RingsStayShort'
    <2>1. longest > ScratchSize => longest' > ScratchSize
      BY <1>1, <1>3, InLoop, SMT
    <2>2. pc' = "idle" => Len(ring'[serving]) < ScratchSize
      BY <1>1, <1>4, <1>7, SMT
    <2>3. longest > ScratchSize \/ \A c \in Client : c # serving => Len(ring[c]) < ScratchSize
      BY DEF IInv, RingsStayShort
    <2> QED
      BY <1>1, <1>7, <2>1, <2>2, <2>3 DEF RingsStayShort
  <1> QED
    BY <1>1, <1>3, <1>8, <1>9 DEF IInv, ShortMessagesNeverFail

LEMMA LeaveKeeps ==
  ASSUME IInv, failed = None, NEW c \in Client, Leave(c)
  PROVE  IInv'
  <1> USE Constants
  <1>1. /\ ring' = [ring EXCEPT ![c] = <<>>]
        /\ UNCHANGED <<pc, serving, IsReadingMsg, msg_size, owner, longest, failed>>
    BY DEF Leave, demarcar
  <1>2. <<>> \in Seq(Byte) /\ Len(<<>>) = 0 /\ ring \in [Client -> Seq(Byte)]
    BY SMT DEF IInv, TypeOK
  <1>3. /\ ring' \in [Client -> Seq(Byte)]
        /\ \A e \in Client : e # c => ring'[e] = ring[e]
        /\ Len(ring'[c]) = 0
    BY <1>1, <1>2
  <1>4. TypeOK'
    BY <1>1, <1>3 DEF IInv, TypeOK
  <1>5. RingsStayShort'
    BY <1>1, <1>3 DEF IInv, RingsStayShort
  <1> QED
    BY <1>1, <1>4, <1>5 DEF IInv, ShortMessagesNeverFail

LEMMA RestartKeeps ==
  ASSUME IInv, failed = None, Restart
  PROVE  IInv'
  <1> USE Constants
  <1>1. /\ ring' = [c \in Client |-> <<>>] /\ IsReadingMsg' = FALSE
        /\ UNCHANGED <<pc, serving, msg_size, owner, longest, failed>>
    BY DEF Restart
  <1>2. <<>> \in Seq(Byte) /\ Len(<<>>) = 0
    BY SMT
  <1>3. /\ ring' \in [Client -> Seq(Byte)]
        /\ \A c \in Client : Len(ring'[c]) = 0
    BY <1>1, <1>2
  <1>4. TypeOK'
    <2>1. \A c \in Client : Len(ring'[c]) <= RingSize
      BY <1>3
    <2> QED
      BY <1>1, <1>3, <2>1, Zenon DEF IInv, TypeOK
  <1>5. RingsStayShort'
    BY <1>1, <1>3 DEF RingsStayShort
  <1> QED
    BY <1>1, <1>4, <1>5 DEF IInv, ShortMessagesNeverFail

LEMMA StepIInv == IInv /\ [Next]_vars => IInv'
  <1> SUFFICES ASSUME IInv, [Next]_vars PROVE IInv'
    OBVIOUS
  <1>1. CASE Next
    <2>1. failed = None
      BY <1>1 DEF Next
    <2>2. ASSUME NEW c \in Client, Leave(c) PROVE IInv'
      BY <2>1, <2>2, LeaveKeeps
    <2>3. ASSUME NEW c \in Client, NEW d \in Chunk, ProcessMsg(c, d) PROVE IInv'
      BY <2>1, <2>3, ProcessMsgKeeps
    <2>4. CASE ReadMsg
      BY <2>1, <2>4, ReadNothingKeeps, ReadBodyKeeps, ReadHeaderKeeps DEF ReadMsg
    <2>5. CASE Restart
      BY <2>1, <2>5, RestartKeeps
    <2> QED
      BY <1>1, <2>2, <2>3, <2>4, <2>5 DEF Next
  <1>2. CASE UNCHANGED vars
    BY <1>2 DEF vars, demarcar, IInv, TypeOK, RingsStayShort, ShortMessagesNeverFail
  <1> QED
    BY <1>1, <1>2

-----------------------------------------------------------------------------
\* Induction over the naturals, for a set of them.
LEMMA NatLeast ==
  ASSUME NEW S \in SUBSET Nat, S # {}
  PROVE  \E i \in S : \A j \in S : i <= j
  <1> DEFINE R == OpToRel(<, Nat)
  <1>1. IsWellFoundedOn(R, Nat)
    BY NatLessThanWellFounded
  <1>2. R = {ss \in Nat \X Nat : ss[1] < ss[2]}
    BY Zenon DEF OpToRel
  <1> HIDE DEF R
  <1>3. PICK i \in S : \A j \in S : ~(<<j, i>> \in R)
    BY <1>1, WFMin
  <1>4. \A j \in S : j \in Nat /\ i \in Nat /\ ~(j < i)
    <2>1. \A a, b \in Nat : a < b => <<a, b>> \in R
      BY <1>2
    <2> QED
      BY <1>3, <2>1
  <1> QED
    BY <1>4

LEMMA Induction ==
  ASSUME NEW S, 0 \in S, \A n \in Nat : n \in S => n + 1 \in S
  PROVE  \A n \in Nat : n \in S
  <1> SUFFICES ASSUME NEW m \in Nat, m \notin S PROVE FALSE
    OBVIOUS
  <1> DEFINE T == {n \in Nat : n \notin S}
  <1>1. T \in SUBSET Nat /\ T # {}
    OBVIOUS
  <1>2. PICK i \in T : \A j \in T : i <= j
    BY <1>1, NatLeast
  <1>3. i # 0 /\ i \in Nat /\ i \notin S
    OBVIOUS
  <1>4. i - 1 \in Nat /\ ~(i <= i - 1) /\ i = (i - 1) + 1
    BY <1>3
  <1>5. i - 1 \in S
    BY <1>2, <1>4
  <1> QED
    BY <1>3, <1>4, <1>5

-----------------------------------------------------------------------------
\* What atoi returns is a number, and what a header announces a natural one.
LEMMA LeadLengthFacts ==
  ASSUME NEW B, NEW s \in Seq(B), NEW S
  PROVE  LeadLength(s, S) \in 0..Len(s)
  <1> DEFINE T == {n \in 0..Len(s) : n < Len(s) => s[n + 1] \notin S}
  <1>1. Len(s) \in T /\ T \in SUBSET Nat
    OBVIOUS
  <1>2. PICK n \in T : \A j \in T : n <= j
    BY <1>1, NatLeast
  <1>3. n \in 0..Len(s) /\ (n < Len(s) => s[n + 1] \notin S)
    OBVIOUS
  <1>4. ASSUME NEW i \in 1..n PROVE s[i] \in S
    <2>1. i - 1 \in 0..Len(s) /\ i - 1 < Len(s) /\ ~(n <= i - 1) /\ (i - 1) + 1 = i
      BY <1>3
    <2>2. i - 1 \notin T
      BY <1>2, <2>1
    <2> QED
      BY <2>1, <2>2
  <1> HIDE DEF T
  <1>5. \E k \in 0..Len(s) : /\ \A i \in 1..k : s[i] \in S
                             /\ k < Len(s) => s[k + 1] \notin S
    BY <1>3, <1>4
  <1> QED
    BY <1>5 DEF LeadLength

LEMMA ValueIsInt ==
  ASSUME NEW s \in Seq(Byte)
  PROVE  Value(s) \in Int
  <1> DEFINE D == 0..Len(s)
             Sums(f) == f = [n \in D |-> IF n = 0 THEN 0 ELSE 10 * f[n - 1] + s[n]]
             val == CHOOSE f : Sums(f)
             Upto(f, m) == f \in [D -> Int]
                             /\ \A n \in D : n <= m => f[n] = IF n = 0 THEN 0
                                                             ELSE 10 * f[n - 1] + s[n]
             T == {m \in Nat : \E f : Upto(f, m)}
  <1>0. Len(s) \in Nat /\ \A n \in D : n # 0 => s[n] \in Int /\ n - 1 \in D
    BY DEF Byte
  <1> HIDE DEF D
  <1>1. 0 \in T
    <2>1. \A n \in D : n \in Nat
      BY <1>0 DEF D
    <2>2. Upto([n \in D |-> 0], 0)
      BY <2>1
    <2> QED
      BY <2>2
  <1>2. ASSUME NEW m \in Nat, m \in T PROVE m + 1 \in T
    <2>1. PICK f : Upto(f, m)
      BY <1>2
    <2> DEFINE g == [n \in D |-> IF n = m + 1 THEN 10 * f[n - 1] + s[n] ELSE f[n]]
    <2>2. g \in [D -> Int]
      <3>1. \A n \in D : n = m + 1 => f[n - 1] \in Int /\ s[n] \in Int
        BY <1>0, <2>1
      <3> QED
        BY <2>1, <3>1
    <2>3. ASSUME NEW n \in D, n <= m + 1
          PROVE  g[n] = IF n = 0 THEN 0 ELSE 10 * g[n - 1] + s[n]
      <3>1. n \in Nat
        BY <1>0 DEF D
      <3>2. n # 0 => n - 1 \in D /\ n - 1 # m + 1 /\ g[n - 1] = f[n - 1]
        BY <1>0, <2>3, <3>1
      <3>3. CASE n = m + 1
        BY <3>2, <3>3
      <3>4. CASE n # m + 1
        <4>1. n <= m /\ g[n] = f[n]
          BY <2>3, <3>1, <3>4
        <4> QED
          BY <2>1, <3>2, <4>1
      <3> QED
        BY <3>3, <3>4
    <2> HIDE DEF g
    <2>4. Upto(g, m + 1)
      BY <2>2, <2>3
    <2> QED
      BY <2>4
  <1> HIDE DEF T
  <1>3. Len(s) \in T
    BY <1>0, <1>1, <1>2, Induction
  <1>4. PICK f : Upto(f, Len(s))
    BY <1>3 DEF T
  <1>5. Sums(f)
    <2>1. \A n \in D : n <= Len(s)
      BY <1>0 DEF D
    <2> QED
      BY <1>4, <2>1
  <1> HIDE DEF Upto
  <1>6. Sums(val)
    BY <1>5
  <1> HIDE DEF val
  <1> DEFINE U == {m \in Nat : m \in D => val[m] \in Int}
  <1>7. 0 \in U
    BY <1>6
  <1>8. ASSUME NEW m \in Nat, m \in U PROVE m + 1 \in U
    <2>1. CASE m + 1 \in D
      <3>1. m \in D /\ m + 1 # 0 /\ (m + 1) - 1 = m
        BY <1>0, <2>1 DEF D
      <3>2. val[m] \in Int /\ s[m + 1] \in Int
        BY <1>0, <1>8, <2>1, <3>1
      <3>3. val[m + 1] = 10 * val[m] + s[m + 1]
        BY <1>6, <2>1, <3>1
      <3> QED
        BY <3>2, <3>3
    <2> QED
      BY <2>1
  <1>9. Len(s) \in U
    <2> HIDE DEF U
    <2> QED
      BY <1>0, <1>7, <1>8, Induction
  <1>10. Value(s) = val[Len(s)]
    BY Zenon DEF Value, val, Sums, D
  <1>11. Len(s) \in D
    BY <1>0 DEF D
  <1> QED
    BY <1>9, <1>10, <1>11

LEMMA AnnouncedIsNat ==
  ASSUME NEW header \in Seq(Byte), NEW stray \in Seq(Byte)
  PROVE  Announced(header, stray) \in Nat
  <1>1. ASSUME NEW s \in Seq(Byte) PROVE atoi(s) \in Int
    <2> DEFINE text == SubSeq(s, LeadLength(s, {Space}) + 1, Len(s))
               negative == text # <<>> /\ text[1] = Minus
               number == IF negative THEN Tail(text) ELSE text
               digits == SubSeq(number, 1, LeadLength(number, Digit))
    <2>1. LeadLength(s, {Space}) \in 0..Len(s)
      BY LeadLengthFacts, Zenon
    <2>2. text \in Seq(Byte)
      <3>1. Behind(s, LeadLength(s, {Space})) \in Seq(Byte)
        BY <2>1, BehindFacts
      <3> QED
        BY <3>1 DEF Behind
    <2>3. number \in Seq(Byte)
      <3> HIDE DEF text
      <3> QED
        BY <2>2
    <2>4. LeadLength(number, Digit) \in 0..Len(number)
      BY <2>3, LeadLengthFacts
    <2>5. digits \in Seq(Byte)
      <3> HIDE DEF number
      <3> QED
        BY <2>3, <2>4
    <2>6. Value(digits) \in Int
      <3> HIDE DEF digits
      <3> QED
        BY <2>5, ValueIsInt
    <2>7. atoi(s) = IF negative THEN -Value(digits) ELSE Value(digits)
      BY Zenon DEF atoi
    <2> HIDE DEF digits, negative
    <2> QED
      BY <2>6, <2>7
  <1>2. header \o stray \in Seq(Byte)
    OBVIOUS
  <1>3. \A x \in Int : x % Modulus \in Nat
    BY Constants
  <1> QED
    BY <1>1, <1>2, <1>3 DEF Announced
-----------------------------------------------------------------------------
\* The recursion that Messages makes: what is read from position p on, when f says
\* what is read behind it.
Size(s, p) == Announced(SubSeq(s, p, (p + HeaderSize) - 1), <<>>)
From(s, f, p) ==
  LET body == p + HeaderSize
      n == Announced(SubSeq(s, p, body - 1), <<>>)
  IN IF body - 1 > Len(s) THEN <<>>
     ELSE IF n = 0 \/ body + n - 1 > Len(s) THEN <<>>
     ELSE <<SubSeq(s, body, body + n - 1)>> \o f[body + n]

LEMMA FromEnds ==
  ASSUME NEW s, NEW f, NEW p,
         \/ (p + HeaderSize) - 1 > Len(s)
         \/ Size(s, p) = 0
         \/ p + HeaderSize + (Size(s, p) - 1) > Len(s)
  PROVE  From(s, f, p) = <<>>
  BY Zenon DEF From, Size

LEMMA FromGoesOn ==
  ASSUME NEW s, NEW f, NEW p,
         ~((p + HeaderSize) - 1 > Len(s)),
         Size(s, p) # 0,
         ~(p + HeaderSize + (Size(s, p) - 1) > Len(s))
  PROVE  From(s, f, p) = <<SubSeq(s, p + HeaderSize, p + HeaderSize + (Size(s, p) - 1))>>
                           \o f[p + HeaderSize + Size(s, p)]
  BY Zenon DEF From, Size

LEMMA SubSeqType ==
  ASSUME NEW B, NEW s \in Seq(B), NEW a \in Nat \ {0}, NEW b \in Int, b <= Len(s)
  PROVE  /\ SubSeq(s, a, b) \in Seq(B)
         /\ Len(SubSeq(s, a, b)) = IF b < a THEN 0 ELSE b - a + 1
  BY SMT

LEMMA SizeIsNat ==
  ASSUME NEW s \in Seq(Byte), NEW p \in Nat \ {0}, (p + HeaderSize) - 1 <= Len(s)
  PROVE  Size(s, p) \in Nat
  <1>1. SubSeq(s, p, (p + HeaderSize) - 1) \in Seq(Byte)
    <2>1. (p + HeaderSize) - 1 \in Int
      BY Constants
    <2> QED
      BY <2>1, SubSeqType
  <1>2. <<>> \in Seq(Byte)
    OBVIOUS
  <1> QED
    BY <1>1, <1>2, AnnouncedIsNat DEF Size

\* One more in front.
LEMMA ConsFacts ==
  ASSUME NEW B, NEW e \in B, NEW t \in Seq(B)
  PROVE  /\ <<e>> \o t \in Seq(B) /\ Len(<<e>> \o t) = Len(t) + 1
         /\ (<<e>> \o t)[1] = e
         /\ \A i \in 1..Len(t) : (<<e>> \o t)[i + 1] = t[i]
  <1>1. <<e>> \in Seq(B) /\ Len(<<e>>) = 1 /\ <<e>>[1] = e /\ Len(t) \in Nat
    OBVIOUS
  <1>2. /\ <<e>> \o t \in Seq(B) /\ Len(<<e>> \o t) = Len(<<e>>) + Len(t)
        /\ \A i \in 1..(Len(<<e>>) + Len(t)) :
             (<<e>> \o t)[i] = IF i <= Len(<<e>>) THEN <<e>>[i] ELSE t[i - Len(<<e>>)]
    BY <1>1, ConcatProperties, Zenon
  <1> DEFINE u == <<e>> \o t
  <1> HIDE DEF u
  <1>3. /\ Len(u) = Len(t) + 1
        /\ \A i \in 1..(1 + Len(t)) : u[i] = IF i <= 1 THEN e ELSE t[i - 1]
    BY <1>1, <1>2 DEF u
  <1>4. u[1] = e /\ \A i \in 1..Len(t) : u[i + 1] = t[i]
    <2>1. \A i \in 1..Len(t) : i + 1 \in 1..(1 + Len(t)) /\ ~(i + 1 <= 1) /\ (i + 1) - 1 = i
      BY <1>1
    <2>2. 1 \in 1..(1 + Len(t)) /\ 1 <= 1
      BY <1>1
    <2> QED
      BY <1>3, <2>1, <2>2
  <1> QED
    BY <1>2, <1>3, <1>4 DEF u

LEMMA FromFacts ==
  ASSUME NEW s \in Seq(Byte), NEW p \in 1..(Len(s) + 1),
         NEW f \in [1..(Len(s) + 1) -> Seq(Seq(Byte))]
  PROVE  /\ From(s, f, p) \in Seq(Seq(Byte))
         /\ \A g : (\A q \in 1..(Len(s) + 1) : q > p => g[q] = f[q])
                     => From(s, g, p) = From(s, f, p)
  <1>1. CASE \/ (p + HeaderSize) - 1 > Len(s)
             \/ Size(s, p) = 0
             \/ p + HeaderSize + (Size(s, p) - 1) > Len(s)
    <2>1. From(s, f, p) = <<>> /\ \A g : From(s, g, p) = <<>>
      BY <1>1, FromEnds
    <2> QED
      BY <2>1
  <1>2. CASE /\ ~((p + HeaderSize) - 1 > Len(s))
             /\ Size(s, p) # 0
             /\ ~(p + HeaderSize + (Size(s, p) - 1) > Len(s))
    <2> DEFINE n == Size(s, p)
               q == p + HeaderSize + n
               e == SubSeq(s, p + HeaderSize, p + HeaderSize + (n - 1))
    <2>1. p \in Nat \ {0} /\ (p + HeaderSize) - 1 <= Len(s) /\ Len(s) \in Nat
      BY <1>2, Constants
    <2>2. n \in Nat
      BY <2>1, SizeIsNat
    <2>3. /\ q \in 1..(Len(s) + 1) /\ q > p /\ p + HeaderSize \in Nat \ {0}
          /\ p + HeaderSize + (n - 1) \in Int /\ p + HeaderSize + (n - 1) <= Len(s)
      <3> HIDE DEF n
      <3> QED
        BY <1>2, <2>1, <2>2, Constants DEF n
    <2>4. \A g : From(s, g, p) = <<e>> \o g[q]
      <3>1. ASSUME NEW g PROVE From(s, g, p) = <<e>> \o g[q]
        BY <1>2, FromGoesOn
      <3> QED
        BY <3>1
    <2> HIDE DEF n, q
    <2>5. e \in Seq(Byte)
      BY <2>3, SubSeqType
    <2> HIDE DEF e
    <2>6. <<e>> \o f[q] \in Seq(Seq(Byte))
      <3>1. f[q] \in Seq(Seq(Byte))
        BY <2>3
      <3> QED
        BY <2>5, <3>1, ConsFacts
    <2>7. ASSUME NEW g, \A r \in 1..(Len(s) + 1) : r > p => g[r] = f[r]
          PROVE  From(s, g, p) = From(s, f, p)
      <3>1. g[q] = f[q]
        BY <2>3, <2>7
      <3> QED
        BY <2>4, <3>1
    <2> QED
      BY <2>4, <2>6, <2>7
  <1> QED
    BY <1>1, <1>2

\* There is a function that satisfies the recursion, and Messages is its value at the
\* beginning of the stream.
LEMMA MessagesFacts ==
  ASSUME NEW s \in Seq(Byte)
  PROVE  \E f \in [1..(Len(s) + 1) -> Seq(Seq(Byte))] :
           /\ Messages(s) = f[1]
           /\ \A p \in 1..(Len(s) + 1) : f[p] = From(s, f, p)
  <1> DEFINE D == 1..(Len(s) + 1)
             Reads(f) == f = [p \in D |-> From(s, f, p)]
             from == CHOOSE f : Reads(f)
             Last(m) == {p \in D : p + m > Len(s) + 1}
             Does(f, m) == f \in [D -> Seq(Seq(Byte))] /\ \A p \in Last(m) : f[p] = From(s, f, p)
             T == {m \in Nat : \E f : Does(f, m)}
             U == {m \in Nat : \A p \in Last(m) : from[p] \in Seq(Seq(Byte))}
  <1>0. Len(s) \in Nat /\ Last(0) = {} /\ Last(Len(s) + 1) = D
    OBVIOUS
  <1>a. ASSUME NEW m \in Nat, NEW p \in Last(m + 1)
        PROVE  p \in D /\ \A q \in D : q > p => q \in Last(m)
    OBVIOUS
  <1>b. \A p \in D, q \in D : q > p => ~(p > q) /\ q # p
    OBVIOUS
  <1>1. 0 \in T
    <2>1. [p \in D |-> <<>>] \in [D -> Seq(Seq(Byte))]
      OBVIOUS
    <2> HIDE DEF D, Last
    <2> QED
      BY <1>0, <2>1
  <1>2. ASSUME NEW m \in Nat, m \in T PROVE m + 1 \in T
    <2>1. PICK f : Does(f, m)
      BY <1>2
    <2> DEFINE g == [p \in D |-> IF p \in Last(m) THEN f[p] ELSE From(s, f, p)]
    <2>2. g \in [D -> Seq(Seq(Byte))]
      <3>1. \A p \in D : From(s, f, p) \in Seq(Seq(Byte)) /\ f[p] \in Seq(Seq(Byte))
        BY <2>1, FromFacts
      <3> HIDE DEF D, Last
      <3> QED
        BY <3>1
    <2>3. \A p \in D : g[p] = From(s, f, p)
      <3> HIDE DEF D, Last
      <3> QED
        BY <2>1
    <2>4. ASSUME NEW p \in Last(m + 1) PROVE g[p] = From(s, g, p)
      <3>1. p \in D /\ \A q \in D : q > p => q \in Last(m)
        BY <1>a
      <3>2. \A q \in D : q > p => g[q] = f[q]
        <4> HIDE DEF D, Last
        <4> QED
          BY <3>1
      <3>3. From(s, g, p) = From(s, f, p)
        <4> HIDE DEF g
        <4> QED
          BY <2>1, <3>1, <3>2, FromFacts
      <3> QED
        BY <2>3, <3>1, <3>3
    <2> HIDE DEF g, D, Last
    <2>5. Does(g, m + 1)
      BY <2>2, <2>4
    <2> QED
      BY <2>5
  <1>3. Len(s) + 1 \in T
    <2> HIDE DEF T
    <2> QED
      BY <1>0, <1>1, <1>2, Induction
  <1>4. PICK f : Does(f, Len(s) + 1)
    BY <1>3
  <1>5. Reads(f)
    <2> HIDE DEF D, Last
    <2> QED
      BY <1>0, <1>4
  <1>6. Reads(from)
    <2> HIDE DEF Reads
    <2> QED
      BY <1>5
  <1> HIDE DEF from
  <1>7. DOMAIN from = D /\ \A p \in D : from[p] = From(s, from, p)
    <2> HIDE DEF D
    <2> QED
      BY <1>6
  <1>8. 0 \in U
    <2> HIDE DEF Last
    <2> QED
      BY <1>0
  <1>9. ASSUME NEW m \in Nat, m \in U PROVE m + 1 \in U
    <2>1. ASSUME NEW p \in Last(m + 1) PROVE from[p] \in Seq(Seq(Byte))
      <3>1. p \in D /\ \A q \in D : q > p => q \in Last(m)
        BY <1>a
      <3> DEFINE h == [q \in D |-> IF q > p THEN from[q] ELSE <<>>]
      <3>2. h \in [D -> Seq(Seq(Byte))]
        <4>1. \A q \in D : q > p => from[q] \in Seq(Seq(Byte))
          <5> HIDE DEF D, Last
          <5> QED
            BY <1>9, <3>1
        <4> HIDE DEF D
        <4> QED
          BY <4>1
      <3>3. \A q \in D : q > p => from[q] = h[q]
        <4> HIDE DEF D
        <4> QED
          OBVIOUS
      <3> HIDE DEF h
      <3>4. From(s, from, p) = From(s, h, p) /\ From(s, h, p) \in Seq(Seq(Byte))
        BY <3>1, <3>2, <3>3, FromFacts
      <3> QED
        BY <1>7, <3>1, <3>4
    <2> HIDE DEF Last
    <2> QED
      BY <2>1
  <1>10. Len(s) + 1 \in U
    <2> HIDE DEF U
    <2> QED
      BY <1>0, <1>8, <1>9, Induction
  <1>11. from \in [D -> Seq(Seq(Byte))]
    <2>1. from = [p \in D |-> from[p]]
      <3> HIDE DEF D
      <3> QED
        BY <1>6, <1>7
    <2>2. \A p \in D : from[p] \in Seq(Seq(Byte))
      <3> HIDE DEF D, Last
      <3> QED
        BY <1>0, <1>10
    <2> HIDE DEF D
    <2> QED
      BY <2>1, <2>2
  <1>12. Messages(s) = from[1]
    BY Zenon DEF Messages, from, Reads, D, From
  <1> HIDE DEF Reads
  <1> QED
    BY <1>7, <1>11, <1>12
-----------------------------------------------------------------------------
\* New bytes at the end of a stream touch neither a piece of it nor where what is
\* left of it begins.
LEMMA SubSeqOfConcat ==
  ASSUME NEW B, NEW s \in Seq(B), NEW t \in Seq(B),
         NEW a \in Nat \ {0}, NEW b \in Int, b <= Len(s)
  PROVE  SubSeq(s \o t, a, b) = SubSeq(s, a, b)
  BY SMT

LEMMA RestOfConcat ==
  ASSUME NEW B, NEW s \in Seq(B), NEW d \in Seq(B), NEW p \in 1..(Len(s) + 1)
  PROVE  SubSeq(s \o d, p, Len(s \o d)) = SubSeq(s, p, Len(s)) \o d
  <1> DEFINE whole == SubSeq(s \o d, p, Len(s \o d))
             rest == SubSeq(s, p, Len(s))
             R == Len(s) + 1 - p
  <1>1. /\ s \o d \in Seq(B) /\ Len(s \o d) = Len(s) + Len(d)
        /\ Len(s) \in Nat /\ Len(d) \in Nat /\ p \in Nat \ {0} /\ R \in Nat
    BY SMT
  <1>2. /\ whole \in Seq(B) /\ Len(whole) = R + Len(d)
        /\ \A i \in 1..(R + Len(d)) : whole[i] = (s \o d)[p + (i - 1)]
    BY <1>1, SMT
  <1>3. /\ rest \in Seq(B) /\ Len(rest) = R
        /\ \A i \in 1..R : rest[i] = s[p + (i - 1)]
    BY <1>1, SMT
  <1> HIDE DEF whole, rest
  <1>4. rest \o d \in Seq(B) /\ Len(rest \o d) = R + Len(d)
    <2>1. rest \o d \in Seq(B) /\ Len(rest \o d) = Len(rest) + Len(d)
      BY <1>3, ConcatProperties
    <2> QED
      BY <1>1, <1>3, <2>1
  <1>5. ASSUME NEW i \in 1..(R + Len(d))
        PROVE  whole[i] = (rest \o d)[i]
    <2>1. CASE i <= R
      <3>1. (s \o d)[p + (i - 1)] = s[p + (i - 1)] /\ (rest \o d)[i] = rest[i] /\ i \in 1..R
        BY <1>1, <1>3, <2>1, SMT
      <3> QED
        BY <1>2, <1>3, <3>1
    <2>2. CASE i > R
      <3>1. (s \o d)[p + (i - 1)] = d[p + (i - 1) - Len(s)] /\ (rest \o d)[i] = d[i - R]
            /\ p + (i - 1) - Len(s) = i - R
        BY <1>1, <1>3, <2>2, SMT
      <3> QED
        BY <1>2, <3>1
    <2>3. i <= R \/ i > R
      BY <1>1
    <2> QED
      BY <2>1, <2>2, <2>3
  <1>6. whole = rest \o d
    BY <1>2, <1>4, <1>5, SeqEqual
  <1> QED
    BY <1>6 DEF whole, rest

\* What is left of a stream is cut where the stream is.
LEMMA RestLength ==
  ASSUME NEW B, NEW s \in Seq(B), NEW p \in 1..(Len(s) + 1)
  PROVE  /\ SubSeq(s, p, Len(s)) \in Seq(B)
         /\ Len(SubSeq(s, p, Len(s))) = Len(s) + 1 - p
  BY SMT

LEMMA CutOfRest ==
  ASSUME NEW B, NEW s \in Seq(B), NEW p \in 1..(Len(s) + 1), NEW n \in Nat,
         p + n <= Len(s) + 1
  PROVE  /\ Front(SubSeq(s, p, Len(s)), n) = SubSeq(s, p, p + (n - 1))
         /\ Behind(SubSeq(s, p, Len(s)), n) = SubSeq(s, p + n, Len(s))
         /\ Front(SubSeq(s, p, Len(s)), n) \in Seq(B)
  <1> DEFINE r == SubSeq(s, p, Len(s))
  <1>1. r \in Seq(B) /\ Len(r) = Len(s) + 1 - p /\ Len(s) \in Nat
    BY RestLength
  <1>2. \A i \in 1..Len(r) : r[i] = s[p + (i - 1)]
    BY <1>1
  <1> HIDE DEF r
  <1>3. SubSeq(r, 1, n) = SubSeq(s, p, p + (n - 1)) /\ SubSeq(r, 1, n) \in Seq(B)
    BY <1>1, <1>2
  <1>4. SubSeq(r, n + 1, Len(r)) = SubSeq(s, p + n, Len(s))
    BY <1>1, <1>2
  <1> QED
    BY <1>3, <1>4 DEF Front, Behind, r

\* The messages before and behind one more.
LEMMA OneMore ==
  ASSUME NEW d \in Seq(Seq(Byte)), NEW m \in Seq(Byte), NEW t \in Seq(Seq(Byte)),
         NEW u, u = <<m>>
  PROVE  d \o (u \o t) = Append(d, m) \o t
  <1>1. u \in Seq(Seq(Byte))
    OBVIOUS
  <1>2. Append(d, m) = d \o u
    <2>1. Append(d, m) = d \o <<m>>
      BY AppendIsConcat, Zenon
    <2> QED
      BY <2>1
  <1>3. (d \o u) \o t = d \o (u \o t)
    BY <1>1, ConcatAssociative
  <1> QED
    BY <1>2, <1>3
-----------------------------------------------------------------------------
Places(s) == 1..(Len(s) + 1)

\* f tells what a stream says from each of its positions on.
Says(f, s) == /\ f \in [Places(s) -> Seq(Seq(Byte))]
              /\ \A p \in Places(s) : f[p] = From(s, f, p)

\* Whatever arrives behind s, the stream says d, and then what it says from p on.
Parsed(s, d, p) ==
  /\ p \in Places(s)
  /\ \A t \in Seq(Byte) : \A f : Says(f, s \o t) => f[1] = d \o f[p]

LEMMA ParsedAtFirst == Parsed(<<>>, <<>>, 1)
  <1>1. 1 \in Places(<<>>)
    BY DEF Places
  <1>2. ASSUME NEW t \in Seq(Byte), NEW f, Says(f, <<>> \o t)
        PROVE  f[1] = <<>> \o f[1]
    <2>1. <<>> \o t \in Seq(Byte)
      OBVIOUS
    <2>2. f[1] \in Seq(Seq(Byte))
      <3>1. 1 \in Places(<<>> \o t)
        BY <2>1 DEF Places
      <3> QED
        BY <1>2, <3>1 DEF Says
    <2> QED
      BY <2>2, ConcatEmptySeq
  <1> QED
    BY <1>1, <1>2 DEF Parsed

LEMMA ParsedByArrival ==
  ASSUME NEW s \in Seq(Byte), NEW new \in Seq(Byte), NEW d, NEW p, Parsed(s, d, p)
  PROVE  Parsed(s \o new, d, p)
  <1>1. s \o new \in Seq(Byte) /\ Len(s) \in Nat /\ Len(s) <= Len(s \o new)
    OBVIOUS
  <1>2. p \in Places(s \o new)
    BY <1>1 DEF Parsed, Places
  <1>3. ASSUME NEW t \in Seq(Byte), NEW f, Says(f, (s \o new) \o t)
        PROVE  f[1] = d \o f[p]
    <2>1. (s \o new) \o t = s \o (new \o t)
      BY ConcatAssociative
    <2>2. new \o t \in Seq(Byte)
      OBVIOUS
    <2> QED
      BY <1>3, <2>1, <2>2 DEF Parsed
  <1> QED
    BY <1>2, <1>3 DEF Parsed

LEMMA ParsedByDelivery ==
  ASSUME NEW s \in Seq(Byte), NEW d \in Seq(Seq(Byte)), NEW p \in Places(s),
         NEW n \in Nat \ {0}, Parsed(s, d, p),
         (p + HeaderSize) - 1 <= Len(s), Size(s, p) = n,
         p + HeaderSize + (n - 1) <= Len(s)
  PROVE  LET m == SubSeq(s, p + HeaderSize, p + HeaderSize + (n - 1))
         IN /\ m \in Seq(Byte)
            /\ Parsed(s, Append(d, m), p + HeaderSize + n)
  <1>0. ASSUME NEW e \in Seq(Byte), NEW x \in Seq(Seq(Byte))
        PROVE  d \o (<<e>> \o x) = Append(d, e) \o x
    <2>1. ASSUME NEW u, u = <<e>> PROVE d \o (u \o x) = Append(d, e) \o x
      BY <2>1, OneMore, Zenon
    <2> QED
      BY <2>1
  <1> DEFINE body == p + HeaderSize
             q == body + n
             m == SubSeq(s, body, body + (n - 1))
  <1>1. /\ p \in Nat \ {0} /\ body \in Nat \ {0} /\ q \in Nat \ {0} /\ Len(s) \in Nat
        /\ body - 1 \in Int /\ body + (n - 1) \in Int
        /\ body - 1 <= Len(s) /\ body + (n - 1) <= Len(s) /\ q <= Len(s) + 1
    BY Constants DEF Places
  <1>2. m \in Seq(Byte) /\ q \in Places(s)
    BY <1>1, SubSeqType DEF Places
  <1>3. ASSUME NEW t \in Seq(Byte), NEW f, Says(f, s \o t)
        PROVE  f[1] = Append(d, m) \o f[q]
    <2> DEFINE w == s \o t
    <2>1. w \in Seq(Byte) /\ Len(w) \in Nat /\ Len(s) <= Len(w)
      OBVIOUS
    <2>2. SubSeq(w, p, body - 1) = SubSeq(s, p, body - 1)
      BY <1>1, SubSeqOfConcat
    <2>3. SubSeq(w, body, body + (n - 1)) = m
      <3>1. ASSUME NEW a \in Nat \ {0}, NEW b \in Int, b <= Len(s)
            PROVE  SubSeq(w, a, b) = SubSeq(s, a, b)
        BY <3>1, SubSeqOfConcat
      <3> HIDE DEF w, body
      <3> QED
        BY <1>1, <3>1
    <2> HIDE DEF w
    <2>4. Size(w, p) = n
      BY <2>2 DEF Size
    <2> HIDE DEF m
    <2>5. ~(body - 1 > Len(w)) /\ Size(w, p) # 0 /\ ~(body + (Size(w, p) - 1) > Len(w))
      BY <1>1, <2>1, <2>4
    <2>6. From(w, f, p) = <<m>> \o f[q]
      BY <2>3, <2>4, <2>5, FromGoesOn
    <2>7. p \in Places(w) /\ q \in Places(w)
      BY <1>1, <2>1 DEF Places
    <2> HIDE DEF q
    <2>8. f[p] = <<m>> \o f[q] /\ f[q] \in Seq(Seq(Byte))
      BY <1>3, <2>6, <2>7 DEF Says, w
    <2>9. f[1] = d \o f[p]
      BY <1>3 DEF Parsed
    <2>10. d \o (<<m>> \o f[q]) = Append(d, m) \o f[q]
      BY <1>0, <1>2, <2>8, Zenon
    <2> QED
      BY <2>8, <2>9, <2>10, Zenon
  <1> HIDE DEF m, q
  <1>4. Parsed(s, Append(d, m), q)
    BY <1>2, <1>3 DEF Parsed
  <1> QED
    BY <1>2, <1>4 DEF m, q

\* What is delivered are the first messages of the stream, and all of them when none
\* is complete behind position p.
LEMMA ParsedMessages ==
  ASSUME NEW s \in Seq(Byte), NEW d \in Seq(Seq(Byte)), NEW p, Parsed(s, d, p)
  PROVE  /\ Len(d) <= Len(Messages(s))
         /\ \A i \in 1..Len(d) : d[i] = Messages(s)[i]
         /\ \/ (p + HeaderSize) - 1 > Len(s)
            \/ Size(s, p) = 0
            \/ p + HeaderSize + (Size(s, p) - 1) > Len(s)
            => d = Messages(s)
  <1>1. PICK f : Messages(s) = f[1] /\ Says(f, s)
    BY MessagesFacts DEF Says, Places
  <1>2. s \o <<>> = s /\ <<>> \in Seq(Byte)
    BY ConcatEmptySeq
  <1>3. Messages(s) = d \o f[p]
    BY <1>1, <1>2 DEF Parsed
  <1>4. f[p] \in Seq(Seq(Byte)) /\ f[p] = From(s, f, p)
    BY <1>1 DEF Says, Parsed
  <1>5. /\ Len(Messages(s)) = Len(d) + Len(f[p])
        /\ \A i \in 1..(Len(d) + Len(f[p])) :
             Messages(s)[i] = IF i <= Len(d) THEN d[i] ELSE f[p][i - Len(d)]
    BY <1>3, <1>4, ConcatProperties
  <1>6. Len(d) \in Nat /\ Len(f[p]) \in Nat
    BY <1>4
  <1>7. Len(d) <= Len(Messages(s)) /\ \A i \in 1..Len(d) : d[i] = Messages(s)[i]
    <2>1. Len(d) <= Len(d) + Len(f[p])
      BY <1>6
    <2>2. \A i \in 1..Len(d) : i \in 1..(Len(d) + Len(f[p])) /\ i <= Len(d)
      BY <1>6
    <2> QED
      BY <1>5, <2>1, <2>2
  <1>8. ASSUME \/ (p + HeaderSize) - 1 > Len(s)
               \/ Size(s, p) = 0
               \/ p + HeaderSize + (Size(s, p) - 1) > Len(s)
        PROVE  d = Messages(s)
    <2>1. f[p] = <<>>
      BY <1>4, <1>8, FromEnds
    <2> QED
      BY <1>3, <2>1, ConcatEmptySeq
  <1> QED
    BY <1>7, <1>8
-----------------------------------------------------------------------------
\* The demarcar waits for the body of a message of c.
Awaited(c) == IsReadingMsg /\ owner = c

\* Where the ring of c begins in its stream, when the stream is read up to p: there,
\* or behind the header that was read last.
RingFrom(c, p) ==
  LET s == received[c]
  IN IF Awaited(c)
     THEN /\ (p + HeaderSize) - 1 <= Len(s)
          /\ Size(s, p) = msg_size
          /\ ring[c] = SubSeq(s, p + HeaderSize, Len(s))
     ELSE ring[c] = SubSeq(s, p, Len(s))

Framed(c) ==
  \E p \in Nat \ {0} : /\ Parsed(received[c], delivered[c], p)
                       /\ c \in connected /\ failed = None => RingFrom(c, p)

\* The loop of ReadMsg ran until bytes were missing.
Drained(c) == Len(ring[c]) < IF Awaited(c) THEN msg_size ELSE HeaderSize

\* What makes FramedInOrder and NothingLeftBehind inductive.
FInv ==
  /\ received \in [Client -> Seq(Byte)]
  /\ delivered \in [Client -> Seq(Seq(Byte))]
  /\ connected \subseteq Client
  /\ pc = "read" /\ failed = None => serving \in connected
  /\ \A c \in Client \ torn : Framed(c)
  /\ failed = None => \A c \in connected \ (torn \cup held) :
                        pc = "idle" \/ c # serving => Drained(c)

LEMMA InitFInv == Init => FInv
  <1> SUFFICES ASSUME Init PROVE FInv
    OBVIOUS
  <1>1. /\ ring = [c \in Client |-> <<>>] /\ received = [c \in Client |-> <<>>]
        /\ delivered = [c \in Client |-> <<>>] /\ connected = Client
        /\ pc = "idle" /\ failed = None /\ ~IsReadingMsg
    BY DEF Init
  <1>2. received \in [Client -> Seq(Byte)] /\ delivered \in [Client -> Seq(Seq(Byte))]
    BY <1>1, SMT
  <1>3. ASSUME NEW c \in Client PROVE Framed(c) /\ Drained(c)
    <2>1. ring[c] = <<>> /\ received[c] = <<>> /\ delivered[c] = <<>>
      BY <1>1
    <2>2. Len(<<>>) = 0 /\ SubSeq(<<>>, 1, Len(<<>>)) = <<>>
      OBVIOUS
    <2>3. RingFrom(c, 1)
      BY <1>1, <2>1, <2>2 DEF RingFrom, Awaited
    <2>4. 1 \in Nat \ {0}
      OBVIOUS
    <2>5. Framed(c)
      BY <2>1, <2>3, <2>4, ParsedAtFirst DEF Framed
    <2> QED
      BY <1>1, <2>1, <2>2, <2>5, Constants DEF Drained, Awaited
  <1> QED
    BY <1>1, <1>2, <1>3 DEF FInv

\* A client that a step leaves alone stays framed and drained.
LEMMA FramedStays ==
  ASSUME NEW c \in Client, Framed(c), failed = None,
         received'[c] = received[c], delivered'[c] = delivered[c],
         c \in connected' /\ failed' = None => c \in connected /\ ring'[c] = ring[c],
         Awaited(c)' <=> Awaited(c), Awaited(c) => msg_size' = msg_size
  PROVE  Framed(c)'
  <1>1. PICK p \in Nat \ {0} : /\ Parsed(received[c], delivered[c], p)
                               /\ c \in connected => RingFrom(c, p)
    BY DEF Framed
  <1>2. Parsed(received[c], delivered[c], p)'
    BY <1>1
  <1>3. ASSUME c \in connected', failed' = None PROVE RingFrom(c, p)'
    BY <1>1, <1>3 DEF RingFrom
  <1> QED
    BY <1>2, <1>3 DEF Framed

LEMMA DrainedStays ==
  ASSUME NEW c \in Client, Drained(c), ring'[c] = ring[c],
         Awaited(c)' <=> Awaited(c), Awaited(c) => msg_size' = msg_size
  PROVE  Drained(c)'
  BY DEF Drained
-----------------------------------------------------------------------------
\* What every step finds.
LEMMA FInvFacts ==
  ASSUME IInv, FInv
  PROVE  /\ ring \in [Client -> Seq(Byte)]
         /\ received \in [Client -> Seq(Byte)]
         /\ delivered \in [Client -> Seq(Seq(Byte))]
         /\ connected \subseteq Client
         /\ msg_size \in Nat
         /\ IsReadingMsg \in BOOLEAN
         /\ IsReadingMsg => msg_size # 0
         /\ \A c \in Client : /\ ring[c] \in Seq(Byte) /\ Len(ring[c]) \in Nat
                              /\ received[c] \in Seq(Byte) /\ Len(received[c]) \in Nat
                              /\ delivered[c] \in Seq(Seq(Byte))
  <1>1. /\ ring \in [Client -> Seq(Byte)] /\ received \in [Client -> Seq(Byte)]
        /\ delivered \in [Client -> Seq(Seq(Byte))] /\ connected \subseteq Client
        /\ IsReadingMsg \in BOOLEAN /\ (IsReadingMsg => msg_size # 0)
        /\ msg_size \in 0..(Modulus - 1)
    BY DEF IInv, TypeOK, FInv
  <1>2. \A s \in Seq(Byte) : Len(s) \in Nat
    OBVIOUS
  <1>3. msg_size \in Nat
    BY <1>1
  <1> QED
    BY <1>1, <1>2, <1>3

\* Position p of a stream whose ring begins there is a position.
LEMMA RingFromPlaces ==
  ASSUME NEW c \in Client, received[c] \in Seq(Byte), NEW p \in Nat \ {0},
         Parsed(received[c], delivered[c], p), RingFrom(c, p)
  PROVE  /\ p \in Places(received[c])
         /\ Awaited(c) => /\ p + HeaderSize \in Places(received[c])
                          /\ Len(ring[c]) = Len(received[c]) + 1 - (p + HeaderSize)
         /\ ~Awaited(c) => Len(ring[c]) = Len(received[c]) + 1 - p
  <1>1. p \in Places(received[c]) /\ Len(received[c]) \in Nat
    BY DEF Parsed
  <1>2. Awaited(c) => p + HeaderSize \in Places(received[c])
    BY <1>1, Constants DEF RingFrom, Places
  <1>3. \A q \in Places(received[c]) :
          Len(SubSeq(received[c], q, Len(received[c]))) = Len(received[c]) + 1 - q
    BY RestLength DEF Places
  <1> QED
    BY <1>1, <1>2, <1>3 DEF RingFrom

LEMMA ProcessMsgFrames ==
  ASSUME IInv, FInv, failed = None, NEW c \in Client, NEW d \in Chunk, ProcessMsg(c, d)
  PROVE  FInv'
  <1>1. /\ pc = "idle" /\ c \in connected /\ serving' = c
        /\ received' = [received EXCEPT ![c] = @ \o d]
        /\ UNCHANGED <<IsReadingMsg, msg_size, owner, longest, delivered, connected, torn>>
    BY DEF ProcessMsg, demarcar
  <1>2. d \in Seq(Byte)
    BY ChunkFacts
  <1>3. /\ received[c] \o d \in Seq(Byte)
        /\ received' \in [Client -> Seq(Byte)]
        /\ received'[c] = received[c] \o d
        /\ \A e \in Client : e # c => received'[e] = received[e]
    BY <1>1, <1>2, FInvFacts
  <1>4. \A e \in Client : Awaited(e)' = Awaited(e)
    BY <1>1 DEF Awaited
  <1>5. \A p : Parsed(received[c], delivered[c], p) => Parsed(received'[c], delivered'[c], p)
    BY <1>1, <1>2, <1>3, FInvFacts, ParsedByArrival
  <1>6. CASE RingSize - Len(ring[c]) < Len(d)
    <2>1. failed' = "assert" /\ failed' # None /\ ring' = ring /\ pc' = pc
      BY <1>6, Constants DEF ProcessMsg
    <2>2. ASSUME NEW e \in Client, e \notin torn' PROVE Framed(e)'
      <3>1. Framed(e)
        BY <1>1, <2>2 DEF FInv
      <3>2. CASE e = c
        BY <1>5, <2>1, <3>1, <3>2 DEF Framed
      <3>3. CASE e # c
        BY <1>1, <1>3, <2>1, <3>1, <3>3 DEF Framed
      <3> QED
        BY <3>2, <3>3
    <2> QED
      BY <1>1, <1>3, <2>1, <2>2 DEF FInv
  <1>7. CASE ~(RingSize - Len(ring[c]) < Len(d))
    <2>1. /\ failed' = failed
          /\ ring' = [ring EXCEPT ![c] = @ \o d]
          /\ pc' = IF Len(ring'[c]) >= Needed THEN "read" ELSE "idle"
          /\ held' = IF pc' = "idle" /\ IsReadingMsg /\ owner # c
                     THEN held \cup {c} ELSE held
      BY <1>7 DEF ProcessMsg, IsBufferReadyToFlush
    <2>2. /\ ring'[c] = ring[c] \o d
          /\ \A e \in Client : e # c => ring'[e] = ring[e]
          /\ Len(ring'[c]) \in Nat
      <3>1. ring[c] \o d \in Seq(Byte)
        BY <1>2, FInvFacts
      <3> QED
        BY <2>1, <3>1, FInvFacts
    <2>3. ASSUME c \notin torn PROVE Framed(c)'
      <3>1. PICK p \in Nat \ {0} : Parsed(received[c], delivered[c], p) /\ RingFrom(c, p)
        BY <1>1, <2>3 DEF FInv, Framed
      <3>2. /\ p \in Places(received[c])
            /\ Awaited(c) => p + HeaderSize \in Places(received[c])
        BY <3>1, FInvFacts, RingFromPlaces
      <3> DEFINE s == received[c]
                 w == received'[c]
      <3>3. \A q \in Places(s) : SubSeq(w, q, Len(w)) = SubSeq(s, q, Len(s)) \o d
        BY <1>2, <1>3, FInvFacts, RestOfConcat DEF Places
      <3>4. CASE Awaited(c)
        <4>1. /\ (p + HeaderSize) - 1 <= Len(s) /\ Size(s, p) = msg_size
              /\ ring[c] = SubSeq(s, p + HeaderSize, Len(s))
          BY <3>1, <3>4 DEF RingFrom
        <4>2. Len(s) <= Len(w) /\ Len(s) \in Nat /\ Len(w) \in Nat
          BY <1>2, <1>3, FInvFacts
        <4>3. p \in Nat \ {0} /\ (p + HeaderSize) - 1 \in Int
          BY Constants
        <4>4. Size(w, p) = Size(s, p)
          <5>1. SubSeq(w, p, (p + HeaderSize) - 1) = SubSeq(s, p, (p + HeaderSize) - 1)
            BY <1>2, <1>3, <4>1, <4>3, FInvFacts, SubSeqOfConcat
          <5> QED
            BY <5>1 DEF Size
        <4>5. (p + HeaderSize) - 1 <= Len(w)
          BY <4>1, <4>2, <4>3
        <4>6. ring'[c] = SubSeq(w, p + HeaderSize, Len(w))
          BY <2>2, <3>2, <3>3, <3>4, <4>1
        <4>7. RingFrom(c, p)'
          BY <1>1, <1>4, <3>4, <4>1, <4>4, <4>5, <4>6 DEF RingFrom
        <4> QED
          BY <1>5, <3>1, <4>7 DEF Framed
      <3>5. CASE ~Awaited(c)
        <4>1. ring[c] = SubSeq(s, p, Len(s))
          BY <3>1, <3>5 DEF RingFrom
        <4>2. ring'[c] = SubSeq(w, p, Len(w))
          BY <2>2, <3>2, <3>3, <4>1
        <4>3. RingFrom(c, p)'
          BY <1>4, <3>5, <4>2 DEF RingFrom
        <4> QED
          BY <1>5, <3>1, <4>3 DEF Framed
      <3> QED
        BY <3>4, <3>5
    <2>4. ASSUME NEW e \in Client, e \notin torn' PROVE Framed(e)'
      <3>1. CASE e = c
        BY <1>1, <2>3, <2>4, <3>1
      <3>2. CASE e # c
        <4>1. Framed(e)
          BY <1>1, <2>4 DEF FInv
        <4> QED
          BY <1>1, <1>3, <1>4, <2>1, <2>2, <3>2, <4>1, FramedStays
      <3> QED
        BY <3>1, <3>2
    <2>5. ASSUME NEW e \in connected', e \notin torn', e \notin held',
                 pc' = "idle" \/ e # serving'
          PROVE  Drained(e)'
      <3>1. e \in Client /\ e \in connected /\ e \notin torn /\ e \notin held
        BY <1>1, <2>1, <2>5 DEF FInv
      <3>2. CASE e = c
        <4>1. pc' = "idle" /\ (IsReadingMsg => owner = c)
          BY <1>1, <2>1, <2>5, <3>2
        <4>2. Len(ring'[c]) < Needed
          BY <2>1, <2>2, <4>1, FInvFacts, Constants DEF Needed
        <4> QED
          BY <1>1, <1>4, <3>2, <4>1, <4>2 DEF Drained, Awaited, Needed
      <3>3. CASE e # c
        <4>1. Drained(e)
          BY <1>1, <3>1 DEF FInv
        <4> QED
          BY <1>1, <1>4, <2>2, <3>1, <3>3, <4>1, DrainedStays
      <3> QED
        BY <3>2, <3>3
    <2> QED
      BY <1>1, <1>3, <2>1, <2>4, <2>5, FInvFacts DEF FInv
  <1> QED
    BY <1>6, <1>7
-----------------------------------------------------------------------------
LEMMA ReadNothingFrames ==
  ASSUME IInv, FInv, failed = None, ReadNothing
  PROVE  FInv'
  <1>1. /\ pc = "read" /\ pc' = "idle" /\ Len(ring[serving]) < Needed
        /\ held' = IF IsReadingMsg /\ owner # serving THEN held \cup {serving}
                                                      ELSE held \ {serving}
        /\ UNCHANGED <<serving, ring, IsReadingMsg, msg_size, owner, longest, delivered,
                       connected, failed, received, torn>>
    BY DEF ReadNothing, demarcar
  <1>2. \A c \in Client : Awaited(c)' = Awaited(c)
    BY <1>1 DEF Awaited
  <1>3. ASSUME NEW c \in Client, c \notin torn' PROVE Framed(c)'
    <2>1. Framed(c)
      BY <1>1, <1>3 DEF FInv
    <2> QED
      BY <1>1, <1>2, <2>1, FramedStays
  <1>4. ASSUME NEW c \in connected', c \notin torn', c \notin held' PROVE Drained(c)'
    <2>1. c \in Client /\ c \in connected /\ c \notin torn
      BY <1>1, <1>4 DEF FInv
    <2>2. CASE c = serving
      <3>1. IsReadingMsg => owner = c
        BY <1>1, <1>4, <2>2
      <3> QED
        BY <1>1, <1>2, <2>2, <3>1 DEF Drained, Awaited, Needed
    <2>3. CASE c # serving
      <3>1. c \notin held
        BY <1>1, <1>4, <2>3
      <3>2. Drained(c)
        BY <1>1, <2>1, <2>3, <3>1 DEF FInv
      <3> QED
        BY <1>1, <1>2, <2>1, <3>2, DrainedStays
    <2> QED
      BY <2>2, <2>3
  <1> QED
    BY <1>1, <1>3, <1>4 DEF FInv

LEMMA ReadBodyFrames ==
  ASSUME IInv, FInv, failed = None, NEW c, c = serving, ReadBody
  PROVE  FInv'
  <1> DEFINE m == Front(ring[c], msg_size)
             rest == Behind(ring[c], msg_size)
  <1>1. /\ pc = "read" /\ IsReadingMsg /\ IsReadingMsg' = FALSE
        /\ Len(ring[c]) >= msg_size
        /\ ring' = [ring EXCEPT ![c] = rest]
        /\ torn' = IF owner = c THEN torn ELSE torn \cup {owner, c}
        /\ UNCHANGED <<pc, serving, msg_size, owner, longest, connected, received, held>>
    BY DEF ReadBody
  <1>2. c \in connected /\ c \in Client
    BY <1>1 DEF FInv
  <1>3. \/ failed' # None /\ delivered' = delivered
        \/ failed' = failed /\ delivered' = [delivered EXCEPT ![c] = Append(@, m)]
    BY Constants DEF ReadBody
  <1>4. m \in Seq(Byte)
    <2>1. \A s \in Seq(Byte) : \A n \in Nat : n <= Len(s) => SubSeq(s, 1, n) \in Seq(Byte)
      OBVIOUS
    <2> QED
      BY <1>1, <1>2, <2>1, FInvFacts DEF Front
  <1> HIDE DEF m, rest
  <1>5. \A e \in Client : /\ ~Awaited(e)'
                          /\ e # c => ring'[e] = ring[e] /\ delivered'[e] = delivered[e]
                          /\ e \notin torn' /\ e # c => ~Awaited(e)
    BY <1>1, <1>3, FInvFacts DEF Awaited
  <1>6. ring'[c] = rest
    BY <1>1, <1>2, FInvFacts
  <1>7. delivered' \in [Client -> Seq(Seq(Byte))]
    <2>1. Append(delivered[c], m) \in Seq(Seq(Byte))
      BY <1>2, <1>4, FInvFacts, AppendProperties
    <2> QED
      BY <1>3, <2>1, FInvFacts
  <1>8. ASSUME c \notin torn' PROVE Framed(c)'
    <2>1. owner = c /\ Awaited(c) /\ c \notin torn
      BY <1>1, <1>8 DEF Awaited
    <2>2. PICK p \in Nat \ {0} : Parsed(received[c], delivered[c], p) /\ RingFrom(c, p)
      BY <1>2, <2>1 DEF FInv, Framed
    <2> DEFINE s == received[c]
               body == p + HeaderSize
               n == msg_size
    <2>3. CASE failed' # None
      BY <1>1, <1>3, <2>2, <2>3 DEF Framed
    <2>4. CASE failed' = failed /\ delivered' = [delivered EXCEPT ![c] = Append(@, m)]
      <3>1. /\ body - 1 <= Len(s) /\ Size(s, p) = n
            /\ ring[c] = SubSeq(s, body, Len(s))
        BY <2>1, <2>2 DEF RingFrom
      <3>2. /\ p \in Places(s) /\ body \in Places(s)
            /\ Len(ring[c]) = Len(s) + 1 - body
        BY <1>2, <2>1, <2>2, FInvFacts, RingFromPlaces
      <3>3. /\ n \in Nat \ {0} /\ body \in Nat /\ Len(s) \in Nat /\ body + n <= Len(s) + 1
            /\ body + (n - 1) <= Len(s) /\ s \in Seq(Byte)
        <4>1. n \in Nat /\ n # 0 /\ Len(s) \in Nat /\ s \in Seq(Byte) /\ body \in Nat
              /\ Len(ring[c]) >= n
          BY <1>1, <1>2, FInvFacts, Constants
        <4> HIDE DEF s, body, n
        <4> QED
          BY <3>2, <4>1
      <3>4. m = SubSeq(s, body, body + (n - 1)) /\ rest = SubSeq(s, body + n, Len(s))
        <4>1. \A q \in Places(s) : q + n <= Len(s) + 1 =>
                /\ Front(SubSeq(s, q, Len(s)), n) = SubSeq(s, q, q + (n - 1))
                /\ Behind(SubSeq(s, q, Len(s)), n) = SubSeq(s, q + n, Len(s))
          <5> HIDE DEF s, n
          <5> QED
            BY <3>3, CutOfRest DEF Places
        <4> QED
          BY <3>1, <3>2, <3>3, <4>1 DEF m, rest
      <3>5. Parsed(s, Append(delivered[c], m), body + n)
        BY <1>2, <2>2, <3>1, <3>2, <3>3, <3>4, FInvFacts, ParsedByDelivery
      <3>6. delivered'[c] = Append(delivered[c], m)
        BY <1>2, <2>4, FInvFacts
      <3>7. body + n \in Nat \ {0}
        BY <3>3
      <3>8. RingFrom(c, body + n)'
        BY <1>1, <1>2, <1>5, <1>6, <3>4 DEF RingFrom
      <3> QED
        BY <1>1, <3>5, <3>6, <3>7, <3>8 DEF Framed
    <2> QED
      BY <1>3, <2>3, <2>4
  <1>9. ASSUME NEW e \in Client, e \notin torn' PROVE Framed(e)'
    <2>1. CASE e = c
      BY <1>8, <1>9, <2>1
    <2>2. CASE e # c
      <3>1. Framed(e)
        BY <1>1, <1>9 DEF FInv
      <3> QED
        BY <1>1, <1>5, <1>9, <2>2, <3>1, FramedStays
    <2> QED
      BY <2>1, <2>2
  <1>10. ASSUME NEW e \in connected', e \notin torn', e \notin held', e # serving'
         PROVE  Drained(e)'
    <2>1. e \in Client /\ e # c /\ Drained(e)
      BY <1>1, <1>10 DEF FInv
    <2> QED
      BY <1>1, <1>5, <1>10, <2>1, DrainedStays
  <1> QED
    BY <1>1, <1>2, <1>7, <1>9, <1>10, FInvFacts DEF FInv
-----------------------------------------------------------------------------
LEMMA ReadHeaderFrames ==
  ASSUME IInv, FInv, failed = None, NEW c, c = serving, ReadHeader
  PROVE  FInv'
  <1>1. /\ pc = "read" /\ ~IsReadingMsg /\ Len(ring[c]) >= HeaderSize
        /\ UNCHANGED <<serving, delivered, failed, received, held>>
    BY DEF ReadHeader
  <1>2. c \in connected /\ c \in Client
    BY <1>1 DEF FInv
  <1> DEFINE n == msg_size'
             header == Front(ring[c], HeaderSize)
             rest == Behind(ring[c], HeaderSize)
  <1>3. torn' = IF n = Announced(header, <<>>) THEN torn ELSE torn \cup {c}
    BY DEF ReadHeader
  <1>4. \/ /\ n = 0 /\ pc' = "idle" /\ connected' = connected \ {c}
           /\ ring' = [ring EXCEPT ![c] = <<>>]
           /\ UNCHANGED <<IsReadingMsg, owner>>
        \/ /\ n # 0 /\ IsReadingMsg' = TRUE /\ owner' = c
           /\ ring' = [ring EXCEPT ![c] = rest]
           /\ UNCHANGED <<pc, connected>>
    BY DEF ReadHeader
  <1> HIDE DEF rest, header
  <1>5. \A e \in Client : /\ ~Awaited(e)
                          /\ e # c => ~Awaited(e)' /\ ring'[e] = ring[e]
    BY <1>1, <1>4, FInvFacts DEF Awaited
  <1>6. ASSUME c \notin torn' PROVE Framed(c)'
    <2>1. c \notin torn /\ n = Announced(header, <<>>)
      BY <1>3, <1>6
    <2>2. PICK p \in Nat \ {0} : Parsed(received[c], delivered[c], p) /\ RingFrom(c, p)
      BY <1>2, <2>1 DEF FInv, Framed
    <2> DEFINE s == received[c]
    <2>3. CASE n = 0
      <3>1. c \notin connected'
        BY <1>4, <2>3
      <3> QED
        BY <1>1, <2>2, <3>1 DEF Framed
    <2>4. CASE n # 0
      <3>1. ring[c] = SubSeq(s, p, Len(s)) /\ ~Awaited(c)
        BY <1>2, <1>5, <2>2 DEF RingFrom
      <3>2. p \in Places(s) /\ Len(ring[c]) = Len(s) + 1 - p
        BY <1>2, <2>2, <3>1, FInvFacts, RingFromPlaces
      <3>3. /\ HeaderSize \in Nat /\ s \in Seq(Byte) /\ Len(s) \in Nat
            /\ p + HeaderSize <= Len(s) + 1 /\ (p + HeaderSize) - 1 <= Len(s)
            /\ (p + HeaderSize) - 1 = p + (HeaderSize - 1)
        <4>1. HeaderSize \in Nat /\ s \in Seq(Byte) /\ Len(s) \in Nat /\ Len(ring[c]) >= HeaderSize
          BY <1>1, <1>2, FInvFacts, Constants
        <4> HIDE DEF s
        <4> QED
          BY <3>2, <4>1
      <3>4. /\ header = SubSeq(s, p, (p + HeaderSize) - 1)
            /\ rest = SubSeq(s, p + HeaderSize, Len(s))
        <4> HIDE DEF s
        <4>1. /\ Front(SubSeq(s, p, Len(s)), HeaderSize) = SubSeq(s, p, p + (HeaderSize - 1))
              /\ Behind(SubSeq(s, p, Len(s)), HeaderSize) = SubSeq(s, p + HeaderSize, Len(s))
          BY <3>2, <3>3, CutOfRest DEF Places
        <4> QED
          BY <3>1, <3>3, <4>1 DEF header, rest
      <3>5. Size(s, p) = n
        BY <2>1, <3>4 DEF Size
      <3>6. ring'[c] = rest /\ IsReadingMsg' /\ owner' = c
        BY <1>2, <1>4, <2>4, FInvFacts
      <3>7. RingFrom(c, p)'
        BY <1>1, <3>3, <3>4, <3>5, <3>6 DEF RingFrom, Awaited
      <3> QED
        BY <1>1, <2>2, <3>7 DEF Framed
    <2> QED
      BY <2>3, <2>4
  <1>7. ASSUME NEW e \in Client, e \notin torn' PROVE Framed(e)'
    <2>1. CASE e = c
      BY <1>6, <1>7, <2>1
    <2>2. CASE e # c
      <3>1. Framed(e)
        BY <1>3, <1>7 DEF FInv
      <3>2. e \in connected' => e \in connected
        BY <1>4
      <3> QED
        BY <1>1, <1>5, <2>2, <3>1, <3>2, FramedStays
    <2> QED
      BY <2>1, <2>2
  <1>8. ASSUME NEW e \in connected', e \notin torn', e \notin held',
               pc' = "idle" \/ e # serving'
        PROVE  Drained(e)'
    <2>1. e \in Client /\ e \in connected /\ e \notin torn /\ e \notin held
      BY <1>1, <1>3, <1>4, <1>8 DEF FInv
    <2>2. e # c
      BY <1>1, <1>4, <1>8
    <2>3. Drained(e)
      BY <1>1, <2>1, <2>2 DEF FInv
    <2> QED
      BY <1>5, <2>1, <2>2, <2>3, DrainedStays
  <1>9. connected' \subseteq Client /\ (pc' = "read" => serving' \in connected')
    BY <1>1, <1>2, <1>4, FInvFacts
  <1> QED
    BY <1>1, <1>7, <1>8, <1>9, FInvFacts DEF FInv

LEMMA LeaveFrames ==
  ASSUME IInv, FInv, failed = None, NEW c \in Client, Leave(c)
  PROVE  FInv'
  <1>1. /\ pc = "idle" /\ connected' = connected \ {c}
        /\ ring' = [ring EXCEPT ![c] = <<>>]
        /\ UNCHANGED <<pc, serving, IsReadingMsg, msg_size, owner, longest, delivered,
                       failed, received, torn, held>>
    BY DEF Leave, demarcar
  <1>2. \A e \in Client : /\ Awaited(e)' <=> Awaited(e)
                          /\ e \in connected' => e \in connected /\ ring'[e] = ring[e]
    BY <1>1, FInvFacts DEF Awaited
  <1>3. ASSUME NEW e \in Client, e \notin torn' PROVE Framed(e)'
    <2>1. Framed(e)
      BY <1>1, <1>3 DEF FInv
    <2> QED
      BY <1>1, <1>2, <2>1, FramedStays
  <1>4. ASSUME NEW e \in connected', e \notin torn', e \notin held' PROVE Drained(e)'
    <2>1. e \in Client /\ e \in connected /\ Drained(e)
      BY <1>1, <1>4 DEF FInv
    <2> QED
      BY <1>1, <1>2, <1>4, <2>1, DrainedStays
  <1> QED
    BY <1>1, <1>3, <1>4, FInvFacts DEF FInv

LEMMA RestartFrames ==
  ASSUME IInv, FInv, failed = None, Restart
  PROVE  FInv'
  <1>1. /\ pc = "idle" /\ ring' = [c \in Client |-> <<>>] /\ IsReadingMsg' = FALSE
        /\ torn' = torn \cup {c \in connected : ring[c] # <<>> \/ Awaited(c)}
        /\ UNCHANGED <<pc, serving, msg_size, owner, longest, delivered, connected,
                       failed, received>>
    BY DEF Restart, Awaited
  <1>2. \A e \in Client : ring'[e] = <<>> /\ ~Awaited(e)'
    BY <1>1 DEF Awaited
  <1>3. ASSUME NEW e \in Client, e \notin torn' PROVE Framed(e)'
    <2>1. Framed(e) /\ (e \in connected => ring[e] = <<>> /\ ~Awaited(e))
      BY <1>1, <1>3 DEF FInv
    <2>2. CASE e \in connected
      BY <1>1, <1>2, <2>1, <2>2, FramedStays
    <2>3. CASE e \notin connected
      BY <1>1, <2>1, <2>3 DEF Framed
    <2> QED
      BY <2>2, <2>3
  <1>4. ASSUME NEW e \in connected' PROVE Drained(e)'
    <2>1. e \in Client
      BY <1>1, FInvFacts
    <2>2. Len(<<>>) = 0
      OBVIOUS
    <2> QED
      BY <1>2, <2>1, <2>2, Constants DEF Drained
  <1> QED
    BY <1>1, <1>3, <1>4, FInvFacts DEF FInv

LEMMA StepFInv == IInv /\ FInv /\ [Next]_vars => FInv'
  <1> SUFFICES ASSUME IInv, FInv, [Next]_vars PROVE FInv'
    OBVIOUS
  <1>1. CASE Next
    <2>1. failed = None
      BY <1>1 DEF Next
    <2>2. ASSUME NEW c \in Client, Leave(c) PROVE FInv'
      BY <2>1, <2>2, LeaveFrames
    <2>3. ASSUME NEW c \in Client, NEW d \in Chunk, ProcessMsg(c, d) PROVE FInv'
      BY <2>1, <2>3, ProcessMsgFrames
    <2>4. CASE ReadMsg
      BY <2>1, <2>4, ReadNothingFrames, ReadBodyFrames, ReadHeaderFrames DEF ReadMsg
    <2>5. CASE Restart
      BY <2>1, <2>5, RestartFrames
    <2> QED
      BY <1>1, <2>2, <2>3, <2>4, <2>5 DEF Next
  <1>2. CASE UNCHANGED vars
    BY <1>2 DEF vars, demarcar, FInv, Framed, RingFrom, Drained, Awaited
  <1> QED
    BY <1>1, <1>2

LEMMA FInvImplies == IInv /\ FInv => FramedInOrder /\ NothingLeftBehind
  <1> SUFFICES ASSUME IInv, FInv PROVE FramedInOrder /\ NothingLeftBehind
    OBVIOUS
  <1>1. FramedInOrder
    <2>1. ASSUME NEW c \in Client, c \notin torn
          PROVE  /\ Len(delivered[c]) <= Len(Messages(received[c]))
                 /\ \A i \in 1..Len(delivered[c]) : delivered[c][i] = Messages(received[c])[i]
      <3>1. \E p : Parsed(received[c], delivered[c], p)
        BY <2>1 DEF FInv, Framed
      <3> QED
        BY <3>1, FInvFacts, ParsedMessages
    <2> QED
      BY <2>1 DEF FramedInOrder
  <1>2. NothingLeftBehind
    <2>1. ASSUME pc = "idle", failed = None,
                 NEW c \in connected, c \notin torn, c \notin held
          PROVE  delivered[c] = Messages(received[c])
      <3>1. c \in Client /\ Drained(c)
        BY <2>1 DEF FInv
      <3>2. PICK p \in Nat \ {0} : Parsed(received[c], delivered[c], p) /\ RingFrom(c, p)
        BY <2>1, <3>1 DEF FInv, Framed
      <3> DEFINE s == received[c]
      <3>3. s \in Seq(Byte) /\ Len(s) \in Nat
        BY <3>1, FInvFacts
      <3>4. /\ Awaited(c) => Len(ring[c]) = Len(s) + 1 - (p + HeaderSize)
            /\ ~Awaited(c) => Len(ring[c]) = Len(s) + 1 - p
        BY <3>1, <3>2, <3>3, RingFromPlaces
      <3>5. \/ (p + HeaderSize) - 1 > Len(s)
            \/ p + HeaderSize + (Size(s, p) - 1) > Len(s)
        <4>1. CASE Awaited(c)
          <5>1. Size(s, p) = msg_size /\ Len(ring[c]) < msg_size /\ msg_size \in Nat
            BY <3>1, <3>2, <4>1, FInvFacts DEF Drained, RingFrom
          <5> HIDE DEF s
          <5> QED
            BY <3>3, <3>4, <4>1, <5>1, Constants
        <4>2. CASE ~Awaited(c)
          <5>1. Len(ring[c]) < HeaderSize
            BY <3>1, <4>2 DEF Drained
          <5> HIDE DEF s
          <5> QED
            BY <3>3, <3>4, <4>2, <5>1, Constants
        <4> QED
          BY <4>1, <4>2
      <3>6. delivered[c] \in Seq(Seq(Byte))
        BY <3>1, FInvFacts
      <3> QED
        BY <3>2, <3>3, <3>5, <3>6, ParsedMessages
    <2> QED
      BY <2>1 DEF NothingLeftBehind
  <1> QED
    BY <1>1, <1>2

-----------------------------------------------------------------------------
\* Every variable of the demarcar and of the rings keeps its type, and no ring
\* holds more than it has room for.
THEOREM DemarcarTypes == Spec => []TypeOK
  <1>1. IInv => TypeOK
    BY DEF IInv
  <1> QED
    BY InitIInv, StepIInv, <1>1, PTL DEF Spec

\* While no header announces more than the scratch buffer holds, ProcessMsg's
\* assertion holds and no message runs past the scratch buffer, whoever shares
\* the demarcar and however its clients come to be misframed.
THEOREM ShortMessagesAreSafe == Spec => []ShortMessagesNeverFail
  <1>1. IInv => ShortMessagesNeverFail
    BY DEF IInv
  <1> QED
    BY InitIInv, StepIInv, <1>1, PTL DEF Spec

\* However the network cuts the streams of the clients into chunks, and however the
\* clients of one thread take turns, what on_msg_demarked gets for a client that no
\* one tore are the messages of its stream, in their order, each whole and once.
THEOREM DeliversInOrder == Spec => []FramedInOrder
  BY InitIInv, StepIInv, InitFInv, StepFInv, FInvImplies, PTL DEF Spec

\* When ProcessMsg has returned, the loop of ReadMsg has delivered every message of
\* the stream that is complete, to every client that is neither torn nor held up by
\* another client's message.
THEOREM LeavesNothingBehind == Spec => []NothingLeftBehind
  BY InitIInv, StepIInv, InitFInv, StepFInv, FInvImplies, PTL DEF Spec
==============================================================================
