-------------------- MODULE TcpMsgFixedSizeDemarcarProofs --------------------
(***************************************************************************)
(* Proofs about TcpMsgFixedSizeDemarcar: what it delivers are the slices   *)
(* of each client's stream, for streams of any length and any number of    *)
(* clients that share the demarcar.                                        *)
(***************************************************************************)
EXTENDS TcpMsgFixedSizeDemarcar, SequenceTheorems, TLAPS

\* The bytes of the first n messages.
Cut(n) == n * FixedSize

\* What has become of the stream of one client.
Sliced(d, r, s) ==
  /\ Cut(Len(d)) <= Len(s)
  /\ \A i \in 1..Len(d) : d[i] = SubSeq(s, Cut(i - 1) + 1, Cut(i))
  /\ r = SubSeq(s, Cut(Len(d)) + 1, Len(s))

\* What makes SlicesOfTheStream inductive.
IInv == /\ TypeOK
        /\ delivered \in [Client -> Seq(Seq(Byte))]
        /\ received \in [Client -> Seq(Byte)]
        /\ failed = None
        /\ \A c \in Client : Sliced(delivered[c], ring[c], received[c])

LEMMA Constants == FixedSize \in Nat /\ FixedSize > 0 /\ RingSize \in Nat
  BY SizesAssumption

LEMMA ChunkFacts ==
  ASSUME NEW d \in Chunk
  PROVE  d \in Seq(Byte) /\ FixedSize + Len(d) <= RingSize + 1
  BY ChunkAssumption, RoomAssumption

LEMMA CutFacts ==
  ASSUME NEW n \in Nat
  PROVE  /\ Cut(n) \in Nat
         /\ Cut(n + 1) = Cut(n) + FixedSize
         /\ Cut(0) = 0
  BY Constants, SMT DEF Cut

LEMMA CutMonotonic ==
  ASSUME NEW n \in Nat, NEW i \in 0..n
  PROVE  Cut(i) <= Cut(n)
  <1>1. n - i \in Nat /\ i \in Nat
    BY SMT
  <1>2. Cut(n) = Cut(i) + Cut(n - i)
    BY <1>1, Constants, SMT DEF Cut
  <1>3. Cut(n - i) \in Nat /\ Cut(i) \in Nat /\ Cut(n) \in Nat
    BY <1>1, CutFacts
  <1> QED
    BY <1>2, <1>3, SMT

\* New bytes at the end of a stream touch neither a slice of it nor where what
\* is left begins.
LEMMA SubSeqOfConcat ==
  ASSUME NEW B, NEW s \in Seq(B), NEW d \in Seq(B), NEW a \in Nat, NEW b \in Nat, b <= Len(s)
  PROVE  SubSeq(s \o d, a + 1, b) = SubSeq(s, a + 1, b)
  BY SMT

LEMMA RestOfConcat ==
  ASSUME NEW B, NEW s \in Seq(B), NEW d \in Seq(B), NEW a \in Nat, a <= Len(s)
  PROVE  SubSeq(s \o d, a + 1, Len(s \o d)) = SubSeq(s, a + 1, Len(s)) \o d
  <1> DEFINE whole == SubSeq(s \o d, a + 1, Len(s \o d))
             rest == SubSeq(s, a + 1, Len(s))
  <1>1. /\ s \o d \in Seq(B) /\ Len(s \o d) = Len(s) + Len(d)
        /\ Len(s) \in Nat /\ Len(d) \in Nat
    BY SMT
  <1>2. /\ whole \in Seq(B) /\ Len(whole) = Len(s) + Len(d) - a
        /\ \A i \in 1..(Len(s) + Len(d) - a) : whole[i] = (s \o d)[a + i]
    BY <1>1, SMT
  <1>3. /\ rest \in Seq(B) /\ Len(rest) = Len(s) - a
        /\ \A i \in 1..(Len(s) - a) : rest[i] = s[a + i]
    BY <1>1, SMT
  <1> HIDE DEF whole, rest
  <1>4. rest \o d \in Seq(B) /\ Len(rest \o d) = Len(s) + Len(d) - a
    <2>1. rest \o d \in Seq(B) /\ Len(rest \o d) = Len(rest) + Len(d)
      BY <1>3, ConcatProperties
    <2> QED
      BY <1>1, <1>3, <2>1, SMT
  <1>5. ASSUME NEW i \in 1..(Len(s) + Len(d) - a)
        PROVE  whole[i] = (rest \o d)[i]
    <2>1. CASE i <= Len(s) - a
      <3>1. (s \o d)[a + i] = s[a + i] /\ (rest \o d)[i] = rest[i] /\ i \in 1..(Len(s) - a)
        BY <1>1, <1>3, <2>1, SMT
      <3> QED
        BY <1>2, <1>3, <3>1
    <2>2. CASE i > Len(s) - a
      <3>1. (s \o d)[a + i] = d[a + i - Len(s)] /\ (rest \o d)[i] = d[i - (Len(s) - a)]
            /\ a + i - Len(s) = i - (Len(s) - a)
        BY <1>1, <1>3, <2>2, SMT
      <3> QED
        BY <1>2, <3>1
    <2>3. i <= Len(s) - a \/ i > Len(s) - a
      BY <1>1, SMT
    <2> QED
      BY <2>1, <2>2, <2>3
  <1>6. whole = rest \o d
    BY <1>2, <1>4, <1>5, SeqEqual
  <1> QED
    BY <1>6 DEF whole, rest

\* What is left of a stream is cut where the stream is.
LEMMA SubSeqOfRest ==
  ASSUME NEW B, NEW s \in Seq(B), NEW a \in Nat, NEW n \in Nat, a + n <= Len(s),
         NEW r, r = SubSeq(s, a + 1, Len(s))
  PROVE  /\ SubSeq(r, 1, n) = SubSeq(s, a + 1, a + n)
         /\ SubSeq(r, n + 1, Len(r)) = SubSeq(s, a + n + 1, Len(s))
         /\ SubSeq(r, 1, n) \in Seq(B)
  BY SMT

LEMMA RestLength ==
  ASSUME NEW B, NEW s \in Seq(B), NEW a \in Nat, a <= Len(s)
  PROVE  /\ Len(SubSeq(s, a + 1, Len(s))) = Len(s) - a
         /\ SubSeq(s, a + 1, Len(s)) \in Seq(B)
  BY SMT

-----------------------------------------------------------------------------
LEMMA SlicedByArrival ==
  ASSUME NEW d \in Seq(Seq(Byte)), NEW r, NEW s \in Seq(Byte), NEW new \in Seq(Byte),
         Sliced(d, r, s)
  PROVE  Sliced(d, r \o new, s \o new)
  <1>1. Len(d) \in Nat /\ Len(s) \in Nat /\ Len(new) \in Nat /\ Len(s \o new) = Len(s) + Len(new)
    BY SMT
  <1>2. Cut(Len(d)) \in Nat /\ Cut(Len(d)) <= Len(s)
    BY <1>1, CutFacts DEF Sliced
  <1>3. Cut(Len(d)) <= Len(s \o new)
    BY <1>1, <1>2, SMT
  <1>4. ASSUME NEW i \in 1..Len(d)
        PROVE  SubSeq(s \o new, Cut(i - 1) + 1, Cut(i)) = SubSeq(s, Cut(i - 1) + 1, Cut(i))
    <2>1. i \in 0..Len(d) /\ i \in Nat /\ i - 1 \in Nat
      BY <1>1, SMT
    <2>2. Cut(i) <= Cut(Len(d))
      BY <1>1, <2>1, CutMonotonic
    <2>3. Cut(i) \in Nat /\ Cut(i - 1) \in Nat
      BY <2>1, CutFacts
    <2>4. Cut(i) <= Len(s)
      BY <1>1, <1>2, <2>2, <2>3, SMT
    <2> QED
      BY <2>3, <2>4, SubSeqOfConcat
  <1>5. SubSeq(s \o new, Cut(Len(d)) + 1, Len(s \o new)) = r \o new
    BY <1>2, RestOfConcat DEF Sliced
  <1> QED
    BY <1>3, <1>4, <1>5 DEF Sliced

LEMMA SlicedByDelivery ==
  ASSUME NEW d \in Seq(Seq(Byte)), NEW r, NEW s \in Seq(Byte),
         Sliced(d, r, s), Len(r) >= FixedSize
  PROVE  /\ Sliced(Append(d, SubSeq(r, 1, FixedSize)), SubSeq(r, FixedSize + 1, Len(r)), s)
         /\ SubSeq(r, 1, FixedSize) \in Seq(Byte)
  <1> DEFINE a == Cut(Len(d))
             m == SubSeq(r, 1, FixedSize)
             e == Append(d, m)
  <1>1. /\ Len(d) \in Nat /\ Len(s) \in Nat /\ a \in Nat /\ a <= Len(s)
        /\ r = SubSeq(s, a + 1, Len(s))
    <2>1. Len(d) \in Nat /\ Len(s) \in Nat
      BY SMT
    <2> QED
      BY <2>1, CutFacts DEF Sliced
  <1>2. Len(r) = Len(s) - a
    BY <1>1, RestLength
  <1>3. a + FixedSize <= Len(s)
    BY <1>1, <1>2, Constants, SMT
  <1>4. /\ m = SubSeq(s, a + 1, a + FixedSize)
        /\ SubSeq(r, FixedSize + 1, Len(r)) = SubSeq(s, a + FixedSize + 1, Len(s))
        /\ m \in Seq(Byte)
    <2> HIDE DEF a, e
    <2>1. FixedSize \in Nat
      BY Constants
    <2>2. a \in Nat /\ a + FixedSize <= Len(s) /\ r = SubSeq(s, a + 1, Len(s))
      BY <1>1, <1>3
    <2> HIDE DEF m
    <2>3. /\ SubSeq(r, 1, FixedSize) = SubSeq(s, a + 1, a + FixedSize)
          /\ SubSeq(r, FixedSize + 1, Len(r)) = SubSeq(s, a + FixedSize + 1, Len(s))
          /\ SubSeq(r, 1, FixedSize) \in Seq(Byte)
      BY <2>1, <2>2, SubSeqOfRest
    <2> QED
      BY <2>3 DEF m
  <1>5. /\ Len(e) = Len(d) + 1
        /\ e[Len(d) + 1] = m
        /\ \A i \in 1..Len(d) : e[i] = d[i]
    <2> HIDE DEF m
    <2> QED
      BY <1>4, SMT
  <1>6. Cut(Len(e)) = a + FixedSize /\ Cut(Len(d) + 1) = a + FixedSize
    BY <1>1, <1>5, CutFacts
  <1> HIDE DEF a, m, e
  <1>7. ASSUME NEW i \in 1..Len(e)
        PROVE  e[i] = SubSeq(s, Cut(i - 1) + 1, Cut(i))
    <2>1. i \in 1..Len(d) \/ (i = Len(d) + 1 /\ i - 1 = Len(d))
      BY <1>1, <1>5, SMT
    <2>2. CASE i \in 1..Len(d)
      BY <1>5, <2>2 DEF Sliced
    <2>3. CASE i = Len(d) + 1 /\ i - 1 = Len(d)
      BY <1>4, <1>5, <1>6, <2>3 DEF a
    <2> QED
      BY <2>1, <2>2, <2>3
  <1>8. SubSeq(r, FixedSize + 1, Len(r)) = SubSeq(s, Cut(Len(e)) + 1, Len(s))
    BY <1>4, <1>6
  <1>9. Sliced(e, SubSeq(r, FixedSize + 1, Len(r)), s)
    BY <1>3, <1>6, <1>7, <1>8 DEF Sliced
  <1> QED
    BY <1>4, <1>9 DEF e, m

-----------------------------------------------------------------------------
LEMMA InitIInv == Init => IInv
  <1> SUFFICES ASSUME Init PROVE IInv
    OBVIOUS
  <1>1. <<>> \in Seq(Byte) /\ <<>> \in Seq(Seq(Byte)) /\ Len(<<>>) = 0 /\ Cut(0) = 0
    BY CutFacts, SMT
  <1>2. Sliced(<<>>, <<>>, <<>>)
    <2>1. SubSeq(<<>>, 0 + 1, 0) = <<>> /\ 1..0 = {} /\ 0 <= 0
      BY SMT
    <2> QED
      BY <1>1, <2>1 DEF Sliced
  <1>3. TypeOK
    <2>1. \A c \in Client : Len(ring[c]) < FixedSize
      BY <1>1, Constants DEF Init
    <2> QED
      BY <1>1, <2>1 DEF Init, TypeOK
  <1> QED
    BY <1>1, <1>2, <1>3 DEF Init, IInv

LEMMA ProcessMsgKeeps ==
  ASSUME IInv, NEW c \in Client, NEW d \in Chunk, ProcessMsg(c, d)
  PROVE  IInv'
  <1>1. /\ pc = "idle" /\ d \in Seq(Byte) /\ serving' = c /\ delivered' = delivered
        /\ ring \in [Client -> Seq(Byte)] /\ received \in [Client -> Seq(Byte)]
        /\ received' = [received EXCEPT ![c] = @ \o d]
    BY ChunkFacts DEF ProcessMsg, IInv, TypeOK
  <1>2. ring[c] \in Seq(Byte) /\ received[c] \in Seq(Byte) /\ delivered[c] \in Seq(Seq(Byte))
    BY <1>1 DEF IInv
  <1>3. ~(RingSize - Len(ring[c]) < Len(d))
    <2>1. Len(ring[c]) < FixedSize
      BY <1>1 DEF IInv, TypeOK
    <2>2. Len(ring[c]) \in Nat /\ Len(d) \in Nat /\ FixedSize + Len(d) <= RingSize + 1
      BY <1>1, <1>2, ChunkFacts
    <2> QED
      BY <2>1, <2>2, Constants, SMT
  <1>4. /\ ring' = [ring EXCEPT ![c] = @ \o d]
        /\ pc' = IF Len(ring'[c]) >= FixedSize THEN "read" ELSE "idle"
        /\ failed' = failed
    BY <1>3 DEF ProcessMsg, IsBufferReadyToFlush
  <1>5. /\ ring[c] \o d \in Seq(Byte) /\ received[c] \o d \in Seq(Byte)
        /\ Len(ring[c] \o d) \in Nat
    BY <1>1, <1>2, SMT
  <1>6. /\ ring' \in [Client -> Seq(Byte)] /\ received' \in [Client -> Seq(Byte)]
        /\ ring'[c] = ring[c] \o d /\ received'[c] = received[c] \o d
        /\ \A e \in Client : e # c => ring'[e] = ring[e] /\ received'[e] = received[e]
    BY <1>1, <1>4, <1>5
  <1>7. TypeOK'
    <2>1. \A e \in Client : pc' = "idle" \/ e # c => Len(ring'[e]) < FixedSize
      <3>1. pc' = "idle" => Len(ring'[c]) < FixedSize
        BY <1>4, <1>5, <1>6, Constants, SMT
      <3> QED
        BY <1>1, <1>6, <3>1 DEF IInv, TypeOK
    <2> QED
      BY <1>1, <1>4, <1>6, <2>1 DEF IInv, TypeOK
  <1>8. ASSUME NEW e \in Client PROVE Sliced(delivered'[e], ring'[e], received'[e])
    <2>1. Sliced(delivered[c], ring[c] \o d, received[c] \o d)
      BY <1>1, <1>2, SlicedByArrival DEF IInv
    <2> QED
      BY <1>1, <1>6, <2>1 DEF IInv
  <1> QED
    BY <1>1, <1>4, <1>6, <1>7, <1>8 DEF IInv

LEMMA ReadOneKeeps ==
  ASSUME IInv, ReadOne
  PROVE  IInv'
  <1> DEFINE m == SubSeq(ring[serving], 1, FixedSize)
             rest == SubSeq(ring[serving], FixedSize + 1, Len(ring[serving]))
  <1>1. /\ pc = "read" /\ serving \in Client /\ Len(ring[serving]) >= FixedSize
        /\ delivered' = [delivered EXCEPT ![serving] = Append(@, m)]
        /\ ring' = [ring EXCEPT ![serving] = rest]
        /\ UNCHANGED <<pc, serving, failed, received>>
        /\ ring \in [Client -> Seq(Byte)]
    BY DEF ReadOne, IInv, TypeOK
  <1>2. /\ ring[serving] \in Seq(Byte) /\ received[serving] \in Seq(Byte)
        /\ delivered[serving] \in Seq(Seq(Byte))
    BY <1>1 DEF IInv
  <1>3. Sliced(Append(delivered[serving], m), rest, received[serving]) /\ m \in Seq(Byte)
    BY <1>1, <1>2, SlicedByDelivery DEF IInv
  <1>4. rest \in Seq(Byte)
    BY <1>2, Constants, SMT
  <1> HIDE DEF m, rest
  <1>5. Append(delivered[serving], m) \in Seq(Seq(Byte))
    BY <1>2, <1>3, SMT
  <1>6. /\ ring' \in [Client -> Seq(Byte)] /\ delivered' \in [Client -> Seq(Seq(Byte))]
        /\ ring'[serving] = rest /\ delivered'[serving] = Append(delivered[serving], m)
        /\ \A e \in Client : e # serving => ring'[e] = ring[e] /\ delivered'[e] = delivered[e]
    BY <1>1, <1>4, <1>5 DEF IInv
  <1>7. TypeOK'
    BY <1>1, <1>6 DEF IInv, TypeOK
  <1>8. \A e \in Client : Sliced(delivered'[e], ring'[e], received'[e])
    BY <1>1, <1>3, <1>6 DEF IInv
  <1> QED
    BY <1>1, <1>6, <1>7, <1>8 DEF IInv

LEMMA ReadNothingKeeps ==
  ASSUME IInv, ReadNothing
  PROVE  IInv'
  <1>1. /\ pc' = "idle" /\ Len(ring[serving]) < FixedSize
        /\ UNCHANGED <<serving, ring, delivered, failed, received>>
    BY DEF ReadNothing
  <1>2. TypeOK'
    BY <1>1 DEF IInv, TypeOK
  <1> QED
    BY <1>1, <1>2 DEF IInv

LEMMA StepIInv == IInv /\ [Next]_vars => IInv'
  <1> SUFFICES ASSUME IInv, [Next]_vars PROVE IInv'
    OBVIOUS
  <1>1. ASSUME NEW c \in Client, NEW d \in Chunk, ProcessMsg(c, d) PROVE IInv'
    BY <1>1, ProcessMsgKeeps
  <1>2. CASE ReadOne
    BY <1>2, ReadOneKeeps
  <1>3. CASE ReadNothing
    BY <1>3, ReadNothingKeeps
  <1>4. CASE UNCHANGED vars
    BY <1>4 DEF vars, IInv, TypeOK
  <1> QED
    BY <1>1, <1>2, <1>3, <1>4 DEF Next

LEMMA IInvImplies == IInv => SlicesOfTheStream /\ WriteNeverRefused
  <1> SUFFICES ASSUME IInv PROVE SlicesOfTheStream /\ WriteNeverRefused
    OBVIOUS
  <1>1. \A c \in Client : Sliced(delivered[c], ring[c], received[c])
    BY DEF IInv
  <1> QED
    BY <1>1 DEF IInv, SlicesOfTheStream, WriteNeverRefused, Sliced, Cut

-----------------------------------------------------------------------------
\* What is delivered for a client, and what waits in its ring, is its stream cut
\* every FixedSize bytes: nothing is lost, repeated, reordered or taken from
\* another client.
THEOREM DeliversSlices == Spec => []SlicesOfTheStream
  BY InitIInv, StepIInv, IInvImplies, PTL DEF Spec

\* ProcessMsg's assertion that the ring takes the bytes holds whenever a message
\* and one recv fit in the ring.
THEOREM RingTakesEveryChunk == Spec => []WriteNeverRefused
  BY InitIInv, StepIInv, IInvImplies, PTL DEF Spec
=============================================================================
