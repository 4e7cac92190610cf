--------------------------- MODULE StructuresProofs ---------------------------
(***************************************************************************)
(* The four data structures, for every size and every set of what they     *)
(* hold: the indices of the ring stay in range and agree, and it is the    *)
(* FIFO queue of ByteFifo; the links of the glue list are the list of      *)
(* GlueList; the serialisation buffer is the tape of Tape; the tokens of a *)
(* line are its words, and the other string functions do what they are for.*)
(***************************************************************************)
EXTENDS Structures, WellFoundedInduction, FiniteSetTheorems, SequenceTheorems, TLAPS

Inv == TypeOK /\ IndexInv

(***************************************************************************)
(* A function on 1..n is a sequence of length n.                           *)
(***************************************************************************)
LEMMA FunctionIsSeq ==
  ASSUME NEW S, NEW n \in Nat, NEW s \in [1..n -> S]
  PROVE  s \in Seq(S) /\ Len(s) = n
<1>1. s \in Seq(S)
  BY SeqDef, SMT
<1>2. DOMAIN s = 1..Len(s) /\ Len(s) \in Nat
  BY <1>1, LenProperties, Zenon
<1>3. DOMAIN s = 1..n
  BY Zenon
<1>4. Len(s) = n
  BY <1>2, <1>3, SMT
<1> QED
  BY <1>1, <1>4

\* A set of numbers that is not empty has a least one.
LEMMA LeastOf ==
  ASSUME NEW S \in SUBSET Nat, S # {}
  PROVE  \E i \in S : \A j \in S : i <= j
<1> DEFINE R == OpToRel(<, Nat)
<1>1. IsWellFoundedOn(R, Nat)
  BY NatLessThanWellFounded
<1>2. R = {ss \in Nat \X Nat : ss[1] < ss[2]}
  BY Zenon DEF OpToRel
<1> HIDE DEF R
<1>3. PICK i \in S : \A j \in S : ~(<<j, i>> \in R)
  BY <1>1, WFMin
<1>4. \A j \in S : j \in Nat /\ i \in Nat /\ ~(j < i)
  <2>1. \A j, k \in Nat : j < k => <<j, k>> \in R
    BY <1>2
  <2>2. QED
    BY <1>3, <2>1
<1>5. QED
  BY <1>4

\* Induction, over a set of numbers.
LEMMA Climb ==
  ASSUME NEW S, 0 \in S, \A n \in Nat : n \in S => n + 1 \in S
  PROVE  \A n \in Nat : n \in S
<1> SUFFICES ASSUME NEW m \in Nat, m \notin S PROVE FALSE
  OBVIOUS
<1> DEFINE T == {n \in Nat : n \notin S}
<1>1. PICK i \in T : \A j \in T : i <= j
  BY LeastOf
<1>2. i # 0 /\ i \in Nat /\ i \notin S
  OBVIOUS
<1>3. i - 1 \in Nat /\ ~(i <= i - 1) /\ i = (i - 1) + 1
  BY <1>2
<1>4. QED
  BY <1>1, <1>2, <1>3

\* The function that is first at 0 and goes on with step.
Iterates(f, N, first, step) ==
  f = [k \in 0..N |-> IF k = 0 THEN first ELSE step[k][f[k - 1]]]

\* It exists, and its values are of the type that the steps keep.
LEMMA Iterated ==
  ASSUME NEW S, NEW N \in Nat, NEW first \in S, NEW step \in [1..N -> [S -> S]]
  PROVE  \E f \in [0..N -> S] : Iterates(f, N, first, step)
<1> DEFINE D == 0..N
           Applied(f, k) == IF k = 0 THEN first ELSE step[k][f[k - 1]]
           Upto(f, m) == f \in [D -> S] /\ \A k \in D : k <= m => f[k] = Applied(f, k)
           Good == {m \in Nat : \E f : Upto(f, m)}
<1>1. 0 \in Good
  <2>1. Upto([k \in D |-> first], 0)
    OBVIOUS
  <2>2. QED
    BY <2>1
<1>2. ASSUME NEW m \in Nat, m \in Good PROVE m + 1 \in Good
  <2>1. PICK f : Upto(f, m)
    BY <1>2
  <2>2. CASE m + 1 \in D
    <3> DEFINE g == [f EXCEPT ![m + 1] = Applied(f, m + 1)]
    <3>0. m + 1 \in 1..N /\ m \in D /\ (m + 1) - 1 = m /\ m + 1 # 0
      BY <2>2
    <3>1. Applied(f, m + 1) \in S
      <4>1. step[m + 1] \in [S -> S] /\ f[m] \in S
        BY <2>1, <3>0
      <4>2. step[m + 1][f[m]] \in S
        BY <4>1
      <4>3. QED
        BY <3>0, <4>2
    <3>2. g \in [D -> S]
      BY <2>1, <3>1
    <3>3. ASSUME NEW k \in D, k <= m + 1 PROVE g[k] = Applied(g, k)
      <4>1. k # 0 => k - 1 \in D /\ k - 1 # m + 1 /\ g[k - 1] = f[k - 1]
        BY <2>1, <3>3
      <4>2. Applied(g, k) = Applied(f, k)
        BY <4>1
      <4>3. CASE k = m + 1
        <5>1. g[k] = Applied(f, k)
          BY <2>1, <2>2, <4>3
        <5>2. QED
          BY <4>2, <5>1
      <4>4. CASE k <= m
        <5>1. k # m + 1
          BY <4>4
        <5>2. g[k] = f[k] /\ f[k] = Applied(f, k)
          BY <2>1, <4>4, <5>1
        <5>3. QED
          BY <4>2, <5>2
      <4>5. QED
        BY <3>3, <4>3, <4>4
    <3>4. Upto(g, m + 1)
      BY <3>2, <3>3
    <3> HIDE DEF g
    <3>5. QED
      BY <3>4
  <2>3. CASE m + 1 \notin D
    <3>1. Upto(f, m + 1)
      BY <2>1, <2>3
    <3>2. QED
      BY <3>1
  <2>4. QED
    BY <2>2, <2>3
<1>3. N \in Good
  <2> HIDE DEF Good
  <2>1. QED
    BY <1>1, <1>2, Climb
<1>4. PICK f : Upto(f, N)
  BY <1>3
<1>5. f = [k \in 0..N |-> Applied(f, k)]
  BY <1>4
<1>6. QED
  BY <1>4, <1>5 DEF Iterates

(***************************************************************************)
(* The two parts a sequence is cut into.                                   *)
(***************************************************************************)
LEMMA SplitAt ==
  ASSUME NEW S, NEW s \in Seq(S), NEW m \in 0..Len(s)
  PROVE  /\ SubSeq(s, 1, m) \in Seq(S) /\ Len(SubSeq(s, 1, m)) = m
         /\ \A i \in 1..m : SubSeq(s, 1, m)[i] = s[i]
         /\ SubSeq(s, m + 1, Len(s)) \in Seq(S)
         /\ Len(SubSeq(s, m + 1, Len(s))) = Len(s) - m
         /\ \A i \in 1..(Len(s) - m) : SubSeq(s, m + 1, Len(s))[i] = s[m + i]
<1>1. Len(s) \in Nat
  BY LenProperties
<1>2. SubSeq(s, 1, m) \in Seq(S) /\ Len(SubSeq(s, 1, m)) = m
  BY <1>1, SMT
<1>3. ASSUME NEW i \in 1..m PROVE SubSeq(s, 1, m)[i] = s[i]
  BY <1>1, SMT
<1>4. /\ SubSeq(s, m + 1, Len(s)) \in Seq(S)
      /\ Len(SubSeq(s, m + 1, Len(s))) = Len(s) - m
  BY <1>1, SMT
<1>5. ASSUME NEW i \in 1..(Len(s) - m)
      PROVE  SubSeq(s, m + 1, Len(s))[i] = s[m + i]
  BY <1>1, SMT
<1> QED
  BY <1>2, <1>3, <1>4, <1>5

(***************************************************************************)
(* A sequence that agrees byte by byte with a concatenation or with the    *)
(* rest of another sequence is that sequence.                              *)
(***************************************************************************)
LEMMA IsConcat ==
  ASSUME NEW S, NEW s \in Seq(S), NEW t \in Seq(S), NEW u \in Seq(S),
         Len(u) = Len(s) + Len(t),
         \A k \in 1..Len(s) : u[k] = s[k],
         \A k \in 1..Len(t) : u[Len(s) + k] = t[k]
  PROVE  u = s \o t
<1>1. Len(s) \in Nat /\ Len(t) \in Nat
  BY LenProperties
<1>2. ASSUME NEW k \in 1..Len(u) PROVE u[k] = (s \o t)[k]
  <2>1. CASE k <= Len(s)
    BY <1>1, <2>1, SMT
  <2>2. CASE k > Len(s)
    <3>1. k - Len(s) \in 1..Len(t) /\ Len(s) + (k - Len(s)) = k
      BY <1>1, <2>2, SMT
    <3>2. u[k] = t[k - Len(s)]
      BY <3>1
    <3> QED
      BY <1>1, <2>2, <3>2, SMT
  <2> QED
    BY <1>1, <2>1, <2>2, SMT
<1>3. s \o t \in Seq(S) /\ Len(s \o t) = Len(u)
  BY ConcatProperties
<1> QED
  BY <1>2, <1>3, SeqEqual

LEMMA IsRest ==
  ASSUME NEW S, NEW s \in Seq(S), NEW u \in Seq(S), NEW n \in 0..Len(s),
         Len(u) = Len(s) - n,
         \A k \in 1..(Len(s) - n) : u[k] = s[n + k]
  PROVE  u = SubSeq(s, n + 1, Len(s))
<1>1. /\ SubSeq(s, n + 1, Len(s)) \in Seq(S)
      /\ Len(SubSeq(s, n + 1, Len(s))) = Len(u)
      /\ \A k \in 1..Len(u) : SubSeq(s, n + 1, Len(s))[k] = u[k]
  BY SplitAt
<1> QED
  BY <1>1, SeqEqual

LEMMA CopyOutType ==
  ASSUME SizeAssumption, TypeOK, NEW at \in Nat, NEW n \in Nat, at + n <= Size
  PROVE  /\ CopyOut(at, n) \in Seq(Byte)
         /\ Len(CopyOut(at, n)) = n
         /\ \A k \in 1..n : CopyOut(at, n)[k] = buffer[at + k - 1]
<1>1. CopyOut(at, n) \in [1..n -> Byte]
  <2>1. \A k \in 1..n : buffer[at + k - 1] \in Byte
    BY SMT DEF TypeOK, Slots, SizeAssumption
  <2> QED
    BY <2>1, Zenon DEF CopyOut
<1>2. \A k \in 1..n : CopyOut(at, n)[k] = buffer[at + k - 1]
  BY Zenon DEF CopyOut
<1> QED
  BY <1>1, <1>2, FunctionIsSeq, Zenon

LEMMA CopyInType ==
  ASSUME NEW store \in [Slots -> Byte], NEW at \in Nat, NEW d \in Seq(Byte),
         SizeAssumption
  PROVE  /\ CopyIn(store, at, d) \in [Slots -> Byte]
         /\ \A i \in Slots : CopyIn(store, at, d)[i] =
                IF at <= i /\ i < at + Len(d) THEN d[i - at + 1] ELSE store[i]
<1>1. \A i \in Slots : at <= i /\ i < at + Len(d) => d[i - at + 1] \in Byte
  BY LenProperties, SMT DEF Slots, SizeAssumption
<1> QED
  BY <1>1, SMT DEF CopyIn

(***************************************************************************)
(* The bytes held, as a sequence, before and after a step.                 *)
(***************************************************************************)
Held(store, r, n) == [k \in 1..n |-> store[Slot(r + k - 1)]]

LEMMA HeldType ==
  ASSUME SizeAssumption,
         NEW store \in [Slots -> Byte], NEW r \in Slots, NEW n \in 0..Size
  PROVE  /\ Held(store, r, n) \in Seq(Byte)
         /\ Len(Held(store, r, n)) = n
         /\ \A k \in 1..n : Held(store, r, n)[k] = store[Slot(r + k - 1)]
<1>1. \A k \in 1..n : store[Slot(r + k - 1)] \in Byte
  BY SMT DEF Slot, Slots, SizeAssumption
<1>2. Held(store, r, n) \in [1..n -> Byte]
  BY <1>1, Zenon DEF Held
<1>3. \A k \in 1..n : Held(store, r, n)[k] = store[Slot(r + k - 1)]
  BY Zenon DEF Held
<1>4. n \in Nat
  BY SMT DEF SizeAssumption
<1> QED
  BY <1>2, <1>3, <1>4, FunctionIsSeq, Zenon

LEMMA ContentsType ==
  ASSUME SizeAssumption, Inv
  PROVE  /\ Contents \in Seq(Byte)
         /\ Len(Contents) = current_size
         /\ \A k \in 1..current_size : Contents[k] = buffer[Slot(rear + k - 1)]
<1>1. Contents = Held(buffer, rear, current_size)
  BY DEF Contents, Held
<1>2. buffer \in [Slots -> Byte] /\ rear \in Slots /\ current_size \in 0..Size
  BY DEF Inv, TypeOK
<1> QED
  BY <1>1, <1>2, HeldType

LEMMA ContentsTypeNext ==
  ASSUME SizeAssumption, Inv'
  PROVE  /\ Contents' \in Seq(Byte)
         /\ Len(Contents') = current_size'
         /\ \A k \in 1..current_size' :
                Contents'[k] = buffer'[Slot(rear' + k - 1)]
<1>1. Contents' = Held(buffer', rear', current_size')
  BY DEF Contents, Held
<1>2. buffer' \in [Slots -> Byte] /\ rear' \in Slots /\ current_size' \in 0..Size
  BY DEF Inv, TypeOK
<1> QED
  BY <1>1, <1>2, HeldType

-----------------------------------------------------------------------------
(***************************************************************************)
(* An accepted write keeps the bytes held where they are and lays the new  *)
(* ones behind them, whichever branch of Write is taken.                   *)
(***************************************************************************)
LEMMA ContiguousWrite ==
  ASSUME SizeAssumption, Inv, NEW d \in Seq(Byte), WriteContiguous(d)
  PROVE  /\ Inv'
         /\ \A k \in 1..Len(d) : buffer'[Slot(rear + current_size + k - 1)] = d[k]
         /\ \A k \in 1..current_size :
               buffer'[Slot(rear + k - 1)] = buffer[Slot(rear + k - 1)]
<1> DEFINE n == Len(d)
<1>0. n \in Nat
  BY LenProperties
<1>1. /\ current_size + n <= Size
      /\ front < rear \/ n <= Size - front
      /\ buffer' = CopyIn(buffer, front, d)
      /\ front' = Advance(front, n)
      /\ current_size' = current_size + n
      /\ reply' = PutReply(n)
      /\ rear' = rear
  BY <1>0, SMT DEF WriteContiguous, AvailableSize, FitsBehindFront, Inv, TypeOK,
     SizeAssumption
<1>2. /\ front \in Nat /\ rear \in Nat /\ current_size \in Nat /\ Size \in Nat
      /\ front < Size /\ rear < Size /\ current_size <= Size
      /\ front = Slot(rear + current_size)
      /\ buffer \in [Slots -> Byte]
  BY SMT DEF Inv, TypeOK, IndexInv, Slots, SizeAssumption
<1>3. /\ buffer' \in [Slots -> Byte]
      /\ \A i \in Slots : buffer'[i] =
            IF front <= i /\ i < front + n THEN d[i - front + 1] ELSE buffer[i]
  <2>1. /\ CopyIn(buffer, front, d) \in [Slots -> Byte]
        /\ \A i \in Slots : CopyIn(buffer, front, d)[i] =
              IF front <= i /\ i < front + Len(d) THEN d[i - front + 1] ELSE buffer[i]
    BY <1>2, CopyInType
  <2> QED
    BY <1>1, <2>1
<1>4. front + n <= Size
  BY <1>0, <1>1, <1>2, SMT DEF Slot
<1>5. front' \in Slots /\ rear' \in Slots /\ current_size' \in 0..Size
  BY <1>0, <1>1, <1>2, <1>4, SMT DEF Advance, Slots
<1>6. reply' \in Replies
  BY <1>0, <1>1, EmptySeq, SMT DEF PutReply, Reply, Replies
<1>7. IndexInv'
  BY <1>0, <1>1, <1>2, <1>4, SMT DEF IndexInv, Slot, Advance
<1>8. Inv'
  BY <1>3, <1>5, <1>6, <1>7, Zenon DEF Inv, TypeOK
<1>9. ASSUME NEW k \in 1..n
      PROVE  buffer'[Slot(rear + current_size + k - 1)] = d[k]
  <2>1. Slot(rear + current_size + k - 1) = front + k - 1
    BY <1>0, <1>1, <1>2, <1>4, SMT DEF Slot
  <2>2. front + k - 1 \in Slots
    BY <1>0, <1>2, <1>4, SMT DEF Slots
  <2> QED
    BY <1>0, <1>2, <1>3, <2>1, <2>2, SMT
<1>10. ASSUME NEW k \in 1..current_size
       PROVE  buffer'[Slot(rear + k - 1)] = buffer[Slot(rear + k - 1)]
  <2>1. Slot(rear + k - 1) \in Slots
    BY <1>2, SMT DEF Slot, Slots
  <2>2. ~(front <= Slot(rear + k - 1) /\ Slot(rear + k - 1) < front + n)
    BY <1>0, <1>1, <1>2, <1>4, SMT DEF Slot
  <2> QED
    BY <1>3, <2>1, <2>2, Zenon
<1> QED
  BY <1>8, <1>9, <1>10

LEMMA WrappedWrite ==
  ASSUME SizeAssumption, Inv, NEW d \in Seq(Byte), WriteWrapped(d)
  PROVE  /\ Inv'
         /\ \A k \in 1..Len(d) : buffer'[Slot(rear + current_size + k - 1)] = d[k]
         /\ \A k \in 1..current_size :
               buffer'[Slot(rear + k - 1)] = buffer[Slot(rear + k - 1)]
<1> DEFINE n == Len(d)
           leading == Size - front
           low == SubSeq(d, 1, leading)
           high == SubSeq(d, leading + 1, n)
<1>0. n \in Nat
  BY LenProperties
<1>1. /\ current_size + n <= Size
      /\ ~(front < rear) /\ ~(n <= Size - front)
      /\ buffer' = CopyIn(CopyIn(buffer, front, low), 0, high)
      /\ front' = n - leading
      /\ current_size' = current_size + n
      /\ reply' = PutReply(n)
      /\ rear' = rear
  BY <1>0, SMT DEF WriteWrapped, AvailableSize, FitsBehindFront, Inv, TypeOK,
     SizeAssumption
<1>2. /\ front \in Nat /\ rear \in Nat /\ current_size \in Nat /\ Size \in Nat
      /\ front < Size /\ rear < Size /\ current_size <= Size
      /\ front = Slot(rear + current_size)
      /\ buffer \in [Slots -> Byte]
  BY SMT DEF Inv, TypeOK, IndexInv, Slots, SizeAssumption
<1>3. leading \in Nat /\ leading >= 1 /\ leading < n
  BY <1>0, <1>1, <1>2, SMT
<1>4. /\ low \in Seq(Byte) /\ Len(low) = leading
      /\ \A i \in 1..leading : low[i] = d[i]
      /\ high \in Seq(Byte) /\ Len(high) = n - leading
      /\ \A i \in 1..(n - leading) : high[i] = d[leading + i]
  <2> HIDE DEF leading
  <2>1. leading \in 0..Len(d)
    BY <1>0, <1>3, SMT
  <2> QED
    BY <2>1, SplitAt, Zenon
<1> HIDE DEF low, high
<1>5. /\ buffer' \in [Slots -> Byte]
      /\ \A i \in Slots : buffer'[i] =
            IF i < n - leading THEN d[leading + i + 1]
            ELSE IF front <= i THEN d[i - front + 1] ELSE buffer[i]
  <2> DEFINE mid == CopyIn(buffer, front, low)
  <2>1. /\ mid \in [Slots -> Byte]
        /\ \A i \in Slots : mid[i] =
              IF front <= i /\ i < front + Len(low) THEN low[i - front + 1]
                                                    ELSE buffer[i]
    BY <1>2, <1>4, CopyInType, Zenon
  <2>2. /\ buffer' \in [Slots -> Byte]
        /\ \A i \in Slots : buffer'[i] =
              IF 0 <= i /\ i < 0 + Len(high) THEN high[i - 0 + 1] ELSE mid[i]
    <3> HIDE DEF mid
    <3>1. buffer' = CopyIn(mid, 0, high)
      BY <1>1 DEF mid
    <3>2. /\ CopyIn(mid, 0, high) \in [Slots -> Byte]
          /\ \A i \in Slots : CopyIn(mid, 0, high)[i] =
                IF 0 <= i /\ i < 0 + Len(high) THEN high[i - 0 + 1] ELSE mid[i]
      <4>1. 0 \in Nat
        OBVIOUS
      <4> QED
        BY <4>1, <1>4, <2>1, CopyInType, Zenon
    <3> QED
      BY <3>1, <3>2
  <2> HIDE DEF mid
  <2>3. ASSUME NEW i \in Slots, i < n - leading
        PROVE  buffer'[i] = d[leading + i + 1]
    <3>1. i \in Nat /\ i + 1 \in 1..(n - leading) /\ i - 0 + 1 = i + 1
      BY <1>0, <1>3, <2>3, <1>2, SMT DEF Slots
    <3>2. buffer'[i] = high[i + 1]
      BY <1>4, <2>2, <2>3, <3>1, SMT
    <3> QED
      BY <1>4, <1>3, <3>1, <3>2, SMT
  <2>4. ASSUME NEW i \in Slots, ~(i < n - leading), front <= i
        PROVE  buffer'[i] = d[i - front + 1]
    <3>1. /\ i \in Nat /\ i < front + leading /\ i - front + 1 \in 1..leading
      BY <1>2, <2>4, SMT DEF Slots
    <3>2. buffer'[i] = low[i - front + 1]
      BY <1>4, <2>1, <2>2, <2>4, <3>1, SMT
    <3> QED
      BY <1>4, <3>1, <3>2
  <2>5. ASSUME NEW i \in Slots, ~(i < n - leading), ~(front <= i)
        PROVE  buffer'[i] = buffer[i]
    BY <1>2, <1>4, <2>1, <2>2, <2>5, SMT DEF Slots
  <2> QED
    BY <2>2, <2>3, <2>4, <2>5
<1>6. front' \in Slots /\ rear' \in Slots /\ current_size' \in 0..Size
  BY <1>0, <1>1, <1>2, <1>3, SMT DEF Slots
<1>7. reply' \in Replies
  BY <1>0, <1>1, EmptySeq, SMT DEF PutReply, Reply, Replies
<1>8. IndexInv'
  BY <1>0, <1>1, <1>2, <1>3, SMT DEF IndexInv, Slot
<1>9. Inv'
  BY <1>5, <1>6, <1>7, <1>8, Zenon DEF Inv, TypeOK
<1>10. ASSUME NEW k \in 1..n
       PROVE  buffer'[Slot(rear + current_size + k - 1)] = d[k]
  <2>1. Slot(rear + current_size + k - 1) =
           IF k <= leading THEN front + k - 1 ELSE k - 1 - leading
    BY <1>0, <1>1, <1>2, <1>3, SMT DEF Slot
  <2>2. Slot(rear + current_size + k - 1) \in Slots
    BY <1>0, <1>1, <1>2, <1>3, SMT DEF Slots, Slot
  <2> QED
    BY <1>0, <1>1, <1>2, <1>3, <1>5, <2>1, <2>2, SMT DEF Slot
<1>11. ASSUME NEW k \in 1..current_size
       PROVE  buffer'[Slot(rear + k - 1)] = buffer[Slot(rear + k - 1)]
  <2>1. Slot(rear + k - 1) \in Slots
    BY <1>2, SMT DEF Slot, Slots
  <2>2. ~(Slot(rear + k - 1) < n - leading) /\ ~(front <= Slot(rear + k - 1))
    BY <1>0, <1>1, <1>2, <1>3, SMT DEF Slot
  <2> QED
    BY <1>5, <2>1, <2>2, Zenon
<1> QED
  BY <1>9, <1>10, <1>11

(***************************************************************************)
(* A write that is accepted is a put: the new bytes follow the old ones.   *)
(***************************************************************************)
LEMMA AcceptedWrite ==
  ASSUME SizeAssumption, Inv, NEW d \in Seq(Byte),
         WriteContiguous(d) \/ WriteWrapped(d)
  PROVE  Inv' /\ Contents' = Contents \o d /\ reply' = PutReply(Len(d))
<1>1. /\ Inv'
      /\ \A k \in 1..Len(d) : buffer'[Slot(rear + current_size + k - 1)] = d[k]
      /\ \A k \in 1..current_size :
            buffer'[Slot(rear + k - 1)] = buffer[Slot(rear + k - 1)]
  BY ContiguousWrite, WrappedWrite
<1>2. /\ reply' = PutReply(Len(d))
      /\ current_size' = current_size + Len(d)
      /\ rear' = rear
  BY DEF WriteContiguous, WriteWrapped
<1>3. /\ Contents \in Seq(Byte) /\ Len(Contents) = current_size
      /\ \A k \in 1..current_size : Contents[k] = buffer[Slot(rear + k - 1)]
  BY ContentsType
<1>4. /\ Contents' \in Seq(Byte) /\ Len(Contents') = current_size'
      /\ \A k \in 1..current_size' : Contents'[k] = buffer'[Slot(rear' + k - 1)]
  BY <1>1, ContentsTypeNext
<1>5. current_size \in Nat /\ rear \in Nat /\ Len(d) \in Nat
  BY LenProperties, SMT DEF Inv, TypeOK, Slots, SizeAssumption
<1>6. ASSUME NEW k \in 1..Len(Contents)
      PROVE  Contents'[k] = Contents[k]
  <2>1. k \in 1..current_size /\ k \in 1..current_size'
    BY <1>2, <1>3, <1>5, SMT
  <2> QED
    BY <1>1, <1>2, <1>3, <1>4, <2>1
<1>7. ASSUME NEW k \in 1..Len(d)
      PROVE  Contents'[Len(Contents) + k] = d[k]
  <2>1. /\ current_size + k \in 1..current_size'
        /\ rear + (current_size + k) - 1 = rear + current_size + k - 1
    BY <1>2, <1>5, SMT
  <2> QED
    BY <1>1, <1>2, <1>3, <1>4, <2>1
<1>8. Contents' = Contents \o d
  <2>1. Len(Contents') = Len(Contents) + Len(d)
    BY <1>2, <1>3, <1>4
  <2> QED
    BY <1>3, <1>4, <1>6, <1>7, <2>1, IsConcat
<1> QED
  BY <1>1, <1>2, <1>8

-----------------------------------------------------------------------------
(***************************************************************************)
(* The bytes a read returns are the oldest ones.                           *)
(***************************************************************************)
LEMMA Oldest ==
  ASSUME SizeAssumption, Inv, NEW n \in 0..current_size, NEW s \in Seq(Byte),
         Len(s) = n, \A k \in 1..n : s[k] = buffer[Slot(rear + k - 1)]
  PROVE  s = SubSeq(Contents, 1, n)
<1>1. /\ Contents \in Seq(Byte) /\ Len(Contents) = current_size
      /\ \A k \in 1..current_size : Contents[k] = buffer[Slot(rear + k - 1)]
  BY ContentsType
<1>2. /\ SubSeq(Contents, 1, n) \in Seq(Byte)
      /\ Len(SubSeq(Contents, 1, n)) = n
      /\ \A i \in 1..n : SubSeq(Contents, 1, n)[i] = Contents[i]
  BY <1>1, SplitAt, Zenon
<1>3. \A i \in 1..n : SubSeq(Contents, 1, n)[i] = s[i]
  BY <1>1, <1>2, SMT DEF Inv, TypeOK, SizeAssumption
<1> QED
  BY <1>2, <1>3, SeqEqual, Zenon

(***************************************************************************)
(* Taking n bytes out moves rear n slots on and leaves the younger ones.   *)
(***************************************************************************)
LEMMA TakenOut ==
  ASSUME SizeAssumption, Inv, NEW n \in 0..current_size,
         buffer' = buffer, front' = front, rear' = Slot(rear + n),
         current_size' = current_size - n,
         reply' \in Replies
  PROVE  Inv' /\ Contents' = SubSeq(Contents, n + 1, Len(Contents))
<1>0. /\ front \in Nat /\ rear \in Nat /\ current_size \in Nat /\ Size \in Nat
      /\ front < Size /\ rear < Size /\ current_size <= Size /\ n \in Nat
      /\ n <= current_size
      /\ front = Slot(rear + current_size)
  BY SMT DEF Inv, TypeOK, IndexInv, Slots, SizeAssumption
<1>1. rear' \in Slots /\ current_size' \in 0..Size
  BY <1>0, SMT DEF Slot, Slots
<1>2. IndexInv'
  BY <1>0, SMT DEF IndexInv, Slot
<1>3. Inv'
  BY <1>1, <1>2 DEF Inv, TypeOK
<1>4. /\ Contents \in Seq(Byte) /\ Len(Contents) = current_size
      /\ \A k \in 1..current_size : Contents[k] = buffer[Slot(rear + k - 1)]
  BY ContentsType
<1>5. /\ Contents' \in Seq(Byte) /\ Len(Contents') = current_size'
      /\ \A k \in 1..current_size' : Contents'[k] = buffer'[Slot(rear' + k - 1)]
  BY <1>3, ContentsTypeNext
<1>6. ASSUME NEW k \in 1..(Len(Contents) - n)
      PROVE  Contents'[k] = Contents[n + k]
  <2>1. k \in 1..current_size' /\ n + k \in 1..current_size
    BY <1>0, <1>4, SMT
  <2>2. Slot(rear' + k - 1) = Slot(rear + (n + k) - 1)
    BY <1>0, <2>1, SMT DEF Slot
  <2> QED
    BY <1>4, <1>5, <2>1, <2>2
<1> QED
  BY <1>3, <1>4, <1>5, <1>6, IsRest

(***************************************************************************)
(* Both branches of Read copy the oldest bytes out and, when they remove   *)
(* them, move rear by as many slots.                                       *)
(***************************************************************************)
GetStep(n, remove) ==
  /\ n \in 0..current_size
  /\ reply' = GetReply(n, remove, SubSeq(Contents, 1, n))
  /\ Inv'
  /\ Contents' = IF remove THEN SubSeq(Contents, n + 1, Len(Contents))
                           ELSE Contents

LEMMA AcceptedRead ==
  ASSUME SizeAssumption, Inv, NEW n \in Nat, NEW remove \in BOOLEAN,
         ReadContiguous(n, remove) \/ ReadWrapped(n, remove)
  PROVE  GetStep(n, remove)
<1>0. /\ front \in Nat /\ rear \in Nat /\ current_size \in Nat /\ Size \in Nat
      /\ front < Size /\ rear < Size /\ current_size <= Size
      /\ front = Slot(rear + current_size)
  BY SMT DEF Inv, TypeOK, IndexInv, Slots, SizeAssumption
<1>1. n \in 0..current_size /\ buffer' = buffer /\ front' = front
  BY <1>0, SMT DEF ReadContiguous, ReadWrapped
<1>2. PICK s \in Seq(Byte) :
         /\ reply' = GetReply(n, remove, s)
         /\ Len(s) = n
         /\ \A k \in 1..n : s[k] = buffer[Slot(rear + k - 1)]
  <2>1. CASE ReadContiguous(n, remove)
    <3>1. rear + n <= Size
      BY <1>0, <1>1, <2>1, SMT DEF ReadContiguous, FitsBehindRear, Slot
    <3>2. /\ CopyOut(rear, n) \in Seq(Byte)
          /\ Len(CopyOut(rear, n)) = n
          /\ \A k \in 1..n : CopyOut(rear, n)[k] = buffer[rear + k - 1]
      BY <1>0, <3>1, CopyOutType DEF Inv
    <3>3. \A k \in 1..n : Slot(rear + k - 1) = rear + k - 1
      BY <1>0, <3>1, SMT DEF Slot
    <3>4. reply' = GetReply(n, remove, CopyOut(rear, n))
      BY <2>1 DEF ReadContiguous
    <3> QED
      BY <3>2, <3>3, <3>4
  <2>2. CASE ReadWrapped(n, remove)
    <3> DEFINE leading == Size - rear
               high == CopyOut(rear, leading)
               low == CopyOut(0, n - leading)
    <3>1. leading \in Nat /\ n - leading \in Nat /\ n - leading <= Size
          /\ rear + leading = Size
      BY <1>0, <1>1, <2>2, SMT DEF ReadWrapped, FitsBehindRear
    <3>2. /\ high \in Seq(Byte) /\ Len(high) = leading
          /\ \A k \in 1..leading : high[k] = buffer[rear + k - 1]
      <4>1. rear + leading <= Size
        BY <1>0, <3>1, SMT
      <4> HIDE DEF leading
      <4> QED
        BY <1>0, <3>1, <4>1, CopyOutType DEF Inv
    <3>3. /\ low \in Seq(Byte) /\ Len(low) = n - leading
          /\ \A k \in 1..(n - leading) : low[k] = buffer[0 + k - 1]
      <4>1. 0 \in Nat /\ 0 + (n - leading) <= Size
        BY <1>0, <3>1, SMT
      <4> HIDE DEF leading
      <4> QED
        BY <3>1, <4>1, CopyOutType DEF Inv
    <3>4. reply' = GetReply(n, remove, high \o low)
      BY <2>2 DEF ReadWrapped
    <3> HIDE DEF high, low
    <3>5. /\ high \o low \in Seq(Byte) /\ Len(high \o low) = n
          /\ \A k \in 1..n : (high \o low)[k] =
                IF k <= leading THEN high[k] ELSE low[k - leading]
      BY <3>1, <3>2, <3>3, ConcatProperties, SMT
    <3>6. ASSUME NEW k \in 1..n
          PROVE  (high \o low)[k] = buffer[Slot(rear + k - 1)]
      <4>1. CASE k <= leading
        <5>1. k \in 1..leading /\ Slot(rear + k - 1) = rear + k - 1
          BY <1>0, <3>1, <4>1, SMT DEF Slot
        <5> QED
          BY <3>2, <3>5, <4>1, <5>1
      <4>2. CASE k > leading
        <5>1. /\ k - leading \in 1..(n - leading)
              /\ Slot(rear + k - 1) = 0 + (k - leading) - 1
              /\ ~(k <= leading)
          BY <1>0, <3>1, <4>2, SMT DEF Slot
        <5>2. (high \o low)[k] = low[k - leading]
          BY <3>5, <5>1
        <5> QED
          BY <3>3, <5>1, <5>2
      <4>3. k <= leading \/ k > leading
        BY <1>0, <3>1, SMT
      <4> QED
        BY <4>1, <4>2, <4>3
    <3> QED
      BY <3>4, <3>5, <3>6
  <2> QED
    BY <2>1, <2>2
<1>3. reply' = GetReply(n, remove, SubSeq(Contents, 1, n))
  BY <1>1, <1>2, Oldest
<1>4. reply' \in Replies
  BY <1>2, SMT DEF GetReply, Name, Reply, Replies
<1>5. CASE remove
  <2>1. rear' = Slot(rear + n) /\ current_size' = current_size - n
    <3>1. \/ /\ FitsBehindRear(n) /\ rear' = Advance(rear, n)
             /\ current_size' = current_size - n
          \/ /\ ~FitsBehindRear(n) /\ rear' = n - (Size - rear)
             /\ current_size' = current_size - n
      BY <1>5, Zenon DEF ReadContiguous, ReadWrapped
    <3> QED
      BY <1>0, <1>1, <3>1, SMT DEF FitsBehindRear, Advance, Slot
  <2> QED
    BY <1>1, <1>3, <1>4, <1>5, <2>1, TakenOut DEF GetStep
<1>6. CASE ~remove
  <2>1. rear' = rear /\ current_size' = current_size
    BY <1>6 DEF ReadContiguous, ReadWrapped
  <2>2. Inv' /\ Contents' = Contents
    BY <1>1, <1>4, <2>1 DEF Inv, TypeOK, IndexInv, Contents
  <2> QED
    BY <1>1, <1>3, <1>6, <2>2 DEF GetStep
<1> QED
  BY <1>5, <1>6

LEMMA RefuseInv ==
  ASSUME Inv, NEW op \in {"put", "peek", "take"}, NEW n \in Nat, Refuse(op, n)
  PROVE  Inv' /\ Contents' = Contents
<1>1. reply' \in Replies
  BY EmptySeq, SMT DEF Refuse, Reply, Replies
<1> QED
  BY <1>1 DEF Inv, TypeOK, IndexInv, Contents, Refuse

LEMMA ResetInv == ASSUME SizeAssumption, Inv, Reset
                  PROVE  Inv' /\ Contents' = <<>>
<1>1. Inv'
  BY SMT DEF Inv, TypeOK, IndexInv, Reset, Slots, Slot, SizeAssumption
<1>2. Contents' \in Seq(Byte) /\ Len(Contents') = 0
  BY <1>1, ContentsTypeNext DEF Reset
<1> QED
  BY <1>1, <1>2, EmptySeq

LEMMA StutterInv == ASSUME Inv, UNCHANGED vars
                    PROVE  Inv' /\ Contents' = Contents
BY DEF Inv, TypeOK, IndexInv, Contents, vars

LEMMA InitInv == ASSUME SizeAssumption, Init
                 PROVE  Inv /\ Contents = <<>>
<1>1. reply \in Replies
  BY EmptySeq, SMT DEF Init, Reply, Replies
<1>2. Inv
  BY <1>1, SMT DEF Inv, TypeOK, IndexInv, Init, Slots, Slot, SizeAssumption
<1>3. Contents \in Seq(Byte) /\ Len(Contents) = 0
  BY <1>2, ContentsType DEF Init
<1> QED
  BY <1>2, <1>3, EmptySeq

-----------------------------------------------------------------------------
(***************************************************************************)
(* Every step of the ring keeps its invariant and is, read through         *)
(* Contents, a step of the queue or a stutter.                             *)
(***************************************************************************)
LEMMA StepRefines ==
  ASSUME SizeAssumption, ChunkAssumption, ReadSizeAssumption, Inv, [Next]_vars
  PROVE  Inv' /\ [Fifo!Next]_Fifo!fifoVars
<1>0. /\ Len(Contents) = current_size
      /\ current_size \in Nat /\ Size \in Nat /\ current_size <= Size
  BY ContentsType, SMT DEF Inv, TypeOK, SizeAssumption
<1>1. ASSUME NEW d \in Chunk, Write(d)
      PROVE  Inv' /\ Fifo!Next
  <2>0. d \in Seq(Byte) /\ Len(d) \in Nat
    BY LenProperties DEF ChunkAssumption
  <2>1. CASE WriteRefused(d) /\ Size - current_size < Len(d)
    <3>1. Len(Contents) + Len(d) > Size
      BY <1>0, <2>0, <2>1, SMT
    <3>2. Inv' /\ Contents' = Contents
      BY <2>0, <2>1, RefuseInv DEF WriteRefused
    <3>3. Fifo!Refuse("put", Len(d))
      BY <2>1, <3>2 DEF WriteRefused, Refuse, Fifo!Refuse, Reply, Fifo!Reply
    <3> QED
      BY <3>1, <3>2, <3>3 DEF Fifo!Next
  <2>2. CASE WriteRefused(d) /\ ~(Size - current_size < Len(d))
    <3>1. Len(d) = 0
      BY <1>0, <2>0, <2>2, SMT DEF WriteRefused, IsFull, AvailableSize
    <3>2. d = <<>> /\ Len(Contents) + Len(d) <= Size
      BY <1>0, <2>0, <3>1, EmptySeq, SMT
    <3>3. Inv' /\ Contents' = Contents
      BY <2>0, <2>2, RefuseInv DEF WriteRefused
    <3>4. Contents \o d = Contents
      BY <3>2, ContentsType, ConcatEmptySeq
    <3>5. reply' = PutReply(Len(d))
      BY <2>2, <3>1 DEF WriteRefused, Refuse, PutReply
    <3>6. Fifo!Put(d)
      BY <3>2, <3>3, <3>4, <3>5 DEF Fifo!Put, PutReply, Reply, Fifo!Reply
    <3> QED
      BY <3>3, <3>6 DEF Fifo!Next
  <2>3. CASE WriteContiguous(d) \/ WriteWrapped(d)
    <3>1. Inv' /\ Contents' = Contents \o d /\ reply' = PutReply(Len(d))
      BY <2>0, <2>3, AcceptedWrite
    <3>2. Len(Contents) + Len(d) <= Size
      BY <1>0, <2>0, <2>3, SMT DEF WriteContiguous, WriteWrapped, AvailableSize
    <3>3. Fifo!Put(d)
      BY <3>1, <3>2 DEF Fifo!Put, PutReply, Reply, Fifo!Reply
    <3> QED
      BY <3>1, <3>3 DEF Fifo!Next
  <2> QED
    BY <1>1, <2>1, <2>2, <2>3 DEF Write
<1>2. ASSUME NEW n \in ReadSize, NEW remove \in BOOLEAN, Read(n, remove)
      PROVE  Inv' /\ Fifo!Next
  <2>0. n \in Nat
    BY DEF ReadSizeAssumption
  <2>1. CASE ReadRefused(n, remove)
    <3>1. n > Len(Contents)
      BY <1>0, <2>0, <2>1, SMT DEF ReadRefused
    <3>2. Inv' /\ Contents' = Contents
      BY <2>0, <2>1, RefuseInv DEF ReadRefused, Name
    <3>3. Fifo!Refuse(Fifo!Name(remove), n)
      BY <2>1, <3>2 DEF ReadRefused, Refuse, Fifo!Refuse, Reply, Fifo!Reply, Name, Fifo!Name
    <3> QED
      BY <3>1, <3>2, <3>3 DEF Fifo!Next
  <2>2. CASE ReadContiguous(n, remove) \/ ReadWrapped(n, remove)
    <3>1. GetStep(n, remove)
      BY <2>0, <2>2, AcceptedRead
    <3>2. n <= Len(Contents)
      BY <1>0, <2>0, <3>1, SMT DEF GetStep
    <3>3. Fifo!Get(n, remove)
      BY <3>1, <3>2 DEF GetStep, Fifo!Get, GetReply, Name, Fifo!Name, Reply, Fifo!Reply
    <3> QED
      BY <3>1, <3>3 DEF GetStep, Fifo!Next
  <2> QED
    BY <1>2, <2>1, <2>2 DEF Read
<1>3. CASE Reset
  <2>1. Inv' /\ Contents' = <<>>
    BY <1>3, ResetInv
  <2>2. Fifo!Clear
    BY <1>3, <2>1 DEF Reset, Fifo!Clear
  <2> QED
    BY <2>1, <2>2 DEF Fifo!Next
<1>4. CASE UNCHANGED vars
  BY <1>4, StutterInv DEF vars, Fifo!fifoVars
<1> QED
  BY <1>1, <1>2, <1>3, <1>4 DEF Next

(***************************************************************************)
(* In every reachable state the indices of ByteCircularBuffer.cpp name     *)
(* slots of the ring and current_size agrees with them.                    *)
(***************************************************************************)
THEOREM RingInvariant == Spec => [](TypeOK /\ IndexInv)
<1>1. Init => Inv
  BY InitInv, SizeAssumption
<1>2. Inv /\ [Next]_vars => Inv'
  BY StepRefines, SizeAssumption, ChunkAssumption, ReadSizeAssumption
<1> QED
  BY <1>1, <1>2, PTL DEF Spec, Inv

(***************************************************************************)
(* The ring of any size implements the FIFO byte queue: what Read returns  *)
(* is what Write was given, in the same order, whichever branches the two  *)
(* take and wherever the indices wrap.                                     *)
(***************************************************************************)
THEOREM RingIsFifo == Spec => FifoSpec
<1>1. Init => Inv /\ Fifo!Init
  BY InitInv, SizeAssumption DEF Init, Fifo!Init, Reply, Fifo!Reply
<1>2. Inv /\ [Next]_vars => Inv' /\ [Fifo!Next]_Fifo!fifoVars
  BY StepRefines, SizeAssumption, ChunkAssumption, ReadSizeAssumption
<1> QED
  BY <1>1, <1>2, PTL DEF Spec, FifoSpec, Fifo!Spec

-----------------------------------------------------------------------------
(***************************************************************************)
(* The glue list.  Chained says which sequence the links are those of, and *)
(* that all other links are clear; each function is first shown to lead    *)
(* from the links of one sequence to those of another.                     *)
(***************************************************************************)
\* What has links, and what they lead to.
Linked == Node \cup {Glue!Head_}
Target == Linked \cup {Glue!Null}
LinksType == [left : [Linked -> Target], right : [Linked -> Target]]

\* The i-th stop of a walk through s: the head, the nodes, the end.
Stop(s, i) == IF i = 0 THEN Glue!Head_ ELSE IF i <= Len(s) THEN s[i] ELSE Glue!Null

Distinct(s) == s \in Seq(Node) /\ \A i, j \in 1..Len(s) : s[i] = s[j] => i = j

Outside(n, s) == n \in Node /\ \A i \in 1..Len(s) : s[i] # n

\* The links are those of the sequence s, and all other links are clear.
Chained(L, s) ==
  /\ L \in LinksType /\ Distinct(s)
  /\ \A i \in 0..Len(s) : L.right[Stop(s, i)] = Stop(s, i + 1)
  /\ \A i \in 1..Len(s) : L.left[s[i]] = Stop(s, i - 1)
  /\ L.left[Glue!Head_] = Glue!Null
  /\ \A n \in Node : Outside(n, s) => L.left[n] = Glue!Null /\ L.right[n] = Glue!Null

\* The head and the null pointer are no nodes.
LEMMA Apart == /\ Glue!Head_ \notin Node /\ Glue!Null \notin Node /\ Glue!Head_ # Glue!Null
               /\ IsFiniteSet(Node) /\ Key \in [Node -> Int]
BY NodeAssumption DEF Glue!Head_, Glue!Null

\* Where the stops are.
LEMMA Stops ==
  ASSUME NEW s, Distinct(s)
  PROVE  /\ Len(s) \in Nat
         /\ \A i \in 0..Len(s) : Stop(s, i) \in Linked /\ Stop(s, i) # Glue!Null
         /\ \A i \in 1..Len(s) : Stop(s, i) = s[i] /\ s[i] \in Node
         /\ Stop(s, 0) = Glue!Head_
         /\ \A i \in Nat : i > Len(s) => Stop(s, i) = Glue!Null
         /\ \A i \in Nat : Stop(s, i) \in Target
         /\ \A i, j \in 0..Len(s) : Stop(s, i) = Stop(s, j) => i = j
<1>1. Len(s) \in Nat /\ \A i \in 1..Len(s) : s[i] \in Node
  BY DEF Distinct
<1>2. \A i \in 1..Len(s) : Stop(s, i) = s[i] /\ s[i] \in Node
  BY <1>1 DEF Stop
<1>3. Stop(s, 0) = Glue!Head_
  BY DEF Stop
<1>4. \A i \in 0..Len(s) : i = 0 \/ i \in 1..Len(s)
  BY <1>1
<1>5. \A i \in 0..Len(s) : Stop(s, i) \in Linked /\ Stop(s, i) # Glue!Null
  BY <1>2, <1>3, <1>4, Apart DEF Linked
<1>6. \A i \in Nat : i > Len(s) => Stop(s, i) = Glue!Null
  BY <1>1 DEF Stop
<1>7. \A i \in Nat : Stop(s, i) \in Target
  <2>1. \A i \in Nat : i \in 0..Len(s) \/ i > Len(s)
    BY <1>1
  <2>2. QED
    BY <1>5, <1>6, <2>1 DEF Target
<1>8. \A i, j \in 0..Len(s) : Stop(s, i) = Stop(s, j) => i = j
  <2> SUFFICES ASSUME NEW i \in 0..Len(s), NEW j \in 0..Len(s), Stop(s, i) = Stop(s, j)
               PROVE  i = j
    OBVIOUS
  <2>1. CASE i = 0
    BY <1>2, <1>3, <1>4, <2>1, Apart
  <2>2. CASE j = 0
    BY <1>2, <1>3, <1>4, <2>2, Apart
  <2>3. CASE i \in 1..Len(s) /\ j \in 1..Len(s)
    BY <1>2, <2>3 DEF Distinct
  <2>4. QED
    BY <1>4, <2>1, <2>2, <2>3
<1>9. QED
  BY <1>1, <1>2, <1>3, <1>5, <1>6, <1>7, <1>8

\* Nodes that are distinct are not more than there are.
LEMMA NotMoreThanNodes ==
  ASSUME NEW s, Distinct(s)
  PROVE  Len(s) <= Cardinality(Node) /\ Cardinality(Node) \in Nat
<1>1. Cardinality(Node) \in Nat /\ IsFiniteSet(Node)
  BY Apart, FS_CardinalityType
<1>2. Len(s) \in Nat /\ s \in [1..Len(s) -> Node]
  BY DEF Distinct
<1>3. IsFiniteSet(1..Len(s)) /\ Cardinality(1..Len(s)) = Len(s)
  <2>1. 1 \in Int /\ Len(s) \in Int
    BY <1>2
  <2>2. /\ IsFiniteSet(1..Len(s))
        /\ Cardinality(1..Len(s)) = IF 1 > Len(s) THEN 0 ELSE Len(s) - 1 + 1
    BY <2>1, FS_Interval
  <2>3. QED
    BY <1>2, <2>2
<1>4. ~(Cardinality(Node) < Len(s))
  <2>1. ASSUME Cardinality(Node) < Cardinality(1..Len(s)) PROVE FALSE
    <3>1. \E x, y \in 1..Len(s) : x # y /\ s[x] = s[y]
      BY <1>1, <1>2, <1>3, <2>1, FS_PigeonHole
    <3>2. QED
      BY <3>1 DEF Distinct
  <2>2. QED
    BY <1>3, <2>1
<1>5. QED
  BY <1>1, <1>2, <1>4

\* The glue list's cardinality is this one.
LEMMA SameCardinality == \A S : Glue!Cardinality(S) = Cardinality(S)
BY DEF Glue!Cardinality, Cardinality

\* The walk along right.
Walking(f, L) ==
  f = [i \in 0 .. Cardinality(Node) + 1 |->
         IF i = 0 THEN Glue!Head_ ELSE IF f[i - 1] = Glue!Null THEN Glue!Null
         ELSE L.right[f[i - 1]]]

\* A walk meets the nodes of the sequence.
LEMMA VisitedIs ==
  ASSUME NEW L, NEW s, Chained(L, s)
  PROVE  Glue!Visited(L) = s
<1> DEFINE C == Cardinality(Node)
           at == CHOOSE f : Walking(f, L)
           last == CHOOSE i \in DOMAIN at : at[i] # Glue!Null /\ (i > C \/ at[i + 1] = Glue!Null)
           w == [i \in 0 .. C + 1 |-> Stop(s, i)]
<1>0. Distinct(s) /\ Len(s) \in Nat /\ C \in Nat /\ Len(s) <= C
  BY NotMoreThanNodes, Stops DEF Chained
<1>1. Glue!Visited(L) = [i \in 1..last |-> at[i]]
  <2>1. Glue!Walk(L) = at
    BY SameCardinality DEF Glue!Walk, Walking
  <2> HIDE DEF at
  <2>2. QED
    BY <2>1, SameCardinality DEF Glue!Visited
<1>2. Walking(w, L)
  <2> SUFFICES ASSUME NEW i \in 0 .. C + 1
               PROVE  Stop(s, i) = IF i = 0 THEN Glue!Head_
                                   ELSE IF w[i - 1] = Glue!Null THEN Glue!Null
                                   ELSE L.right[w[i - 1]]
    BY DEF Walking
  <2>1. CASE i = 0
    BY <1>0, <2>1, Stops
  <2>2. CASE i # 0
    <3>1. i - 1 \in 0 .. C + 1 /\ i - 1 \in Nat /\ i \in Nat /\ w[i - 1] = Stop(s, i - 1)
      BY <1>0, <2>2
    <3>2. CASE i - 1 <= Len(s)
      <4>1. i - 1 \in 0..Len(s) /\ (i - 1) + 1 = i
        BY <1>0, <3>1, <3>2
      <4>2. Stop(s, i - 1) # Glue!Null /\ L.right[Stop(s, i - 1)] = Stop(s, i)
        BY <1>0, <4>1, Stops DEF Chained
      <4>3. QED
        BY <2>2, <3>1, <4>2
    <3>3. CASE i - 1 > Len(s)
      <4>1. Stop(s, i - 1) = Glue!Null /\ Stop(s, i) = Glue!Null
        <5>1. i > Len(s)
          BY <1>0, <3>1, <3>3
        <5>2. QED
          BY <1>0, <3>1, <3>3, <5>1, Stops
      <4>2. QED
        BY <2>2, <3>1, <4>1
    <3>4. QED
      BY <1>0, <3>1, <3>2, <3>3
  <2>3. QED
    BY <2>1, <2>2
<1>3. Walking(at, L)
  <2> HIDE DEF w
  <2>1. QED
    BY <1>2
<1> HIDE DEF at
<1>4. \A i \in 0 .. C + 1 : at[i] = w[i]
  <2> DEFINE Good == {i \in Nat : i <= C + 1 => at[i] = w[i]}
  <2> HIDE DEF w
  <2>1. 0 \in Good
    BY <1>0, <1>2, <1>3 DEF Walking
  <2>2. ASSUME NEW i \in Nat, i \in Good PROVE i + 1 \in Good
    <3> SUFFICES ASSUME i + 1 <= C + 1 PROVE at[i + 1] = w[i + 1]
      OBVIOUS
    <3>1. i + 1 \in 0 .. C + 1 /\ i + 1 # 0 /\ (i + 1) - 1 = i /\ at[i] = w[i]
      BY <1>0, <2>2
    <3>2. at[i + 1] = IF at[i] = Glue!Null THEN Glue!Null ELSE L.right[at[i]]
      BY <1>3, <3>1 DEF Walking
    <3>3. w[i + 1] = IF w[i] = Glue!Null THEN Glue!Null ELSE L.right[w[i]]
      BY <1>2, <3>1 DEF Walking
    <3>4. QED
      BY <3>1, <3>2, <3>3
  <2>3. \A i \in Nat : i \in Good
    <3> HIDE DEF Good
    <3>1. QED
      BY <2>1, <2>2, Climb
  <2>4. QED
    BY <1>0, <2>3
<1>5. DOMAIN at = 0 .. C + 1 /\ \A i \in 0 .. C + 1 : at[i] = Stop(s, i)
  BY <1>3, <1>4 DEF Walking
<1>6. last = Len(s)
  <2> DEFINE Ends(i) == at[i] # Glue!Null /\ (i > C \/ at[i + 1] = Glue!Null)
  <2>1. Len(s) \in DOMAIN at /\ Ends(Len(s))
    <3>1. Len(s) \in 0 .. C + 1 /\ Len(s) + 1 \in 0 .. C + 1 /\ Len(s) \in 0..Len(s)
          /\ Len(s) + 1 \in Nat /\ Len(s) + 1 > Len(s)
      BY <1>0
    <3>2. QED
      BY <1>0, <1>5, <3>1, Stops
  <2>2. ASSUME NEW i \in DOMAIN at, Ends(i) PROVE i = Len(s)
    <3>1. i \in 0 .. C + 1 /\ i \in Nat
      BY <1>0, <1>5
    <3>2. ~(i > Len(s))
      BY <1>0, <1>5, <2>2, <3>1, Stops
    <3>3. i + 1 \in 0 .. C + 1 /\ ~(i > C)
      BY <1>0, <3>1, <3>2
    <3>4. ~(i + 1 \in 0..Len(s))
      BY <1>0, <1>5, <2>2, <3>3, Stops
    <3>5. QED
      BY <1>0, <3>1, <3>2, <3>4
  <2>3. QED
    BY <2>1, <2>2
<1> HIDE DEF last
<1>7. \A i \in 1..Len(s) : at[i] = s[i]
  <2>1. \A i \in 1..Len(s) : i \in 0 .. C + 1
    BY <1>0
  <2>2. QED
    BY <1>0, <1>5, <2>1, Stops
<1>8. s = [i \in 1..Len(s) |-> s[i]]
  BY <1>0 DEF Distinct
<1>9. QED
  BY <1>1, <1>6, <1>7, <1>8

-----------------------------------------------------------------------------
\* A sequence with n put in behind the i-th element.
PutIn(s, i, n) == [k \in 1 .. Len(s) + 1 |-> IF k <= i THEN s[k]
                                             ELSE IF k = i + 1 THEN n ELSE s[k - 1]]

LEMMA PutInIs ==
  ASSUME NEW s \in Seq(Node), NEW i \in 0..Len(s), NEW n \in Node
  PROVE  /\ PutIn(s, i, n) \in Seq(Node) /\ Len(PutIn(s, i, n)) = Len(s) + 1
         /\ Glue!List!InsertAt(s, i + 1, n) = PutIn(s, i, n)
<1> DEFINE t == PutIn(s, i, n)
           a == SubSeq(s, 1, i)
           c == SubSeq(s, i + 1, Len(s))
           u == a \o <<n>> \o c
<1>0. Len(s) \in Nat /\ i \in Nat /\ i <= Len(s)
  OBVIOUS
<1>1. t \in [1 .. Len(s) + 1 -> Node]
  <2>1. ASSUME NEW k \in 1 .. Len(s) + 1
        PROVE (IF k <= i THEN s[k] ELSE IF k = i + 1 THEN n ELSE s[k - 1]) \in Node
    <3>1. CASE k <= i
      BY <1>0, <3>1
    <3>2. CASE k = i + 1
      BY <1>0, <3>2
    <3>3. CASE k > i + 1
      <4>1. k - 1 \in 1..Len(s)
        BY <1>0, <3>3
      <4>2. QED
        BY <1>0, <3>3, <4>1
    <3>4. QED
      BY <1>0, <3>1, <3>2, <3>3
  <2>2. QED
    BY <2>1 DEF PutIn
<1>2. t \in Seq(Node) /\ Len(t) = Len(s) + 1
  <2>1. Len(s) + 1 \in Nat
    BY <1>0
  <2> HIDE DEF t
  <2>2. QED
    BY <1>1, <2>1, FunctionIsSeq
<1>3. /\ a \in Seq(Node) /\ Len(a) = i /\ \A k \in 1..i : a[k] = s[k]
      /\ c \in Seq(Node) /\ Len(c) = Len(s) - i
      /\ \A k \in 1 .. Len(s) - i : c[k] = s[i + k]
  BY <1>0
<1>4. Glue!List!InsertAt(s, i + 1, n) = u
  <2>1. (i + 1) - 1 = i
    BY <1>0
  <2>2. QED
    BY <2>1 DEF Glue!List!InsertAt
<1>5. u \in Seq(Node) /\ Len(u) = Len(s) + 1
  <2>1. <<n>> \in Seq(Node) /\ Len(<<n>>) = 1
    OBVIOUS
  <2> HIDE DEF a, c
  <2>2. a \o <<n>> \in Seq(Node) /\ Len(a \o <<n>>) = i + 1
    BY <1>0, <1>3, <2>1
  <2>3. QED
    BY <1>0, <1>3, <2>2
<1>6. \A k \in 1 .. Len(s) + 1 : u[k] = t[k]
  <2> SUFFICES ASSUME NEW k \in 1 .. Len(s) + 1 PROVE u[k] = t[k]
    OBVIOUS
  <2>0. t[k] = IF k <= i THEN s[k] ELSE IF k = i + 1 THEN n ELSE s[k - 1]
    BY DEF PutIn
  <2> HIDE DEF t, a, c
  <2>1. u[k] = IF k <= i THEN a[k] ELSE IF k = i + 1 THEN n ELSE c[k - i - 1]
    BY <1>0, <1>3
  <2>2. k > i + 1 => k - i - 1 \in 1 .. Len(s) - i /\ i + (k - i - 1) = k - 1
    BY <1>0
  <2> HIDE DEF u
  <2>3. CASE k <= i
    BY <1>0, <1>3, <2>0, <2>1, <2>3
  <2>4. CASE k = i + 1
    BY <1>0, <2>0, <2>1, <2>4
  <2>5. CASE k > i + 1
    <3>1. c[k - i - 1] = s[k - 1]
      BY <1>0, <1>3, <2>2, <2>5
    <3>2. ~(k <= i) /\ k # i + 1
      BY <1>0, <2>5
    <3>3. QED
      BY <2>0, <2>1, <3>1, <3>2
  <2>6. QED
    BY <1>0, <2>3, <2>4, <2>5
<1>7. t = u
  <2> HIDE DEF t, u
  <2>1. QED
    BY <1>2, <1>5, <1>6, SeqEqual
<1>8. QED
  BY <1>2, <1>4, <1>7

\* A node that is put in behind the i-th stop is the next one.
LEMMA AddNextChains ==
  ASSUME NEW L, NEW s, Chained(L, s), NEW i \in 0..Len(s), NEW n, Outside(n, s)
  PROVE  Chained(Glue!glthread_add_next(L, Stop(s, i), n), PutIn(s, i, n))
<1> DEFINE t == PutIn(s, i, n)
           curr == Stop(s, i)
           nxt == Stop(s, i + 1)
           M == Glue!glthread_add_next(L, curr, n)
<1>0. /\ Distinct(s) /\ Len(s) \in Nat /\ i \in Nat /\ i <= Len(s) /\ s \in Seq(Node)
      /\ L \in LinksType /\ n \in Node
  BY Stops DEF Chained, Distinct, Outside
<1>1. /\ curr \in Linked /\ curr # Glue!Null /\ nxt \in Target /\ L.right[curr] = nxt
      /\ curr # n /\ nxt # n /\ n \in Linked /\ n # Glue!Null /\ n # Glue!Head_
  <2>1. curr \in Linked /\ curr # Glue!Null /\ nxt \in Target /\ L.right[curr] = nxt
    BY <1>0, Stops DEF Chained
  <2>2. n \in Linked /\ n # Glue!Null /\ n # Glue!Head_
    BY <1>0, Apart DEF Linked
  <2>3. \A k \in Nat : Stop(s, k) # n
    BY <1>0, <2>2 DEF Stop, Outside
  <2>4. QED
    BY <1>0, <2>1, <2>2, <2>3
<1>2. L.left[n] = Glue!Null /\ L.right[n] = Glue!Null
  BY <1>0 DEF Chained
<1>3. /\ L.left \in [Linked -> Target] /\ L.right \in [Linked -> Target]
  BY <1>0 DEF LinksType
<1>4. /\ M.left = IF nxt = Glue!Null THEN [L.left EXCEPT ![n] = curr]
                  ELSE [L.left EXCEPT ![n] = curr, ![nxt] = n]
      /\ M.right = IF nxt = Glue!Null THEN [L.right EXCEPT ![curr] = n]
                   ELSE [L.right EXCEPT ![curr] = n, ![n] = nxt]
      /\ M = [left |-> M.left, right |-> M.right]
  BY <1>1 DEF Glue!glthread_add_next, Glue!Links
<1>5. \A x \in Linked : /\ M.left[x] = IF x = n THEN curr ELSE IF x = nxt THEN n ELSE L.left[x]
                        /\ M.right[x] = IF x = n THEN nxt ELSE IF x = curr THEN n ELSE L.right[x]
  <2>1. Glue!Null \notin Linked
    BY Apart DEF Linked
  <2>2. CASE nxt = Glue!Null
    BY <1>1, <1>2, <1>3, <1>4, <2>1, <2>2
  <2>3. CASE nxt # Glue!Null
    <3>1. nxt \in Linked
      BY <1>1, <2>3 DEF Target
    <3>2. QED
      BY <1>1, <1>2, <1>3, <1>4, <2>3, <3>1
  <2>4. QED
    BY <2>2, <2>3
<1>6. M \in LinksType
  <2>1. n \in Target /\ curr \in Target
    BY <1>1 DEF Target
  <2>2. M.left \in [Linked -> Target] /\ M.right \in [Linked -> Target]
    BY <1>1, <1>3, <1>4, <2>1
  <2>3. QED
    BY <1>4, <2>2 DEF LinksType
<1> HIDE DEF M, curr, nxt
<1>7. t \in Seq(Node) /\ Len(t) = Len(s) + 1
  BY <1>0, PutInIs
<1>8. \A k \in 1 .. Len(s) + 1 : t[k] = IF k <= i THEN s[k]
                                        ELSE IF k = i + 1 THEN n ELSE s[k - 1]
  BY DEF PutIn
<1> HIDE DEF t
<1>9. Distinct(t)
  <2> SUFFICES ASSUME NEW j \in 1..Len(t), NEW k \in 1..Len(t), t[j] = t[k] PROVE j = k
    BY <1>7 DEF Distinct
  <2>1. \A m \in 1 .. Len(s) + 1 : /\ m <= i => m \in 1..Len(s)
                                   /\ m > i + 1 => m - 1 \in 1..Len(s)
    BY <1>0
  <2>2. \A p, q \in 1..Len(s) : s[p] = s[q] => p = q
    BY <1>0 DEF Distinct
  <2>3. \A p \in 1..Len(s) : s[p] # n
    BY DEF Outside
  <2>4. j \in 1 .. Len(s) + 1 /\ k \in 1 .. Len(s) + 1
    BY <1>7
  <2>5. CASE j = i + 1 \/ k = i + 1
    BY <1>0, <1>8, <2>1, <2>3, <2>4, <2>5
  <2>6. CASE j # i + 1 /\ k # i + 1
    <3> DEFINE p(m) == IF m <= i THEN m ELSE m - 1
    <3>1. \A m \in 1 .. Len(s) + 1 : m # i + 1 => p(m) \in 1..Len(s) /\ t[m] = s[p(m)]
      BY <1>0, <1>8, <2>1
    <3>2. p(j) = p(k)
      <4>1. p(j) \in 1..Len(s) /\ p(k) \in 1..Len(s) /\ s[p(j)] = s[p(k)]
        BY <2>4, <2>6, <3>1
      <4> HIDE DEF p
      <4>2. QED
        BY <2>2, <4>1
    <3>3. QED
      BY <1>0, <2>4, <2>6, <3>2
  <2>7. QED
    BY <2>5, <2>6
<1>10. \A k \in 0 .. Len(s) + 2 : Stop(t, k) = IF k <= i THEN Stop(s, k)
                                               ELSE IF k = i + 1 THEN n ELSE Stop(s, k - 1)
  <2> SUFFICES ASSUME NEW k \in 0 .. Len(s) + 2
               PROVE  Stop(t, k) = IF k <= i THEN Stop(s, k)
                                   ELSE IF k = i + 1 THEN n ELSE Stop(s, k - 1)
    OBVIOUS
  <2>1. CASE k = 0
    BY <1>0, <2>1 DEF Stop
  <2>2. CASE k \in 1 .. Len(s) + 1
    <3>1. Stop(t, k) = t[k]
      BY <1>0, <1>7, <2>2 DEF Stop
    <3>2. k <= i => Stop(s, k) = s[k]
      BY <1>0, <2>2 DEF Stop
    <3>3. k > i + 1 => Stop(s, k - 1) = s[k - 1]
      BY <1>0, <2>2 DEF Stop
    <3>4. QED
      BY <1>0, <1>8, <2>2, <3>1, <3>2, <3>3
  <2>3. CASE k = Len(s) + 2
    BY <1>0, <1>7, <2>3 DEF Stop
  <2>4. QED
    BY <1>0, <2>1, <2>2, <2>3
<1>11. \A k \in 0..Len(t) : M.right[Stop(t, k)] = Stop(t, k + 1)
  <2> SUFFICES ASSUME NEW k \in 0..Len(t) PROVE M.right[Stop(t, k)] = Stop(t, k + 1)
    OBVIOUS
  <2>0. k \in 0 .. Len(s) + 2 /\ k + 1 \in 0 .. Len(s) + 2 /\ k \in Nat
    BY <1>0, <1>7
  <2>1. CASE k < i
    <3>1. Stop(t, k) = Stop(s, k) /\ Stop(t, k + 1) = Stop(s, k + 1)
      BY <1>0, <1>10, <2>0, <2>1
    <3>2. k \in 0..Len(s) /\ k # i
      BY <1>0, <2>0, <2>1
    <3>3. Stop(s, k) \in Linked /\ Stop(s, k) # curr /\ Stop(s, k) # n
      BY <1>0, <1>1, <3>2, Stops DEF curr, Outside
    <3>4. L.right[Stop(s, k)] = Stop(s, k + 1)
      BY <3>2 DEF Chained
    <3>5. QED
      BY <1>5, <3>1, <3>3, <3>4
  <2>2. CASE k = i
    <3>1. Stop(t, k) = curr /\ Stop(t, k + 1) = n
      BY <1>0, <1>10, <2>0, <2>2 DEF curr
    <3>2. QED
      BY <1>1, <1>5, <3>1
  <2>3. CASE k = i + 1
    <3>1. Stop(t, k) = n /\ Stop(t, k + 1) = nxt
      <4>1. (k + 1) - 1 = i + 1 /\ ~(k + 1 <= i) /\ k + 1 # i + 1 /\ ~(k <= i)
        BY <1>0, <2>3
      <4>2. QED
        BY <1>10, <2>0, <2>3, <4>1 DEF nxt
    <3>2. QED
      BY <1>1, <1>5, <3>1
  <2>4. CASE k > i + 1
    <3>1. Stop(t, k) = Stop(s, k - 1) /\ Stop(t, k + 1) = Stop(s, k)
      BY <1>0, <1>10, <2>0, <2>4
    <3>2. k - 1 \in 0..Len(s) /\ k - 1 # i /\ (k - 1) + 1 = k /\ k - 1 # 0
      BY <1>0, <1>7, <2>0, <2>4
    <3>3. Stop(s, k - 1) \in Linked /\ Stop(s, k - 1) # curr /\ Stop(s, k - 1) # n
      BY <1>0, <1>1, <3>2, Stops DEF curr, Outside
    <3>4. L.right[Stop(s, k - 1)] = Stop(s, k)
      BY <3>2 DEF Chained
    <3>5. QED
      BY <1>5, <3>1, <3>3, <3>4
  <2>5. QED
    BY <1>0, <2>0, <2>1, <2>2, <2>3, <2>4
<1>12. \A k \in 1..Len(t) : M.left[t[k]] = Stop(t, k - 1)
  <2> SUFFICES ASSUME NEW k \in 1..Len(t) PROVE M.left[t[k]] = Stop(t, k - 1)
    OBVIOUS
  <2>0. k \in 1 .. Len(s) + 1 /\ k \in 0 .. Len(s) + 2 /\ k - 1 \in 0 .. Len(s) + 2
    BY <1>0, <1>7
  <2>1. CASE k <= i
    <3>1. t[k] = s[k] /\ Stop(t, k - 1) = Stop(s, k - 1) /\ k \in 1..Len(s)
      BY <1>0, <1>8, <1>10, <2>0, <2>1
    <3>2. s[k] # n /\ s[k] # nxt /\ s[k] \in Linked
      <4>1. s[k] = Stop(s, k) /\ s[k] \in Linked /\ k \in 0..Len(s) /\ k # i + 1
            /\ s[k] # Glue!Null
        BY <1>0, <2>1, <3>1, Stops
      <4>2. s[k] # nxt
        <5>1. CASE i + 1 \in 0..Len(s)
          BY <1>0, <4>1, <5>1, Stops DEF nxt
        <5>2. CASE i + 1 \notin 0..Len(s)
          BY <1>0, <4>1, <5>2, Stops DEF nxt
        <5>3. QED
          BY <5>1, <5>2
      <4>3. QED
        BY <3>1, <4>1, <4>2 DEF Outside
    <3>3. L.left[s[k]] = Stop(s, k - 1)
      BY <3>1 DEF Chained
    <3>4. QED
      BY <1>5, <3>1, <3>2, <3>3
  <2>2. CASE k = i + 1
    <3>1. t[k] = n /\ Stop(t, k - 1) = curr
      BY <1>0, <1>8, <1>10, <2>0, <2>2 DEF curr
    <3>2. QED
      BY <1>1, <1>5, <3>1
  <2>3. CASE k = i + 2
    <3>1. t[k] = nxt /\ Stop(t, k - 1) = n /\ nxt \in Linked
      <4>1. k - 1 = i + 1 /\ i + 1 \in 1..Len(s) /\ i + 1 \in 0..Len(s) /\ ~(k <= i)
            /\ k # i + 1 /\ ~(k - 1 <= i)
        BY <1>0, <2>0, <2>3
      <4>2. t[k] = s[i + 1] /\ Stop(t, k - 1) = n
        BY <1>8, <1>10, <2>0, <4>1
      <4>3. QED
        BY <1>0, <4>1, <4>2, Stops DEF nxt
    <3>2. QED
      BY <1>1, <1>5, <3>1
  <2>4. CASE k > i + 2
    <3>1. k - 1 \in 1..Len(s) /\ k - 1 \in 0..Len(s) /\ i + 1 \in 0..Len(s) /\ k - 1 # i + 1
      BY <1>0, <2>0, <2>4
    <3>2. t[k] = s[k - 1] /\ Stop(t, k - 1) = Stop(s, (k - 1) - 1)
      BY <1>0, <1>8, <1>10, <2>0, <2>4
    <3>3. s[k - 1] # n /\ s[k - 1] # nxt /\ s[k - 1] \in Linked
      <4>1. s[k - 1] = Stop(s, k - 1) /\ s[k - 1] \in Linked
        BY <1>0, <3>1, Stops
      <4>2. QED
        BY <1>0, <3>1, <4>1, Stops DEF nxt, Outside
    <3>4. L.left[s[k - 1]] = Stop(s, (k - 1) - 1)
      BY <3>1 DEF Chained
    <3>5. QED
      BY <1>5, <3>2, <3>3, <3>4
  <2>5. QED
    BY <1>0, <2>0, <2>1, <2>2, <2>3, <2>4
<1>13. M.left[Glue!Head_] = Glue!Null
  <2>1. nxt # Glue!Head_
    <3>1. nxt = Glue!Null \/ i + 1 \in 1..Len(s)
      BY <1>0, Stops DEF nxt
    <3>2. QED
      BY <1>0, <3>1, Stops, Apart DEF nxt
  <2>2. Glue!Head_ \in Linked /\ L.left[Glue!Head_] = Glue!Null
    BY DEF Linked, Chained
  <2>3. QED
    BY <1>1, <1>5, <2>1, <2>2
<1>14. ASSUME NEW x \in Node, Outside(x, t)
       PROVE  M.left[x] = Glue!Null /\ M.right[x] = Glue!Null
  <2>1. x # n
    <3>1. i + 1 \in 1..Len(t) /\ i + 1 \in 1 .. Len(s) + 1 /\ ~(i + 1 <= i)
      BY <1>0, <1>7
    <3>2. t[i + 1] = n
      BY <1>8, <3>1
    <3>3. QED
      BY <1>14, <3>1, <3>2 DEF Outside
  <2>2. \A k \in 1..Len(s) : s[k] # x
    <3> SUFFICES ASSUME NEW k \in 1..Len(s) PROVE s[k] # x
      OBVIOUS
    <3>1. CASE k <= i
      <4>1. k \in 1..Len(t) /\ t[k] = s[k]
        BY <1>0, <1>7, <1>8, <3>1
      <4>2. QED
        BY <1>14, <4>1 DEF Outside
    <3>2. CASE k > i
      <4>1. k + 1 \in 1..Len(t) /\ t[k + 1] = s[k]
        <5>1. k + 1 \in 1 .. Len(s) + 1 /\ ~(k + 1 <= i) /\ k + 1 # i + 1 /\ (k + 1) - 1 = k
          BY <1>0, <3>2
        <5>2. QED
          BY <1>7, <1>8, <5>1
      <4>2. QED
        BY <1>14, <4>1 DEF Outside
    <3>3. QED
      BY <1>0, <3>1, <3>2
  <2>3. Outside(x, s)
    BY <2>2 DEF Outside
  <2>4. L.left[x] = Glue!Null /\ L.right[x] = Glue!Null
    BY <2>3 DEF Chained
  <2>5. x # curr /\ x # nxt /\ x \in Linked
    <3>1. \A k \in Nat : Stop(s, k) # x
      BY <1>0, <2>2, Apart DEF Stop
    <3>2. QED
      BY <1>0, <3>1 DEF curr, nxt, Linked
  <2>6. QED
    BY <1>5, <2>1, <2>4, <2>5
<1>15. QED
  BY <1>6, <1>9, <1>11, <1>12, <1>13, <1>14 DEF Chained, M, curr, t

\* A sequence without its i-th element.
Without(s, i) == [k \in 1 .. Len(s) - 1 |-> IF k < i THEN s[k] ELSE s[k + 1]]

LEMMA WithoutIs ==
  ASSUME NEW s \in Seq(Node), NEW i \in 1..Len(s)
  PROVE  /\ Without(s, i) \in Seq(Node) /\ Len(Without(s, i)) = Len(s) - 1
         /\ Glue!List!RemoveAt(s, i) = Without(s, i)
<1> DEFINE t == Without(s, i)
           a == SubSeq(s, 1, i - 1)
           c == SubSeq(s, i + 1, Len(s))
           u == a \o c
<1>0. Len(s) \in Nat /\ i \in Nat /\ i <= Len(s) /\ i >= 1 /\ Len(s) - 1 \in Nat
  OBVIOUS
<1>1. t \in [1 .. Len(s) - 1 -> Node]
  <2>1. ASSUME NEW k \in 1 .. Len(s) - 1
        PROVE (IF k < i THEN s[k] ELSE s[k + 1]) \in Node
    <3>1. k \in 1..Len(s) /\ k + 1 \in 1..Len(s)
      BY <1>0
    <3>2. QED
      BY <3>1
  <2>2. QED
    BY <2>1 DEF Without
<1>2. t \in Seq(Node) /\ Len(t) = Len(s) - 1
  <2> HIDE DEF t
  <2>1. QED
    BY <1>0, <1>1, FunctionIsSeq
<1>3. /\ a \in Seq(Node) /\ Len(a) = i - 1 /\ \A k \in 1 .. i - 1 : a[k] = s[k]
      /\ c \in Seq(Node) /\ Len(c) = Len(s) - i
      /\ \A k \in 1 .. Len(s) - i : c[k] = s[i + k]
  BY <1>0
<1>4. Glue!List!RemoveAt(s, i) = u
  BY DEF Glue!List!RemoveAt
<1>5. /\ u \in Seq(Node) /\ Len(u) = Len(s) - 1
      /\ \A k \in 1 .. Len(s) - 1 : u[k] = IF k < i THEN a[k] ELSE c[k - (i - 1)]
  <2> HIDE DEF a, c
  <2>1. QED
    BY <1>0, <1>3
<1>6. \A k \in 1 .. Len(s) - 1 : u[k] = t[k]
  <2> SUFFICES ASSUME NEW k \in 1 .. Len(s) - 1 PROVE u[k] = t[k]
    OBVIOUS
  <2>0. t[k] = IF k < i THEN s[k] ELSE s[k + 1]
    BY DEF Without
  <2> HIDE DEF t, a, c, u
  <2>1. CASE k < i
    BY <1>0, <1>3, <1>5, <2>0, <2>1
  <2>2. CASE ~(k < i)
    <3>1. k - (i - 1) \in 1 .. Len(s) - i /\ i + (k - (i - 1)) = k + 1
      BY <1>0, <2>2
    <3>2. QED
      BY <1>3, <1>5, <2>0, <2>2, <3>1
  <2>3. QED
    BY <2>1, <2>2
<1>7. t = u
  <2> HIDE DEF t, u
  <2>1. QED
    BY <1>2, <1>5, <1>6, SeqEqual
<1>8. QED
  BY <1>2, <1>4, <1>7

\* A node is taken out of any links.
LEMMA RemovedLinks ==
  ASSUME NEW L \in LinksType, NEW n \in Node
  PROVE  LET M == Glue!remove_glthread(L, n)
         IN  /\ M \in LinksType
             /\ \A x \in Linked :
                  /\ M.left[x] = IF x = n THEN Glue!Null
                                 ELSE IF x = L.right[n] THEN L.left[n] ELSE L.left[x]
                  /\ M.right[x] = IF x = n THEN Glue!Null
                                  ELSE IF x = L.left[n] THEN L.right[n] ELSE L.right[x]
<1> DEFINE M == Glue!remove_glthread(L, n)
           l == [x \in Linked |-> IF x = n THEN Glue!Null
                                  ELSE IF x = L.right[n] THEN L.left[n] ELSE L.left[x]]
           r == [x \in Linked |-> IF x = n THEN Glue!Null
                                  ELSE IF x = L.left[n] THEN L.right[n] ELSE L.right[x]]
<1>1. L.left \in [Linked -> Target] /\ L.right \in [Linked -> Target] /\ n \in Linked
  BY DEF LinksType, Linked
<1>2. DOMAIN L.left = Linked /\ DOMAIN L.right = Linked
  BY <1>1
<1>3. M = [left |-> l, right |-> r]
  BY <1>2 DEF Glue!remove_glthread, Glue!Links
<1>4. l \in [Linked -> Target] /\ r \in [Linked -> Target]
  BY <1>1 DEF Target
<1>5. M.left = l /\ M.right = r /\ M \in LinksType
  <2> HIDE DEF l, r, M
  <2>1. QED
    BY <1>3, <1>4 DEF LinksType
<1>6. QED
  BY <1>5

\* Taking out the i-th node leaves the links of the others.
LEMMA RemoveChains ==
  ASSUME NEW L, NEW s, Chained(L, s), NEW i \in 1..Len(s)
  PROVE  Chained(Glue!remove_glthread(L, s[i]), Without(s, i))
<1> DEFINE t == Without(s, i)
           n == s[i]
           prev == Stop(s, i - 1)
           nxt == Stop(s, i + 1)
           M == Glue!remove_glthread(L, n)
<1>0. /\ Distinct(s) /\ Len(s) \in Nat /\ i \in Nat /\ 1 <= i /\ i <= Len(s) /\ s \in Seq(Node)
      /\ L \in LinksType /\ n \in Node /\ n \in Linked /\ n = Stop(s, i)
  BY Stops DEF Chained, Distinct, Linked
<1>1. L.left[n] = prev /\ L.right[n] = nxt
  <2>1. i \in 0..Len(s)
    BY <1>0
  <2>2. QED
    BY <1>0, <2>1 DEF Chained
<1>2. /\ M \in LinksType
      /\ \A x \in Linked :
           /\ M.left[x] = IF x = n THEN Glue!Null ELSE IF x = nxt THEN prev ELSE L.left[x]
           /\ M.right[x] = IF x = n THEN Glue!Null ELSE IF x = prev THEN nxt ELSE L.right[x]
  <2> HIDE DEF n, prev, nxt
  <2>1. QED
    BY <1>0, <1>1, RemovedLinks
<1>3. /\ i - 1 \in 0..Len(s) /\ i \in 0..Len(s) /\ i + 1 \in Nat /\ i - 1 # i
      /\ prev \in Linked /\ prev # Glue!Null /\ prev # n /\ nxt # n
  <2>1. i - 1 \in 0..Len(s) /\ i \in 0..Len(s) /\ i + 1 \in Nat /\ i - 1 # i /\ i + 1 # i
    BY <1>0
  <2>2. prev \in Linked /\ prev # Glue!Null /\ prev # n
    BY <1>0, <2>1, Stops
  <2>3. nxt # n
    <3>1. CASE i + 1 \in 0..Len(s)
      BY <1>0, <2>1, <3>1, Stops
    <3>2. CASE i + 1 \notin 0..Len(s)
      <4>1. i + 1 > Len(s)
        BY <1>0, <2>1, <3>2
      <4>2. QED
        BY <1>0, <2>1, <4>1, Stops, Apart
    <3>3. QED
      BY <3>1, <3>2
  <2>4. QED
    BY <2>1, <2>2, <2>3
<1> HIDE DEF M, n, prev, nxt
<1>4. t \in Seq(Node) /\ Len(t) = Len(s) - 1
  BY <1>0, WithoutIs
<1>5. \A k \in 1 .. Len(s) - 1 : t[k] = IF k < i THEN s[k] ELSE s[k + 1]
  BY DEF Without
<1> HIDE DEF t
<1>6. Distinct(t)
  <2> SUFFICES ASSUME NEW j \in 1..Len(t), NEW k \in 1..Len(t), t[j] = t[k] PROVE j = k
    BY <1>4 DEF Distinct
  <2> DEFINE p(m) == IF m < i THEN m ELSE m + 1
  <2>1. \A m \in 1 .. Len(s) - 1 : p(m) \in 1..Len(s) /\ t[m] = s[p(m)]
    BY <1>0, <1>5
  <2>2. j \in 1 .. Len(s) - 1 /\ k \in 1 .. Len(s) - 1
    BY <1>4
  <2>3. p(j) = p(k)
    <3>1. p(j) \in 1..Len(s) /\ p(k) \in 1..Len(s) /\ s[p(j)] = s[p(k)]
      BY <2>1, <2>2
    <3> HIDE DEF p
    <3>2. QED
      BY <1>0, <3>1 DEF Distinct
  <2>4. QED
    BY <1>0, <2>2, <2>3
<1>7. \A k \in 0..Len(s) : Stop(t, k) = IF k < i THEN Stop(s, k) ELSE Stop(s, k + 1)
  <2> SUFFICES ASSUME NEW k \in 0..Len(s)
               PROVE  Stop(t, k) = IF k < i THEN Stop(s, k) ELSE Stop(s, k + 1)
    OBVIOUS
  <2>1. CASE k = 0
    BY <1>0, <2>1 DEF Stop
  <2>2. CASE k \in 1 .. Len(s) - 1
    <3>1. Stop(t, k) = t[k]
      BY <1>0, <1>4, <2>2 DEF Stop
    <3>2. Stop(s, k) = s[k] /\ Stop(s, k + 1) = s[k + 1]
      BY <1>0, <2>2 DEF Stop
    <3>3. QED
      BY <1>5, <2>2, <3>1, <3>2
  <2>3. CASE k = Len(s)
    BY <1>0, <1>4, <2>3 DEF Stop
  <2>4. QED
    BY <1>0, <2>1, <2>2, <2>3
<1>8. \A k \in 0..Len(t) : M.right[Stop(t, k)] = Stop(t, k + 1)
  <2> SUFFICES ASSUME NEW k \in 0..Len(t) PROVE M.right[Stop(t, k)] = Stop(t, k + 1)
    OBVIOUS
  <2>0. k \in 0..Len(s) /\ k + 1 \in 0..Len(s) /\ k \in Nat
    BY <1>0, <1>4
  <2>1. CASE k < i - 1
    <3>1. Stop(t, k) = Stop(s, k) /\ Stop(t, k + 1) = Stop(s, k + 1)
      BY <1>0, <1>7, <2>0, <2>1
    <3>2. k # i - 1 /\ k # i
      BY <1>0, <2>0, <2>1
    <3>3. Stop(s, k) \in Linked /\ Stop(s, k) # prev /\ Stop(s, k) # n
      BY <1>0, <1>3, <2>0, <3>2, Stops DEF prev
    <3>4. L.right[Stop(s, k)] = Stop(s, k + 1)
      BY <2>0 DEF Chained
    <3>5. QED
      BY <1>2, <3>1, <3>3, <3>4
  <2>2. CASE k = i - 1
    <3>1. Stop(t, k) = prev /\ Stop(t, k + 1) = nxt
      <4>1. k < i /\ k + 1 = i /\ ~(k + 1 < i)
        BY <1>0, <2>0, <2>2
      <4>2. QED
        BY <1>7, <2>0, <2>2, <4>1 DEF prev, nxt
    <3>2. QED
      BY <1>2, <1>3, <3>1
  <2>3. CASE k > i - 1
    <3>1. Stop(t, k) = Stop(s, k + 1) /\ Stop(t, k + 1) = Stop(s, (k + 1) + 1)
      BY <1>0, <1>7, <2>0, <2>3
    <3>2. k + 1 # i - 1 /\ k + 1 # i
      BY <1>0, <2>0, <2>3
    <3>3. Stop(s, k + 1) \in Linked /\ Stop(s, k + 1) # prev /\ Stop(s, k + 1) # n
      BY <1>0, <1>3, <2>0, <3>2, Stops DEF prev
    <3>4. L.right[Stop(s, k + 1)] = Stop(s, (k + 1) + 1)
      BY <2>0 DEF Chained
    <3>5. QED
      BY <1>2, <3>1, <3>3, <3>4
  <2>4. QED
    BY <1>0, <2>0, <2>1, <2>2, <2>3
<1>9. \A k \in 1..Len(t) : M.left[t[k]] = Stop(t, k - 1)
  <2> SUFFICES ASSUME NEW k \in 1..Len(t) PROVE M.left[t[k]] = Stop(t, k - 1)
    OBVIOUS
  <2>0. /\ k \in 1 .. Len(s) - 1 /\ k \in 1..Len(s) /\ k + 1 \in 1..Len(s)
        /\ k \in 0..Len(s) /\ k + 1 \in 0..Len(s) /\ k - 1 \in 0..Len(s)
    BY <1>0, <1>4
  <2>1. CASE k < i
    <3>1. t[k] = s[k] /\ Stop(t, k - 1) = Stop(s, k - 1) /\ k # i /\ k # i + 1
      BY <1>0, <1>5, <1>7, <2>0, <2>1
    <3>2. s[k] \in Linked /\ s[k] = Stop(s, k) /\ s[k] # n
      BY <1>0, <1>3, <2>0, <3>1, Stops
    <3>3. s[k] # nxt
      <4>1. CASE i + 1 \in 0..Len(s)
        BY <1>0, <2>0, <3>1, <3>2, <4>1, Stops DEF nxt
      <4>2. CASE i + 1 \notin 0..Len(s)
        <5>1. i + 1 > Len(s)
          BY <1>0, <4>2
        <5>2. QED
          BY <1>0, <1>3, <2>0, <3>2, <5>1, Stops DEF nxt
      <4>3. QED
        BY <4>1, <4>2
    <3>4. L.left[s[k]] = Stop(s, k - 1)
      BY <2>0 DEF Chained
    <3>5. QED
      BY <1>2, <3>1, <3>2, <3>3, <3>4
  <2>2. CASE k = i
    <3>1. t[k] = nxt /\ Stop(t, k - 1) = prev /\ nxt \in Linked
      <4>1. ~(k < i) /\ k - 1 < i
        BY <1>0, <2>2
      <4>2. t[k] = s[i + 1] /\ Stop(t, k - 1) = prev
        BY <1>5, <1>7, <2>0, <2>2, <4>1 DEF prev
      <4>3. QED
        BY <1>0, <2>0, <2>2, <4>2, Stops DEF nxt
    <3>2. QED
      BY <1>2, <1>3, <3>1
  <2>3. CASE k > i
    <3>1. t[k] = s[k + 1] /\ Stop(t, k - 1) = Stop(s, k)
      <4>1. ~(k < i) /\ ~(k - 1 < i) /\ (k - 1) + 1 = k
        BY <1>0, <2>0, <2>3
      <4>2. QED
        BY <1>5, <1>7, <2>0, <4>1
    <3>2. k + 1 # i /\ k + 1 # i + 1 /\ i + 1 \in 0..Len(s)
      BY <1>0, <2>0, <2>3
    <3>3. /\ s[k + 1] \in Linked /\ s[k + 1] = Stop(s, k + 1)
          /\ s[k + 1] # n /\ s[k + 1] # nxt
      <4>1. s[k + 1] \in Linked /\ s[k + 1] = Stop(s, k + 1)
        BY <1>0, <2>0, Stops
      <4>2. QED
        BY <1>0, <1>3, <2>0, <3>2, <4>1, Stops DEF nxt
    <3>4. L.left[s[k + 1]] = Stop(s, k)
      <4>1. (k + 1) - 1 = k
        BY <2>0
      <4>2. QED
        BY <2>0, <4>1 DEF Chained
    <3>5. QED
      BY <1>2, <3>1, <3>3, <3>4
  <2>4. QED
    BY <1>0, <2>0, <2>1, <2>2, <2>3
<1>10. M.left[Glue!Head_] = Glue!Null
  <2>1. nxt # Glue!Head_ /\ n # Glue!Head_
    <3>1. CASE i + 1 \in 0..Len(s)
      <4>1. i + 1 # 0 /\ 0 \in 0..Len(s) /\ i # 0
        BY <1>0
      <4>2. QED
        BY <1>0, <1>3, <3>1, <4>1, Stops DEF nxt
    <3>2. CASE i + 1 \notin 0..Len(s)
      <4>1. i + 1 > Len(s)
        BY <1>0, <3>2
      <4>2. QED
        BY <1>0, <1>3, <4>1, Stops, Apart DEF nxt
    <3>3. QED
      BY <3>1, <3>2
  <2>2. Glue!Head_ \in Linked /\ L.left[Glue!Head_] = Glue!Null
    BY DEF Linked, Chained
  <2>3. QED
    BY <1>2, <2>1, <2>2
<1>11. ASSUME NEW x \in Node, Outside(x, t)
       PROVE  M.left[x] = Glue!Null /\ M.right[x] = Glue!Null
  <2>0. x \in Linked
    BY DEF Linked
  <2>1. CASE x = n
    BY <1>2, <2>0, <2>1
  <2>2. CASE x # n
    <3>1. \A k \in 1..Len(s) : s[k] # x
      <4> SUFFICES ASSUME NEW k \in 1..Len(s) PROVE s[k] # x
        OBVIOUS
      <4>1. CASE k < i
        <5>1. k \in 1..Len(t) /\ t[k] = s[k]
          BY <1>0, <1>4, <1>5, <4>1
        <5>2. QED
          BY <1>11, <5>1 DEF Outside
      <4>2. CASE k = i
        BY <2>2, <4>2 DEF n
      <4>3. CASE k > i
        <5>1. k - 1 \in 1..Len(t) /\ t[k - 1] = s[k]
          <6>1. k - 1 \in 1 .. Len(s) - 1 /\ ~(k - 1 < i) /\ (k - 1) + 1 = k
            BY <1>0, <4>3
          <6>2. QED
            BY <1>4, <1>5, <6>1
        <5>2. QED
          BY <1>11, <5>1 DEF Outside
      <4>4. QED
        BY <1>0, <4>1, <4>2, <4>3
    <3>2. L.left[x] = Glue!Null /\ L.right[x] = Glue!Null
      BY <3>1 DEF Chained, Outside
    <3>3. x # prev /\ x # nxt
      <4>1. \A k \in Nat : Stop(s, k) # x
        BY <1>0, <3>1, Apart DEF Stop
      <4>2. QED
        BY <1>3, <4>1 DEF prev, nxt
    <3>4. QED
      BY <1>2, <2>0, <2>2, <3>2, <3>3
  <2>3. QED
    BY <2>1, <2>2
<1>12. QED
  BY <1>2, <1>6, <1>8, <1>9, <1>10, <1>11 DEF Chained, M, n, t

\* Taking out what is not in leaves the links as they are.
LEMMA RemoveNothing ==
  ASSUME NEW L, NEW s, Chained(L, s), NEW n, Outside(n, s)
  PROVE  Glue!remove_glthread(L, n) = L
<1> DEFINE M == Glue!remove_glthread(L, n)
<1>0. L \in LinksType /\ n \in Node /\ L.left[n] = Glue!Null /\ L.right[n] = Glue!Null
  BY DEF Chained, Outside
<1>1. Glue!Null \notin Linked
  BY Apart DEF Linked
<1>2. M \in LinksType /\ \A x \in Linked : M.left[x] = L.left[x] /\ M.right[x] = L.right[x]
  BY <1>0, <1>1, RemovedLinks
<1> HIDE DEF M
<1>3. M.left = L.left /\ M.right = L.right
  BY <1>0, <1>2 DEF LinksType
<1>4. M = L
  BY <1>0, <1>2, <1>3 DEF LinksType
<1>5. QED
  BY <1>4 DEF M

\* Putting in before a node is putting in behind the one before it.
LEMMA AddBeforeIsAddNext ==
  ASSUME NEW L, NEW s, Chained(L, s), NEW i \in 1..Len(s), NEW n, Outside(n, s)
  PROVE  Glue!glthread_add_before(L, s[i], n) = Glue!glthread_add_next(L, Stop(s, i - 1), n)
<1> DEFINE prev == Stop(s, i - 1)
<1>0. Distinct(s) /\ Len(s) \in Nat /\ i \in Nat /\ i - 1 \in 0..Len(s) /\ (i - 1) + 1 = i
      /\ i \in 0..Len(s)
  BY Stops DEF Chained
<1>1. L.left[s[i]] = prev /\ prev # Glue!Null
  BY <1>0, Stops DEF Chained
<1>2. L.right[prev] = s[i] /\ s[i] # Glue!Null
  <2>1. L.right[prev] = Stop(s, i)
    BY <1>0 DEF Chained
  <2>2. Stop(s, i) = s[i] /\ Stop(s, i) # Glue!Null
    BY <1>0, Stops
  <2>3. QED
    BY <2>1, <2>2
<1> HIDE DEF prev
<1>3. /\ L.left \in [Linked -> Target] /\ L.right \in [Linked -> Target]
  BY DEF Chained, LinksType
<1>4. Glue!glthread_add_before(L, s[i], n)
        = Glue!Links([L.left EXCEPT ![n] = prev, ![s[i]] = n],
                     [L.right EXCEPT ![prev] = n, ![n] = s[i]])
  BY <1>1 DEF Glue!glthread_add_before
<1>5. Glue!glthread_add_next(L, prev, n)
        = Glue!Links([L.left EXCEPT ![n] = prev, ![s[i]] = n],
                     [L.right EXCEPT ![prev] = n, ![n] = s[i]])
  BY <1>2 DEF Glue!glthread_add_next
<1>6. QED
  BY <1>4, <1>5 DEF prev

\* A set of places has a first one.
LEMMA FirstOf ==
  ASSUME NEW S \in SUBSET Nat, S # {}
  PROVE  /\ Glue!Min(S) \in S /\ \A j \in S : Glue!Min(S) <= j
         /\ Glue!List!Min(S) = Glue!Min(S)
<1>1. \E i \in S : \A j \in S : i <= j
  BY LeastOf
<1>2. Glue!Min(S) = CHOOSE i \in S : \A j \in S : i <= j
  BY DEF Glue!Min
<1>3. Glue!List!Min(S) = CHOOSE i \in S : \A j \in S : i <= j
  BY DEF Glue!List!Min
<1>4. QED
  BY <1>1, <1>2, <1>3

\* The place that is found for a node of some priority.
Urgent(s, n) ==
  LET later == {i \in 1..Len(s) : Key[n] < Key[s[i]]}
  IN (IF later = {} THEN Len(s) + 1 ELSE Glue!Min(later)) - 1

LEMMA PriorityInsertIsAddNext ==
  ASSUME NEW L, NEW s, Chained(L, s), NEW n, Outside(n, s)
  PROVE  /\ Urgent(s, n) \in 0..Len(s)
         /\ Glue!glthread_priority_insert(L, n)
              = Glue!glthread_add_next(L, Stop(s, Urgent(s, n)), n)
<1> DEFINE later == {i \in 1..Len(s) : Key[n] < Key[s[i]]}
           i == Urgent(s, n)
           cleared == Glue!Links([L.left EXCEPT ![n] = Glue!Null],
                                 [L.right EXCEPT ![n] = Glue!Null])
<1>0. Distinct(s) /\ Len(s) \in Nat /\ L \in LinksType /\ n \in Node
  BY Stops DEF Chained, Outside
<1>1. i \in 0..Len(s)
  <2>1. CASE later = {}
    BY <1>0, <2>1 DEF Urgent
  <2>2. CASE later # {}
    <3>1. later \in SUBSET Nat
      BY <1>0
    <3> HIDE DEF later
    <3>2. Glue!Min(later) \in later
      BY <2>2, <3>1, FirstOf
    <3>3. i = Glue!Min(later) - 1
      BY <2>2 DEF Urgent, later
    <3>4. Glue!Min(later) \in 1..Len(s)
      BY <3>2 DEF later
    <3> HIDE DEF i
    <3>5. QED
      BY <1>0, <3>3, <3>4
  <2>3. QED
    BY <2>1, <2>2
<1>2. cleared = L
  <2>1. L.left[n] = Glue!Null /\ L.right[n] = Glue!Null
    BY <1>0 DEF Chained
  <2>2. L.left \in [Linked -> Target] /\ L.right \in [Linked -> Target]
        /\ L = [left |-> L.left, right |-> L.right]
    BY <1>0 DEF LinksType
  <2>3. [L.left EXCEPT ![n] = Glue!Null] = L.left /\ [L.right EXCEPT ![n] = Glue!Null] = L.right
    BY <2>1, <2>2
  <2>4. QED
    BY <2>2, <2>3 DEF Glue!Links
<1>3. Glue!Visited(L) = s
  BY VisitedIs
<1>4. DOMAIN s = 1..Len(s)
  BY <1>0 DEF Distinct
<1>5. Glue!glthread_priority_insert(L, n)
        = Glue!glthread_add_next(L, IF i = 0 THEN Glue!Head_ ELSE s[i], n)
  <2> HIDE DEF cleared
  <2>1. Glue!glthread_priority_insert(L, n)
          = LET nodes == Glue!Visited(cleared)
                greater == {k \in DOMAIN nodes : Key[n] < Key[nodes[k]]}
                before == (IF greater = {} THEN Len(nodes) + 1 ELSE Glue!Min(greater)) - 1
            IN Glue!glthread_add_next(cleared, IF before = 0 THEN Glue!Head_ ELSE nodes[before], n)
    BY DEF Glue!glthread_priority_insert, cleared
  <2>2. QED
    BY <1>2, <1>3, <1>4, <2>1 DEF Urgent
<1>6. Stop(s, i) = IF i = 0 THEN Glue!Head_ ELSE s[i]
  <2> HIDE DEF i
  <2>1. QED
    BY <1>0, <1>1 DEF Stop
<1>7. QED
  BY <1>1, <1>5, <1>6

\* Removing the nodes one after the other.
Deleting(f, L, s) ==
  f = [i \in 0..Len(s) |-> IF i = 0 THEN L ELSE Glue!remove_glthread(f[i - 1], s[i])]

\* Deleting the list leaves none.
LEMMA DeleteChains ==
  ASSUME NEW L, NEW s, Chained(L, s)
  PROVE  Chained(Glue!delete_glthread_list(L), <<>>)
<1> DEFINE f == CHOOSE f : Deleting(f, L, s)
<1>0. Distinct(s) /\ s \in Seq(Node) /\ Len(s) \in Nat /\ L \in LinksType
  BY Stops DEF Chained, Distinct
<1>1. Glue!delete_glthread_list(L) = f[Len(s)]
  <2>1. Glue!Visited(L) = s
    BY VisitedIs
  <2>2. QED
    BY <2>1 DEF Glue!delete_glthread_list, Deleting
<1>2. Deleting(f, L, s)
  <2> DEFINE step == [i \in 1..Len(s) |-> [K \in LinksType |-> Glue!remove_glthread(K, s[i])]]
  <2>1. step \in [1..Len(s) -> [LinksType -> LinksType]]
    <3>1. \A i \in 1..Len(s), K \in LinksType : Glue!remove_glthread(K, s[i]) \in LinksType
      BY <1>0, RemovedLinks
    <3>2. QED
      BY <3>1
  <2>2. PICK g \in [0..Len(s) -> LinksType] : Iterates(g, Len(s), L, step)
    <3> HIDE DEF step
    <3>1. QED
      BY <1>0, <2>1, Iterated
  <2>3. \A i \in 0..Len(s) : i # 0 => step[i][g[i - 1]] = Glue!remove_glthread(g[i - 1], s[i])
    <3>1. \A i \in 0..Len(s) : i # 0 => i \in 1..Len(s) /\ i - 1 \in 0..Len(s)
      BY <1>0
    <3>2. QED
      BY <3>1
  <2>4. Deleting(g, L, s)
    <3> HIDE DEF step
    <3>1. \A i \in 0..Len(s) : g[i] = IF i = 0 THEN L ELSE Glue!remove_glthread(g[i - 1], s[i])
      BY <2>2, <2>3 DEF Iterates
    <3>2. g = [i \in 0..Len(s) |-> g[i]]
      BY <2>2
    <3>3. QED
      BY <3>1, <3>2 DEF Deleting
  <2>5. QED
    BY <2>4
<1> HIDE DEF f
<1>3. f[0] = L /\ \A i \in 0..Len(s) : i # 0 => f[i] = Glue!remove_glthread(f[i - 1], s[i])
  <2>1. 0 \in 0..Len(s)
    BY <1>0
  <2>2. QED
    BY <1>2, <2>1 DEF Deleting
<1> DEFINE Rest(i) == [k \in 1 .. Len(s) - i |-> s[i + k]]
           Good == {i \in Nat : i <= Len(s) => Chained(f[i], Rest(i))}
<1>4. 0 \in Good
  <2>1. s = Rest(0)
    <3>1. s = [k \in 1..Len(s) |-> s[k]] /\ Len(s) - 0 = Len(s) /\ \A k \in 1..Len(s) : 0 + k = k
      BY <1>0
    <3>2. QED
      BY <3>1
  <2> HIDE DEF Rest
  <2>2. QED
    BY <1>3, <2>1
<1>5. ASSUME NEW i \in Nat, i \in Good PROVE i + 1 \in Good
  <2> SUFFICES ASSUME i + 1 <= Len(s) PROVE Chained(f[i + 1], Rest(i + 1))
    OBVIOUS
  <2> DEFINE r == Rest(i)
  <2>1. Chained(f[i], r)
    BY <1>0, <1>5
  <2>2. Len(s) - i \in Nat /\ Len(s) - i >= 1 /\ r \in [1 .. Len(s) - i -> Node]
    BY <1>0
  <2>3. Len(r) = Len(s) - i
    <3> HIDE DEF r
    <3>1. QED
      BY <2>2, FunctionIsSeq
  <2>4. r[1] = s[i + 1]
    BY <2>2
  <2>5. Without(r, 1) = Rest(i + 1)
    <3>1. Without(r, 1) = [k \in 1 .. Len(s) - i - 1 |-> IF k < 1 THEN r[k] ELSE r[k + 1]]
      BY <2>3 DEF Without
    <3>2. \A k \in 1 .. Len(s) - i - 1 : ~(k < 1) /\ r[k + 1] = s[(i + 1) + k]
      <4>1. \A k \in 1 .. Len(s) - i - 1 : ~(k < 1) /\ k + 1 \in 1 .. Len(s) - i
                                           /\ i + (k + 1) = (i + 1) + k
        BY <1>0
      <4>2. QED
        BY <4>1
    <3>3. Len(s) - i - 1 = Len(s) - (i + 1)
      BY <1>0
    <3> HIDE DEF r
    <3>4. QED
      BY <3>1, <3>2, <3>3
  <2>6. f[i + 1] = Glue!remove_glthread(f[i], s[i + 1])
    <3>1. i + 1 \in 0..Len(s) /\ i + 1 # 0 /\ (i + 1) - 1 = i
      BY <1>0
    <3>2. QED
      BY <1>3, <3>1
  <2> HIDE DEF r, Rest
  <2>7. 1 \in 1..Len(r)
    BY <2>2, <2>3
  <2>8. QED
    BY <2>1, <2>4, <2>5, <2>6, <2>7, RemoveChains
<1>6. Len(s) \in Good
  <2> HIDE DEF Good
  <2>1. QED
    BY <1>0, <1>4, <1>5, Climb
<1>7. Rest(Len(s)) = <<>>
  <2>1. Len(s) - Len(s) = 0
    BY <1>0
  <2>2. 1..0 = {}
    OBVIOUS
  <2>3. QED
    BY <2>1, <2>2
<1> HIDE DEF Rest
<1>8. QED
  BY <1>0, <1>1, <1>6, <1>7

-----------------------------------------------------------------------------
\* The links are those of some sequence.
GlueInv == \E s : Chained(Glue!links, s)

\* A step of the links is one of the list.
ListStepOK == GlueInv' /\ [Glue!List!Next]_<<Glue!Visited(Glue!links), visited>>

\* What the list is, and where its nodes are.
LEMMA ListIs ==
  ASSUME NEW s, Chained(Glue!links, s)
  PROVE  /\ Glue!Visited(Glue!links) = s /\ s \in Seq(Node) /\ Len(s) \in Nat
         /\ Glue!Members = {s[i] : i \in 1..Len(s)}
         /\ Glue!List!Range(s) = {s[i] : i \in 1..Len(s)}
         /\ \A n \in Node : Glue!List!In(n) <=> ~Outside(n, s)
         /\ \A i \in 1..Len(s) : Glue!List!Place(s[i]) = i
<1>1. Glue!Visited(Glue!links) = s
  BY VisitedIs
<1>2. Distinct(s) /\ s \in Seq(Node) /\ Len(s) \in Nat /\ DOMAIN s = 1..Len(s)
  BY DEF Chained, Distinct
<1>3. Glue!Members = {s[i] : i \in 1..Len(s)}
  BY <1>1, <1>2 DEF Glue!Members, Glue!Range
<1>4. Glue!List!Range(s) = {s[i] : i \in 1..Len(s)}
  BY <1>2 DEF Glue!List!Range
<1>5. \A n \in Node : Glue!List!In(n) <=> ~Outside(n, s)
  BY <1>1, <1>4 DEF Glue!List!In, Outside
<1>6. ASSUME NEW i \in 1..Len(s) PROVE Glue!List!Place(s[i]) = i
  <2>1. Glue!List!Place(s[i]) = CHOOSE k \in 1..Len(s) : s[k] = s[i]
    BY <1>1, <1>2 DEF Glue!List!Place
  <2>2. \A k \in 1..Len(s) : s[k] = s[i] => k = i
    BY <1>2 DEF Distinct
  <2>3. QED
    BY <2>1, <2>2
<1>7. QED
  BY <1>1, <1>2, <1>3, <1>4, <1>5, <1>6

\* What the list becomes with links of a sequence.
LEMMA Arrives ==
  ASSUME NEW L, NEW t, Chained(L, t), Glue!Becomes(L)
  PROVE  GlueInv' /\ Glue!Visited(Glue!links)' = t
<1>1. Glue!links' = L
  BY DEF Glue!links, Glue!Links, Glue!Becomes, Chained, LinksType
<1>2. Chained(Glue!links, t)'
  BY <1>1
<1>3. Glue!Visited(L) = t
  BY VisitedIs
<1>4. QED
  BY <1>1, <1>2, <1>3 DEF GlueInv

\* What leaves the links alone leaves the list.
LEMMA Stays ==
  ASSUME GlueInv, UNCHANGED <<left, right>>
  PROVE  GlueInv' /\ Glue!Visited(Glue!links)' = Glue!Visited(Glue!links)
<1>1. Glue!links' = Glue!links
  BY DEF Glue!links, Glue!Links
<1>2. QED
  BY <1>1 DEF GlueInv

\* A node is put in behind a stop.
LEMMA PutStep ==
  ASSUME NEW s, Chained(Glue!links, s), NEW i \in 0..Len(s), NEW n, Outside(n, s),
         Glue!Becomes(Glue!glthread_add_next(Glue!links, Stop(s, i), n)), visited' = visited
  PROVE  GlueInv' /\ Glue!List!Put(n, i + 1)
<1>1. n \in Node /\ ~Glue!List!In(n) /\ Glue!Visited(Glue!links) = s /\ s \in Seq(Node)
  BY ListIs DEF Outside
<1>2. GlueInv' /\ Glue!Visited(Glue!links)' = PutIn(s, i, n)
  BY AddNextChains, Arrives
<1>3. Glue!List!InsertAt(s, i + 1, n) = PutIn(s, i, n)
  BY <1>1, PutInIs
<1>4. QED
  BY <1>1, <1>2, <1>3 DEF Glue!List!Put

LEMMA AddNextStep ==
  ASSUME NEW s, Chained(Glue!links, s), Glue!AddNext
  PROVE  ListStepOK
<1>1. PICK curr \in Glue!Members \cup {Glue!Head_}, n \in Node \ Glue!Members :
        Glue!Becomes(Glue!glthread_add_next(Glue!links, curr, n)) /\ visited' = visited
  BY DEF Glue!AddNext
<1>2. Outside(n, s) /\ Glue!Visited(Glue!links) = s /\ Distinct(s) /\ Len(s) \in Nat
  BY ListIs DEF Outside, Chained
<1>3. CASE curr = Glue!Head_
  <2>1. 0 \in 0..Len(s) /\ curr = Stop(s, 0) /\ 0 + 1 = 1
    BY <1>2, <1>3, Stops
  <2>2. GlueInv' /\ Glue!List!Put(n, 1)
    BY <1>1, <1>2, <2>1, PutStep
  <2>3. QED
    BY <2>2 DEF ListStepOK, Glue!List!Next
<1>4. CASE curr \in Glue!Members
  <2>1. PICK i \in 1..Len(s) : curr = s[i]
    BY <1>4, ListIs
  <2>2. i \in 0..Len(s) /\ curr = Stop(s, i) /\ Glue!List!Place(curr) = i
    BY <1>2, <2>1, Stops, ListIs
  <2>3. GlueInv' /\ Glue!List!Put(n, Glue!List!Place(curr) + 1)
    BY <1>1, <1>2, <2>2, PutStep
  <2>4. curr \in Glue!List!Range(Glue!Visited(Glue!links))
    BY <1>2, <2>1, ListIs
  <2>5. QED
    BY <2>3, <2>4 DEF ListStepOK, Glue!List!Next
<1>5. QED
  BY <1>3, <1>4

LEMMA AddBeforeStep ==
  ASSUME NEW s, Chained(Glue!links, s), Glue!AddBefore
  PROVE  ListStepOK
<1>1. PICK curr \in Glue!Members, n \in Node \ Glue!Members :
        Glue!Becomes(Glue!glthread_add_before(Glue!links, curr, n)) /\ visited' = visited
  BY DEF Glue!AddBefore
<1>2. Outside(n, s) /\ Glue!Visited(Glue!links) = s /\ Len(s) \in Nat
  BY ListIs DEF Outside
<1>3. PICK i \in 1..Len(s) : curr = s[i]
  BY ListIs
<1>4. i - 1 \in 0..Len(s) /\ (i - 1) + 1 = i /\ Glue!List!Place(curr) = i
  BY <1>2, <1>3, ListIs
<1>5. Glue!Becomes(Glue!glthread_add_next(Glue!links, Stop(s, i - 1), n))
  BY <1>1, <1>2, <1>3, AddBeforeIsAddNext
<1>6. GlueInv' /\ Glue!List!Put(n, Glue!List!Place(curr))
  BY <1>1, <1>2, <1>4, <1>5, PutStep
<1>7. curr \in Glue!List!Range(Glue!Visited(Glue!links))
  BY <1>2, <1>3, ListIs
<1>8. QED
  BY <1>6, <1>7 DEF ListStepOK, Glue!List!Next

LEMMA AddLastStep ==
  ASSUME NEW s, Chained(Glue!links, s), Glue!AddLast
  PROVE  ListStepOK
<1>1. PICK n \in Node \ Glue!Members :
        Glue!Becomes(Glue!glthread_add_last(Glue!links, n)) /\ visited' = visited
  BY DEF Glue!AddLast
<1>2. Outside(n, s) /\ Glue!Visited(Glue!links) = s /\ Len(s) \in Nat /\ Distinct(s)
      /\ s \in Seq(Node)
  BY ListIs DEF Outside, Chained
<1>3. (IF s = <<>> THEN Glue!Head_ ELSE Glue!Last(s)) = Stop(s, Len(s))
  <2>1. CASE s = <<>>
    BY <2>1 DEF Stop
  <2>2. CASE s # <<>>
    <3>1. Len(s) # 0
      BY <1>2, <2>2
    <3>2. QED
      BY <1>2, <2>2, <3>1 DEF Stop, Glue!Last
  <2>3. QED
    BY <2>1, <2>2
<1>4. Glue!Becomes(Glue!glthread_add_next(Glue!links, Stop(s, Len(s)), n))
  BY <1>1, <1>2, <1>3 DEF Glue!glthread_add_last
<1>5. GlueInv' /\ Glue!List!Put(n, Len(s) + 1)
  <2>1. Len(s) \in 0..Len(s)
    BY <1>2
  <2>2. QED
    BY <1>1, <1>2, <1>4, <2>1, PutStep
<1>6. QED
  BY <1>2, <1>5 DEF ListStepOK, Glue!List!Next

LEMMA PriorityInsertStep ==
  ASSUME NEW s, Chained(Glue!links, s), Glue!PriorityInsert
  PROVE  ListStepOK
<1>1. PICK n \in Node \ Glue!Members :
        Glue!Becomes(Glue!glthread_priority_insert(Glue!links, n)) /\ visited' = visited
  BY DEF Glue!PriorityInsert
<1>2. Outside(n, s) /\ Glue!Visited(Glue!links) = s /\ Len(s) \in Nat /\ DOMAIN s = 1..Len(s)
  BY ListIs DEF Outside
<1> DEFINE later == {i \in 1..Len(s) : Key[n] < Key[s[i]]}
           i == Urgent(s, n)
<1>3. i \in 0..Len(s) /\ Glue!Becomes(Glue!glthread_add_next(Glue!links, Stop(s, i), n))
  BY <1>1, <1>2, PriorityInsertIsAddNext
<1>4. i + 1 = IF later = {} THEN Len(s) + 1 ELSE Glue!List!Min(later)
  <2>1. CASE later = {}
    BY <1>2, <2>1 DEF Urgent
  <2>2. CASE later # {}
    <3>1. later \in SUBSET Nat
      BY <1>2
    <3> HIDE DEF later
    <3>2. Glue!Min(later) \in Nat /\ Glue!List!Min(later) = Glue!Min(later)
      BY <2>2, <3>1, FirstOf
    <3>3. i = Glue!Min(later) - 1
      BY <2>2 DEF Urgent, later
    <3>4. QED
      BY <2>2, <3>2, <3>3
  <2>3. QED
    BY <2>1, <2>2
<1> HIDE DEF i
<1>5. GlueInv' /\ Glue!List!Put(n, i + 1)
  BY <1>1, <1>2, <1>3, PutStep
<1>6. Glue!List!PutByPriority(n)
  BY <1>2, <1>4, <1>5 DEF Glue!List!PutByPriority
<1>7. QED
  BY <1>5, <1>6 DEF ListStepOK, Glue!List!Next

LEMMA RemoveStep ==
  ASSUME NEW s, Chained(Glue!links, s), Glue!RemoveOne
  PROVE  ListStepOK
<1>1. PICK n \in Node :
        Glue!Becomes(Glue!remove_glthread(Glue!links, n)) /\ visited' = visited
  BY DEF Glue!RemoveOne
<1>2. Glue!Visited(Glue!links) = s /\ s \in Seq(Node)
  BY ListIs
<1>3. CASE Outside(n, s)
  <2>1. Glue!Becomes(Glue!links)
    BY <1>1, <1>3, RemoveNothing
  <2>2. GlueInv' /\ Glue!Visited(Glue!links)' = s
    BY <2>1, Arrives
  <2>3. ~Glue!List!In(n)
    BY <1>3, ListIs
  <2>4. Glue!List!TakeOut(n)
    BY <1>1, <1>2, <2>2, <2>3 DEF Glue!List!TakeOut
  <2>5. QED
    BY <2>2, <2>4 DEF ListStepOK, Glue!List!Next
<1>4. CASE ~Outside(n, s)
  <2>1. PICK i \in 1..Len(s) : n = s[i]
    BY <1>4 DEF Outside
  <2>2. GlueInv' /\ Glue!Visited(Glue!links)' = Without(s, i)
    BY <1>1, <2>1, RemoveChains, Arrives
  <2>3. Glue!List!In(n) /\ Glue!List!Place(n) = i
    BY <1>4, <2>1, ListIs
  <2>4. Glue!List!RemoveAt(s, i) = Without(s, i)
    BY <1>2, WithoutIs
  <2>5. Glue!List!TakeOut(n)
    BY <1>1, <1>2, <2>2, <2>3, <2>4 DEF Glue!List!TakeOut
  <2>6. QED
    BY <2>2, <2>5 DEF ListStepOK, Glue!List!Next
<1>5. QED
  BY <1>3, <1>4

LEMMA DequeueStep ==
  ASSUME NEW s, Chained(Glue!links, s), Glue!dequeue_glthread_first
  PROVE  ListStepOK
<1>1. /\ Glue!Visited(Glue!links) = s /\ s \in Seq(Node) /\ Len(s) \in Nat /\ Distinct(s)
      /\ 0 \in 0..Len(s) /\ GlueInv
  BY ListIs DEF Chained, GlueInv
<1>2. right[Glue!Head_] = Stop(s, 1)
  <2>1. Glue!links.right[Stop(s, 0)] = Stop(s, 0 + 1)
    BY <1>1 DEF Chained
  <2>2. QED
    BY <1>1, <2>1, Stops DEF Glue!links, Glue!Links
<1>3. CASE Len(s) = 0
  <2>1. right[Glue!Head_] = Glue!Null /\ s = <<>>
    BY <1>1, <1>2, <1>3 DEF Stop
  <2>2. visited' = <<>> /\ UNCHANGED <<left, right>>
    BY <2>1 DEF Glue!dequeue_glthread_first
  <2>3. GlueInv' /\ Glue!Visited(Glue!links)' = s
    BY <1>1, <2>2, Stays
  <2>4. Glue!List!TakeFirst
    BY <1>1, <2>1, <2>2, <2>3 DEF Glue!List!TakeFirst
  <2>5. QED
    BY <2>3, <2>4 DEF ListStepOK, Glue!List!Next
<1>4. CASE Len(s) # 0
  <2>1. /\ 1 \in 1..Len(s) /\ right[Glue!Head_] = s[1] /\ s[1] # Glue!Null
    <3>1. 1 \in 1..Len(s) /\ 1 \in 0..Len(s)
      BY <1>1, <1>4
    <3>2. QED
      BY <1>1, <1>2, <3>1, Stops
  <2>2. visited' = <<s[1]>> /\ Glue!Becomes(Glue!remove_glthread(Glue!links, s[1]))
    BY <2>1 DEF Glue!dequeue_glthread_first
  <2>3. GlueInv' /\ Glue!Visited(Glue!links)' = Without(s, 1)
    BY <2>1, <2>2, RemoveChains, Arrives
  <2>4. Without(s, 1) = SubSeq(s, 2, Len(s))
    <3>1. Glue!List!RemoveAt(s, 1) = Without(s, 1)
      BY <1>1, <2>1, WithoutIs
    <3>2. SubSeq(s, 1, 0) = <<>> /\ SubSeq(s, 2, Len(s)) \in Seq(Node)
      BY <1>1, <1>4
    <3>3. <<>> \o SubSeq(s, 2, Len(s)) = SubSeq(s, 2, Len(s))
      BY <3>2
    <3>4. QED
      BY <3>1, <3>2, <3>3 DEF Glue!List!RemoveAt
  <2>5. s # <<>> /\ Head(s) = s[1] /\ Tail(s) = SubSeq(s, 2, Len(s))
    BY <1>1, <1>4
  <2>6. Glue!List!TakeFirst
    BY <1>1, <2>2, <2>3, <2>4, <2>5 DEF Glue!List!TakeFirst
  <2>7. QED
    BY <2>3, <2>6 DEF ListStepOK, Glue!List!Next
<1>5. QED
  BY <1>3, <1>4

LEMMA DeleteStep ==
  ASSUME NEW s, Chained(Glue!links, s), Glue!DeleteList
  PROVE  ListStepOK
<1>1. Glue!Becomes(Glue!delete_glthread_list(Glue!links)) /\ visited' = visited
  BY DEF Glue!DeleteList
<1>2. GlueInv' /\ Glue!Visited(Glue!links)' = <<>>
  BY <1>1, DeleteChains, Arrives
<1>3. QED
  BY <1>1, <1>2 DEF ListStepOK, Glue!List!Next, Glue!List!TakeAll

LEMMA VisitStep ==
  ASSUME NEW s, Chained(Glue!links, s), Glue!get_glthread_list_count
  PROVE  ListStepOK
<1>1. visited' = Glue!Visited(Glue!links) /\ UNCHANGED <<left, right>> /\ GlueInv
  BY DEF Glue!get_glthread_list_count, GlueInv
<1>2. GlueInv' /\ Glue!Visited(Glue!links)' = Glue!Visited(Glue!links)
  BY <1>1, Stays
<1>3. QED
  BY <1>1, <1>2 DEF ListStepOK, Glue!List!Next, Glue!List!Visit

LEMMA AskStep ==
  ASSUME NEW s, Chained(Glue!links, s), Glue!IS_QUEUED_UP_IN_THREAD
  PROVE  ListStepOK
<1>1. PICK n \in Node :
        /\ visited' = IF left[n] = Glue!Null /\ right[n] = Glue!Null THEN <<>> ELSE <<n>>
        /\ UNCHANGED <<left, right>>
  BY DEF Glue!IS_QUEUED_UP_IN_THREAD
<1>2. GlueInv' /\ Glue!Visited(Glue!links)' = Glue!Visited(Glue!links)
  BY <1>1, Stays DEF GlueInv
<1>3. Glue!links.left = left /\ Glue!links.right = right
  BY DEF Glue!links, Glue!Links
<1>4. Outside(n, s) <=> left[n] = Glue!Null /\ right[n] = Glue!Null
  <2>1. ASSUME Outside(n, s) PROVE left[n] = Glue!Null /\ right[n] = Glue!Null
    BY <1>3, <2>1 DEF Chained
  <2>2. ASSUME ~Outside(n, s) PROVE left[n] # Glue!Null
    <3>1. PICK i \in 1..Len(s) : n = s[i]
      BY <2>2 DEF Outside
    <3>2. left[n] = Stop(s, i - 1)
      BY <1>3, <3>1 DEF Chained
    <3>3. Distinct(s) /\ Len(s) \in Nat /\ i - 1 \in 0..Len(s)
      BY ListIs DEF Chained
    <3>4. QED
      BY <3>2, <3>3, Stops
  <2>3. QED
    BY <2>1, <2>2
<1>5. Glue!List!In(n) <=> ~Outside(n, s)
  BY ListIs
<1>6. Glue!List!AskFor(n)
  BY <1>1, <1>2, <1>4, <1>5 DEF Glue!List!AskFor
<1>7. QED
  BY <1>2, <1>6 DEF ListStepOK, Glue!List!Next

\* Every function on the links does to the list what it promises.
LEMMA GlueNext ==
  ASSUME GlueInv, [StructuresNext]_<<vars, glue, ser, str>>
  PROVE  ListStepOK
<1>0. PICK s : Chained(Glue!links, s)
  BY DEF GlueInv
<1>1. CASE Glue!Next
  BY <1>0, <1>1, AddNextStep, AddBeforeStep, AddLastStep, PriorityInsertStep, RemoveStep,
     DequeueStep, DeleteStep, VisitStep, AskStep DEF Glue!Next
<1>2. CASE UNCHANGED glue
  <2>1. UNCHANGED <<left, right>> /\ visited' = visited
    BY <1>2 DEF glue
  <2>2. GlueInv' /\ Glue!Visited(Glue!links)' = Glue!Visited(Glue!links)
    BY <2>1, Stays
  <2>3. QED
    BY <2>1, <2>2 DEF ListStepOK
<1>3. QED
  BY <1>1, <1>2 DEF StructuresNext, RingStep, ListStep, BufferStep, StringStep

\* At first no node is in.
LEMMA InitGlue == Glue!Init => GlueInv /\ Glue!List!Init
<1> SUFFICES ASSUME Glue!Init PROVE GlueInv /\ Glue!List!Init
  OBVIOUS
<1>1. /\ left = [n \in Linked |-> Glue!Null] /\ right = left /\ visited = <<>>
  BY DEF Glue!Init, Linked
<1>2. Glue!links.left = left /\ Glue!links.right = right /\ Glue!links \in LinksType
  BY <1>1 DEF Glue!links, Glue!Links, LinksType, Target
<1>3. Glue!Head_ \in Linked /\ Node \subseteq Linked
  BY DEF Linked
<1>4. Distinct(<<>>) /\ Len(<<>>) = 0
  BY DEF Distinct
<1>5. Stop(<<>>, 0) = Glue!Head_ /\ Stop(<<>>, 1) = Glue!Null
  BY <1>4 DEF Stop
<1>6. Chained(Glue!links, <<>>)
  <2>1. \A i \in 0..0 : Glue!links.right[Stop(<<>>, i)] = Stop(<<>>, i + 1)
    <3>1. \A i \in 0..0 : i = 0 /\ i + 1 = 1
      OBVIOUS
    <3>2. QED
      BY <1>1, <1>2, <1>3, <1>5, <3>1
  <2>2. \A i \in 1..0 : FALSE
    OBVIOUS
  <2>3. \A n \in Linked : Glue!links.left[n] = Glue!Null /\ Glue!links.right[n] = Glue!Null
    BY <1>1, <1>2
  <2>4. QED
    BY <1>2, <1>3, <1>4, <2>1, <2>2, <2>3 DEF Chained
<1>7. Glue!Visited(Glue!links) = <<>>
  BY <1>6, VisitedIs
<1>8. QED
  BY <1>1, <1>6, <1>7 DEF GlueInv, Glue!List!Init

\* The links of glthread.c, for any finite set of nodes and any priorities, are a list: in
\* whatever order nodes are put in, taken out, visited, asked for and put in again.
THEOREM LinksAreAList == StructuresSpec => ListSpec
<1>1. StructuresInit => GlueInv /\ Glue!List!Init
  BY InitGlue DEF StructuresInit
<1>2. GlueInv /\ [StructuresNext]_<<vars, glue, ser, str>>
        => GlueInv' /\ [Glue!List!Next]_<<Glue!Visited(Glue!links), visited>>
  BY GlueNext DEF ListStepOK
<1>3. QED
  BY <1>1, <1>2, PTL DEF StructuresSpec, ListSpec, Glue!ListSpec, Glue!List!Spec

-----------------------------------------------------------------------------
(***************************************************************************)
(* The serialisation buffer.                                               *)
(***************************************************************************)
\* size doubled k times.
Doubling(f, n) == f = [k \in 0..n |-> IF k = 0 THEN size ELSE 2 * f[k - 1]]

\* The memory grows to a size that is large enough and never smaller than it was.
LEMMA GrownIsEnough ==
  ASSUME size \in Nat, NEW n \in Nat, ~Ser!Hangs(n)
  PROVE  Ser!Grown(n) \in Nat /\ Ser!Grown(n) >= n /\ Ser!Grown(n) >= size
                              /\ (n <= size => Ser!Grown(n) = size)
<1> DEFINE f == CHOOSE f : Doubling(f, n)
           k == CHOOSE k \in 0..n : f[k] >= n /\ \A j \in 0 .. k - 1 : f[j] < n
<1>1. Ser!Grown(n) = f[k]
  BY DEF Ser!Grown, Doubling
<1>2. Doubling(f, n)
  <2> DEFINE step == [i \in 1..n |-> [x \in Nat |-> 2 * x]]
  <2>1. step \in [1..n -> [Nat -> Nat]]
    OBVIOUS
  <2>2. PICK g \in [0..n -> Nat] : Iterates(g, n, size, step)
    <3> HIDE DEF step
    <3>1. QED
      BY <2>1, Iterated
  <2>3. \A i \in 0..n : i # 0 => step[i][g[i - 1]] = 2 * g[i - 1]
    <3>1. \A i \in 0..n : i # 0 => i \in 1..n /\ i - 1 \in 0..n
      OBVIOUS
    <3>2. QED
      BY <3>1
  <2>4. Doubling(g, n)
    <3> HIDE DEF step
    <3>1. \A i \in 0..n : g[i] = IF i = 0 THEN size ELSE 2 * g[i - 1]
      BY <2>2, <2>3 DEF Iterates
    <3>2. g = [i \in 0..n |-> g[i]]
      BY <2>2
    <3>3. QED
      BY <3>1, <3>2 DEF Doubling
  <2>5. QED
    BY <2>4
<1> HIDE DEF f
<1>3. f[0] = size /\ \A i \in 0..n : i # 0 => f[i] = 2 * f[i - 1]
  BY <1>2 DEF Doubling
<1> DEFINE Good == {i \in Nat : i <= n => /\ f[i] \in Nat /\ f[i] >= size
                                         /\ (size > 0 => f[i] > i)}
<1>4. 0 \in Good
  BY <1>3
<1>5. ASSUME NEW i \in Nat, i \in Good PROVE i + 1 \in Good
  <2>1. i + 1 <= n => f[i + 1] = 2 * f[i]
    <3>1. i + 1 <= n => i + 1 \in 0..n /\ i + 1 # 0 /\ (i + 1) - 1 = i
      OBVIOUS
    <3>2. QED
      BY <1>3, <3>1
  <2>2. QED
    BY <1>5, <2>1
<1>6. \A i \in 0..n : f[i] \in Nat /\ f[i] >= size /\ (size > 0 => f[i] > i)
  <2>1. \A i \in Nat : i \in Good
    <3> HIDE DEF Good
    <3>1. QED
      BY <1>4, <1>5, Climb
  <2>2. QED
    BY <2>1
<1> DEFINE Fits == {i \in 0..n : f[i] >= n}
<1>7. n \in Fits
  BY <1>3, <1>6 DEF Ser!Hangs
<1>8. \E i \in 0..n : f[i] >= n /\ \A j \in 0 .. i - 1 : f[j] < n
  <2>1. PICK i \in Fits : \A j \in Fits : i <= j
    <3>1. Fits \in SUBSET Nat /\ Fits # {}
      BY <1>7
    <3> HIDE DEF Fits
    <3>2. QED
      BY <3>1, LeastOf
  <2>2. \A j \in 0 .. i - 1 : j \in 0..n /\ f[j] \in Nat /\ ~(f[j] >= n)
    BY <1>6, <2>1
  <2>3. QED
    BY <2>1, <2>2
<1>9. k \in 0..n /\ f[k] >= n /\ \A j \in 0 .. k - 1 : f[j] < n
  BY <1>8
<1> HIDE DEF k
<1>10. n <= size => f[k] = size
  <2>1. n <= size /\ k # 0 => 0 \in 0 .. k - 1
    BY <1>9
  <2>2. n <= size => k = 0
    BY <1>3, <1>9, <2>1
  <2>3. QED
    BY <1>3, <2>2
<1>11. QED
  BY <1>1, <1>6, <1>9, <1>10

-----------------------------------------------------------------------------
\* Where the buffer's indices are, and that its memory is as large as its size.
BufferInv ==
  /\ size \in Nat /\ next \in 0..size /\ checkpoint \in 0..size
  /\ b = [i \in 0 .. size - 1 |-> b[i]]
  /\ state \in {"ok", "hung", "aborted", "stray"}

\* A step of the buffer is one of the tape, which stops when the buffer is of no use.
BufferStepOK == BufferInv' /\ [Ser!Abstract!Next]_(Ser!Abstract!tapeVars)

\* The bytes of a value.
LEMMA BytesLen ==
  ASSUME NEW v, NEW n \in Nat
  PROVE  Len(Ser!Bytes(v, n)) = n
<1> DEFINE S == {<<v, i>> : i \in 1..n}
<1>1. Ser!Bytes(v, n) \in [1..n -> S]
  BY DEF Ser!Bytes
<1>2. QED
  BY <1>1, FunctionIsSeq

\* Bytes that may be written to the tape.
LEMMA DataOfTape ==
  ASSUME NEW v \in Value, NEW n \in ScalarSize \cup RealSize \cup StringSize
  PROVE  Ser!Bytes(v, n) \in {Ser!Bytes(w, m) : w \in Value,
                                m \in ScalarSize \cup RealSize \cup StringSize}
OBVIOUS

\* The size of what is written or read is a number.
LEMMA Pieces ==
  /\ \A n \in ScalarSize \cup RealSize \cup StringSize : n \in Nat /\ n <= MaxPiece
  /\ MaxPiece \in Nat /\ Limit \in Nat /\ Ser!Extent = Limit + MaxPiece
BY PieceAssumption DEF Ser!Extent

\* What the tape has at a place.
LEMMA ContentsAt ==
  ASSUME BufferInv
  PROVE  /\ Ser!Contents = [i \in Ser!Abstract!Place |-> IF i < size THEN b[i] ELSE Unwritten]
         /\ \A i \in Ser!Abstract!Place : i \in Nat /\ (i \in DOMAIN b <=> i < size)
         /\ Ser!Abstract!Place = 0 .. Ser!Extent - 1 /\ Ser!Extent \in Nat
<1>1. Ser!Abstract!Place = 0 .. Ser!Extent - 1 /\ Ser!Extent \in Nat
  BY Pieces DEF Ser!Abstract!Place
<1>2. DOMAIN b = 0 .. size - 1
  BY DEF BufferInv
<1>3. \A i \in 0 .. Ser!Extent - 1 : i \in Nat /\ (i \in DOMAIN b <=> i < size)
  BY <1>1, <1>2 DEF BufferInv
<1>4. QED
  BY <1>1, <1>3 DEF Ser!Contents

\* The same of the next state.
LEMMA ContentsNext ==
  ASSUME BufferInv'
  PROVE  Ser!Contents' = [i \in Ser!Abstract!Place |-> IF i < size' THEN b'[i] ELSE Unwritten]
<1>1. Ser!Abstract!Place = 0 .. Ser!Extent - 1 /\ Ser!Extent \in Nat
  BY Pieces DEF Ser!Abstract!Place
<1>2. DOMAIN b' = 0 .. size' - 1
  BY DEF BufferInv
<1>3. \A i \in 0 .. Ser!Extent - 1 : i \in DOMAIN b' <=> i < size'
  BY <1>1, <1>2 DEF BufferInv
<1>4. QED
  BY <1>1, <1>3 DEF Ser!Contents

\* The buffer that is of no use, and one that can be used.
LEMMA StateOfTape ==
  ASSUME BufferInv, state = "ok"
  PROVE  (size # 0) <=> (IF size = 0 THEN "dead" ELSE state) = "ok"
OBVIOUS

\* The process that ends or hangs, or would go on with a buffer of no use.
LEMMA DeadStep ==
  ASSUME BufferInv', Ser!Contents' = Ser!Contents, size = 0, size' = 0,
         UNCHANGED <<next, checkpoint, got>>
  PROVE  UNCHANGED Ser!Abstract!tapeVars
BY DEF Ser!Abstract!tapeVars

\* A write.
LEMMA WriteStep ==
  ASSUME BufferInv, state = "ok", next <= Limit,
         NEW v \in Value, NEW n \in ScalarSize \cup RealSize \cup StringSize,
         Ser!serialize(Ser!Bytes(v, n))
  PROVE  BufferStepOK
<1> DEFINE d == Ser!Bytes(v, n)
           to == Ser!Grown(next + n)
<1>0. n \in Nat /\ n <= MaxPiece /\ Len(d) = n /\ size \in Nat /\ next \in Nat
  BY Pieces, BytesLen DEF BufferInv
<1> HIDE DEF d
<1>1. CASE Ser!Hangs(n)
  <2>1. size = 0 /\ state' = "hung" /\ UNCHANGED <<b, size, next, checkpoint, got>>
    BY <1>0, <1>1 DEF Ser!serialize, Ser!Stop, Ser!Hangs, d
  <2>2. BufferInv'
    BY <2>1 DEF BufferInv
  <2>3. Ser!Contents' = Ser!Contents
    BY <2>1 DEF Ser!Contents
  <2>4. QED
    BY <2>1, <2>2, <2>3, DeadStep DEF BufferStepOK
<1>2. CASE ~Ser!Hangs(n)
  <2>1. to \in Nat /\ to >= next + n /\ to >= size
    <3>1. ~Ser!Hangs(next + n)
      BY <1>0, <1>2 DEF Ser!Hangs, BufferInv
    <3>2. next + n \in Nat
      BY <1>0
    <3>3. QED
      BY <1>0, <3>1, <3>2, GrownIsEnough
  <2> HIDE DEF to
  <2>2. /\ b' = Ser!Copied(Ser!Resized(to), d, next) /\ size' = to /\ next' = next + n
        /\ UNCHANGED <<checkpoint, state, got>>
    BY <1>0, <1>2, <2>1 DEF Ser!serialize, d, to
  <2>3. b' = [i \in 0 .. to - 1 |-> IF next <= i /\ i < next + n THEN d[i - next + 1]
                                    ELSE IF i < size THEN b[i] ELSE Unwritten]
    BY <1>0, <2>2 DEF Ser!Copied, Ser!Resized
  <2>4. BufferInv'
    BY <1>0, <2>1, <2>2, <2>3 DEF BufferInv
  <2>5. CASE size = 0
    <3>1. n = 0 /\ next = 0 /\ size' = 0
      <4>1. n = 0 /\ next = 0
        BY <1>0, <1>2, <2>5 DEF Ser!Hangs, BufferInv
      <4>2. Ser!Grown(next + n) = size
        <5>1. ~Ser!Hangs(next + n) /\ next + n \in Nat /\ next + n <= size
          BY <1>0, <2>5, <4>1 DEF Ser!Hangs
        <5>2. QED
          BY <1>0, <5>1, GrownIsEnough
      <4>3. QED
        BY <2>2, <2>5, <4>1, <4>2 DEF to
    <3>2. Ser!Contents' = Ser!Contents
      BY <2>4, <2>5, <3>1, ContentsAt, ContentsNext
    <3>3. QED
      BY <2>2, <2>4, <2>5, <3>1, <3>2, DeadStep DEF BufferStepOK
  <2>6. CASE size # 0
    <3>1. Ser!Contents' = Ser!Abstract!Overwritten(d, next)
      <4>1. \A i \in Ser!Abstract!Place :
              (IF i < size' THEN b'[i] ELSE Unwritten)
                = IF next <= i /\ i < next + n THEN d[i - next + 1]
                  ELSE IF i < size THEN b[i] ELSE Unwritten
        BY <1>0, <2>1, <2>2, <2>3, ContentsAt
      <4>2. QED
        BY <1>0, <2>4, <4>1, ContentsAt, ContentsNext DEF Ser!Abstract!Overwritten
    <3>2. size' # 0 /\ state = "ok" /\ state' = "ok"
      BY <1>0, <2>1, <2>2, <2>6
    <3>3. Ser!Abstract!Write(d)
      BY <1>0, <2>1, <2>2, <2>6, <3>1, <3>2 DEF Ser!Abstract!Write, Ser!Abstract!Move
    <3>4. Ser!Abstract!Next
      BY <2>6, <3>2, <3>3, DataOfTape DEF Ser!Abstract!Next, d
    <3>5. QED
      BY <2>4, <3>4 DEF BufferStepOK
  <2>7. QED
    BY <2>5, <2>6
<1>3. QED
  BY <1>1, <1>2

\* A skip, forward or back.
LEMMA SkipStep ==
  ASSUME BufferInv, state = "ok", next <= Limit, Ser!serialize_buffer_skip
  PROVE  BufferStepOK
<1>1. PICK n \in ScalarSize \cup {-k : k \in ScalarSize} :
        /\ next + n >= 0
        /\ \/ Ser!Hangs(n) /\ Ser!Stop("hung")
           \/ /\ ~Ser!Hangs(n)
              /\ LET grown == IF size - next >= n THEN size ELSE Ser!Grown(next + n)
                 IN b' = Ser!Resized(grown) /\ size' = grown
              /\ next' = next + n
              /\ UNCHANGED <<checkpoint, state, got>>
  BY DEF Ser!serialize_buffer_skip
<1> DEFINE to == IF size - next >= n THEN size ELSE Ser!Grown(next + n)
<1>0. n \in Int /\ size \in Nat /\ next \in Nat /\ next <= size /\ next + n \in Nat
  <2>1. \A k \in ScalarSize : k \in Nat
    BY Pieces
  <2>2. n \in Int
    BY <2>1
  <2>3. QED
    BY <1>1, <2>2 DEF BufferInv
<1>2. CASE Ser!Hangs(n)
  <2>1. size = 0 /\ state' = "hung" /\ UNCHANGED <<b, size, next, checkpoint, got>>
    BY <1>0, <1>1, <1>2 DEF Ser!Stop, Ser!Hangs
  <2>2. BufferInv'
    BY <2>1 DEF BufferInv
  <2>3. Ser!Contents' = Ser!Contents
    BY <2>1 DEF Ser!Contents
  <2>4. QED
    BY <2>1, <2>2, <2>3, DeadStep DEF BufferStepOK
<1>3. CASE ~Ser!Hangs(n)
  <2>1. to \in Nat /\ to >= next + n /\ to >= size
    <3>1. CASE size - next >= n
      BY <1>0, <3>1
    <3>2. CASE ~(size - next >= n)
      <4>1. ~Ser!Hangs(next + n)
        BY <1>0, <1>3, <3>2 DEF Ser!Hangs
      <4>2. QED
        BY <1>0, <3>2, <4>1, GrownIsEnough
    <3>3. QED
      BY <3>1, <3>2
  <2>2. /\ b' = Ser!Resized(to) /\ size' = to /\ next' = next + n
        /\ UNCHANGED <<checkpoint, state, got>>
    BY <1>1, <1>3
  <2>3. size = 0 => to = 0 /\ next = 0 /\ n = 0
    BY <1>0, <1>3 DEF Ser!Hangs
  <2> HIDE DEF to
  <2>4. b' = [i \in 0 .. to - 1 |-> IF i < size THEN b[i] ELSE Unwritten]
    BY <2>2 DEF Ser!Resized
  <2>5. BufferInv'
    BY <1>0, <2>1, <2>2, <2>4 DEF BufferInv
  <2>6. Ser!Contents' = Ser!Contents
    <3>1. \A i \in Ser!Abstract!Place : (IF i < size' THEN b'[i] ELSE Unwritten)
                                          = IF i < size THEN b[i] ELSE Unwritten
      BY <1>0, <2>1, <2>2, <2>4, ContentsAt
    <3>2. QED
      BY <2>5, <3>1, ContentsAt, ContentsNext
  <2>7. CASE size = 0
    BY <2>2, <2>3, <2>5, <2>6, <2>7, <1>0, DeadStep DEF BufferStepOK
  <2>8. CASE size # 0
    <3>1. size' # 0
      BY <1>0, <2>1, <2>2, <2>8
    <3>2. Ser!Abstract!Skip(n)
      BY <1>0, <2>1, <2>2, <2>6, <2>8, <3>1 DEF Ser!Abstract!Skip, Ser!Abstract!Move
    <3>3. \E m \in StringSize \cup ScalarSize : n = m \/ n = -m
      <4>1. CASE n \in ScalarSize
        BY <4>1
      <4>2. CASE n \in {-k : k \in ScalarSize}
        BY <4>2
      <4>3. QED
        BY <4>1, <4>2
    <3>4. Ser!Abstract!Next
      BY <2>8, <3>2, <3>3 DEF Ser!Abstract!Next
    <3>5. QED
      BY <2>5, <3>4 DEF BufferStepOK
  <2>9. QED
    BY <2>7, <2>8
<1>4. QED
  BY <1>2, <1>3

\* A read, which is of bytes that are there or the end of the process.
LEMMA ReadStep ==
  ASSUME BufferInv, state = "ok", next <= Limit, Ser!de_serialize_string
  PROVE  BufferStepOK
<1>1. PICK n \in StringSize \ {0} :
        \/ size - next < n /\ Ser!Stop("aborted")
        \/ /\ size - next >= n
           /\ got' = [i \in 1..n |-> b[next + i - 1]]
           /\ next' = next + n
           /\ UNCHANGED <<b, size, checkpoint, state>>
  BY DEF Ser!de_serialize_string
<1>0. n \in Nat /\ n # 0 /\ n <= MaxPiece /\ size \in Nat /\ next \in Nat /\ next <= size
  BY Pieces DEF BufferInv
<1>2. CASE size - next < n /\ Ser!Stop("aborted")
  <2>1. state' = "aborted" /\ UNCHANGED <<b, size, next, checkpoint, got>>
    BY <1>2 DEF Ser!Stop
  <2>2. BufferInv'
    BY <2>1 DEF BufferInv
  <2>3. Ser!Contents' = Ser!Contents
    BY <2>1 DEF Ser!Contents
  <2>4. CASE size = 0
    BY <2>1, <2>2, <2>3, <2>4, DeadStep DEF BufferStepOK
  <2>5. CASE size # 0
    <3>1. Ser!Abstract!Read(n)
      BY <1>0, <1>2, <2>1, <2>3, <2>5 DEF Ser!Abstract!Read
    <3>2. Ser!Abstract!Next
      BY <2>5, <3>1 DEF Ser!Abstract!Next
    <3>3. QED
      BY <2>2, <3>2 DEF BufferStepOK
  <2>6. QED
    BY <2>4, <2>5
<1>3. CASE ~(size - next < n /\ Ser!Stop("aborted"))
  <2>1. /\ size - next >= n /\ got' = [i \in 1..n |-> b[next + i - 1]]
        /\ next' = next + n /\ UNCHANGED <<b, size, checkpoint, state>>
    BY <1>1, <1>3
  <2>2. BufferInv'
    BY <1>0, <2>1 DEF BufferInv
  <2>3. Ser!Contents' = Ser!Contents
    BY <2>1 DEF Ser!Contents
  <2>4. size # 0 /\ size' # 0
    BY <1>0, <2>1
  <2>5. got' = [i \in 1..n |-> Ser!Contents[next + i - 1]]
    <3>1. \A i \in 1..n : /\ next + i - 1 \in Ser!Abstract!Place
                          /\ next + i - 1 < size
      BY <1>0, <2>1, Pieces, ContentsAt
    <3>2. \A i \in 1..n : Ser!Contents[next + i - 1] = b[next + i - 1]
      BY <3>1, ContentsAt
    <3>3. QED
      BY <2>1, <3>2
  <2>6. Ser!Abstract!Read(n)
    <3>1. next + n <= size /\ size' = size /\ next' = next + n /\ state' = state
      BY <1>0, <2>1
    <3>2. Ser!Abstract!Move(n)
      BY <1>0, <3>1 DEF Ser!Abstract!Move
    <3>3. QED
      BY <2>1, <2>3, <2>5, <3>1, <3>2, Zenon DEF Ser!Abstract!Read
  <2>7. Ser!Abstract!Next
    BY <2>4, <2>6 DEF Ser!Abstract!Next
  <2>8. QED
    BY <2>2, <2>7 DEF BufferStepOK
<1>4. QED
  BY <1>2, <1>3

\* A patch.
LEMMA PatchStep ==
  ASSUME BufferInv, state = "ok", next <= Limit, Ser!copy_in_serialized_buffer_by_offset
  PROVE  BufferStepOK
<1>1. PICK v \in Value, n \in StringSize, offset \in 0 .. Limit - 1 :
        /\ size - next >= n /\ offset <= size
        /\ IF offset + n > size THEN Ser!Stop("stray")
           ELSE /\ b' = Ser!Copied(b, Ser!Bytes(v, n), offset)
                /\ UNCHANGED <<size, next, checkpoint, state, got>>
  BY DEF Ser!copy_in_serialized_buffer_by_offset
<1> DEFINE d == Ser!Bytes(v, n)
<1>0. /\ n \in Nat /\ n <= MaxPiece /\ size \in Nat /\ next \in Nat /\ next <= size
      /\ Len(d) = n /\ offset \in Nat /\ offset \in Ser!Abstract!Place
  BY Pieces, BytesLen, ContentsAt DEF BufferInv
<1>2. d \in {Ser!Bytes(w, m) : w \in Value, m \in ScalarSize \cup RealSize \cup StringSize}
  BY DataOfTape
<1> HIDE DEF d
<1>3. CASE offset + n > size
  <2>1. state' = "stray" /\ UNCHANGED <<b, size, next, checkpoint, got>>
    BY <1>1, <1>3 DEF Ser!Stop
  <2>2. BufferInv'
    BY <2>1 DEF BufferInv
  <2>3. Ser!Contents' = Ser!Contents
    BY <2>1 DEF Ser!Contents
  <2>4. CASE size = 0
    BY <2>1, <2>2, <2>3, <2>4, DeadStep DEF BufferStepOK
  <2>5. CASE size # 0
    <3>1. Ser!Abstract!Patch(d, offset)
      BY <1>0, <1>3, <2>1, <2>3, <2>5 DEF Ser!Abstract!Patch
    <3>2. Ser!Abstract!Next
      BY <1>0, <1>2, <2>5, <3>1 DEF Ser!Abstract!Next
    <3>3. QED
      BY <2>2, <3>2 DEF BufferStepOK
  <2>6. QED
    BY <2>4, <2>5
<1>4. CASE ~(offset + n > size)
  <2>1. b' = Ser!Copied(b, d, offset) /\ UNCHANGED <<size, next, checkpoint, state, got>>
    BY <1>1, <1>4 DEF d
  <2>2. b' = [i \in 0 .. size - 1 |-> IF offset <= i /\ i < offset + n THEN d[i - offset + 1]
                                      ELSE b[i]]
    <3>1. DOMAIN b = 0 .. size - 1
      BY DEF BufferInv
    <3>2. QED
      BY <1>0, <2>1, <3>1 DEF Ser!Copied
  <2>3. BufferInv'
    BY <1>0, <2>1, <2>2 DEF BufferInv
  <2>4. Ser!Contents' = Ser!Abstract!Overwritten(d, offset)
    <3>1. \A i \in Ser!Abstract!Place :
            (IF i < size' THEN b'[i] ELSE Unwritten)
              = IF offset <= i /\ i < offset + n THEN d[i - offset + 1]
                ELSE IF i < size THEN b[i] ELSE Unwritten
      BY <1>0, <1>4, <2>1, <2>2, ContentsAt
    <3>2. QED
      BY <1>0, <2>3, <3>1, ContentsAt, ContentsNext DEF Ser!Abstract!Overwritten
  <2>5. CASE size = 0
    <3>1. Ser!Contents' = Ser!Contents
      BY <2>1, <2>3, <2>5, ContentsAt, ContentsNext
    <3>2. QED
      BY <2>1, <2>3, <2>5, <3>1, DeadStep DEF BufferStepOK
  <2>6. CASE size # 0
    <3>1. Ser!Abstract!Patch(d, offset)
      BY <1>0, <1>4, <2>1, <2>4, <2>6 DEF Ser!Abstract!Patch
    <3>2. Ser!Abstract!Next
      BY <1>0, <1>2, <2>6, <3>1 DEF Ser!Abstract!Next
    <3>3. QED
      BY <2>3, <3>2 DEF BufferStepOK
  <2>7. QED
    BY <2>5, <2>6
<1>5. QED
  BY <1>3, <1>4

\* The checkpoint and the start.
LEMMA MarkStep ==
  ASSUME BufferInv, state = "ok",
         \/ Ser!mark_checkpoint_serialize_buffer
         \/ Ser!restore_checkpoint_serialize_buffer
         \/ Ser!reset_serialize_buffer
  PROVE  BufferStepOK
<1>0. UNCHANGED <<b, size, state, got>>
  BY DEF Ser!mark_checkpoint_serialize_buffer, Ser!restore_checkpoint_serialize_buffer,
         Ser!reset_serialize_buffer
<1>1. BufferInv'
  BY <1>0 DEF BufferInv, Ser!mark_checkpoint_serialize_buffer,
         Ser!restore_checkpoint_serialize_buffer, Ser!reset_serialize_buffer
<1>2. Ser!Contents' = Ser!Contents
  BY <1>0 DEF Ser!Contents
<1>3. CASE size = 0
  <2>1. UNCHANGED <<next, checkpoint>>
    BY <1>3 DEF BufferInv, Ser!mark_checkpoint_serialize_buffer,
         Ser!restore_checkpoint_serialize_buffer, Ser!reset_serialize_buffer
  <2>2. QED
    BY <1>0, <1>1, <1>2, <1>3, <2>1, DeadStep DEF BufferStepOK
<1>4. CASE size # 0
  <2>1. Ser!Abstract!Mark \/ Ser!Abstract!Restore \/ Ser!Abstract!Rewind
    BY <1>0, <1>2 DEF Ser!Abstract!Mark, Ser!Abstract!Restore, Ser!Abstract!Rewind,
         Ser!mark_checkpoint_serialize_buffer, Ser!restore_checkpoint_serialize_buffer,
         Ser!reset_serialize_buffer
  <2>2. Ser!Abstract!Next
    BY <1>4, <2>1 DEF Ser!Abstract!Next
  <2>3. QED
    BY <1>1, <2>2 DEF BufferStepOK
<1>5. QED
  BY <1>3, <1>4

\* What is truncated may be of no use afterwards.
LEMMA TruncateStep ==
  ASSUME BufferInv, state = "ok", next <= Limit, Ser!truncate_serialize_buffer
  PROVE  BufferStepOK
<1>1. /\ next # size /\ size' = next /\ b' = [i \in 0 .. next - 1 |-> b[i]]
      /\ checkpoint' = 0 /\ UNCHANGED <<next, state, got>>
  BY DEF Ser!truncate_serialize_buffer
<1>2. size \in Nat /\ next \in Nat /\ next < size
  BY <1>1 DEF BufferInv
<1>3. BufferInv'
  BY <1>1, <1>2 DEF BufferInv
<1>4. Ser!Contents' = [i \in Ser!Abstract!Place |-> IF i < next THEN Ser!Contents[i] ELSE Unwritten]
  <2>1. \A i \in Ser!Abstract!Place : (IF i < size' THEN b'[i] ELSE Unwritten)
                                        = IF i < next THEN Ser!Contents[i] ELSE Unwritten
    BY <1>1, <1>2, ContentsAt
  <2>2. QED
    BY <1>3, <2>1, ContentsNext
<1>5. Ser!Abstract!Cut
  BY <1>1, <1>2, <1>4 DEF Ser!Abstract!Cut
<1>6. Ser!Abstract!Next
  BY <1>2, <1>5 DEF Ser!Abstract!Next
<1>7. QED
  BY <1>3, <1>6 DEF BufferStepOK

\* Every function on the buffer does to the tape what the tape may do.
LEMMA BufferNext ==
  ASSUME BufferInv, [StructuresNext]_<<vars, glue, ser, str>>
  PROVE  BufferStepOK
<1>1. CASE Ser!Next
  <2>0. state = "ok" /\ next <= Limit
    BY <1>1 DEF Ser!Next
  <2>1. CASE Ser!serialize_scalar \/ Ser!serialize_real \/ Ser!serialize_string
    <3>1. PICK v \in Value, n \in ScalarSize \cup RealSize \cup StringSize :
                 Ser!serialize(Ser!Bytes(v, n))
      BY <2>1 DEF Ser!serialize_scalar, Ser!serialize_real, Ser!serialize_string
    <3>2. QED
      BY <2>0, <3>1, WriteStep
  <2>2. CASE Ser!serialize_buffer_skip
    BY <2>0, <2>2, SkipStep
  <2>3. CASE Ser!de_serialize_string
    BY <2>0, <2>3, ReadStep
  <2>4. CASE Ser!copy_in_serialized_buffer_by_offset
    BY <2>0, <2>4, PatchStep
  <2>5. CASE \/ Ser!mark_checkpoint_serialize_buffer
             \/ Ser!restore_checkpoint_serialize_buffer
             \/ Ser!reset_serialize_buffer
    BY <2>0, <2>5, MarkStep
  <2>6. CASE Ser!truncate_serialize_buffer
    BY <2>0, <2>6, TruncateStep
  <2>7. QED
    BY <1>1, <2>1, <2>2, <2>3, <2>4, <2>5, <2>6 DEF Ser!Next
<1>2. CASE UNCHANGED ser
  <2>1. BufferInv'
    BY <1>2 DEF BufferInv, ser
  <2>2. Ser!Contents' = Ser!Contents
    BY <1>2 DEF Ser!Contents, ser
  <2>3. QED
    BY <1>2, <2>1, <2>2 DEF BufferStepOK, Ser!Abstract!tapeVars, ser
<1>3. QED
  BY <1>1, <1>2 DEF StructuresNext, RingStep, ListStep, BufferStep, StringStep

\* At first the tape is blank.
LEMMA InitBuffer == Ser!Init => BufferInv /\ Ser!Abstract!Init
<1> SUFFICES ASSUME Ser!Init PROVE BufferInv /\ Ser!Abstract!Init
  OBVIOUS
<1>1. size \in Nat /\ size # 0 /\ next = 0 /\ checkpoint = 0 /\ state = "ok" /\ got = <<>>
  BY PieceAssumption DEF Ser!Init
<1>2. b = [i \in 0 .. size - 1 |-> Unwritten]
  BY DEF Ser!Init, Ser!Memory
<1>3. BufferInv
  BY <1>1, <1>2 DEF BufferInv
<1>4. Ser!Contents = [i \in Ser!Abstract!Place |-> Unwritten]
  <2>1. \A i \in Ser!Abstract!Place : (IF i < size THEN b[i] ELSE Unwritten) = Unwritten
    BY <1>1, <1>2, <1>3, ContentsAt
  <2>2. QED
    BY <1>3, <2>1, ContentsAt
<1>5. QED
  BY <1>1, <1>3, <1>4 DEF Ser!Abstract!Init

\* The buffer of serialize.c, for pieces of any size and buffers created with any, is
\* a tape: whatever is written, skipped, patched, truncated and gone back to, no byte is
\* lost when the memory grows, and a read gives what stands at its place.
THEOREM BufferIsATape == StructuresSpec => BufferSpec
<1>1. StructuresInit => BufferInv /\ Ser!Abstract!Init
  BY InitBuffer DEF StructuresInit
<1>2. BufferInv /\ [StructuresNext]_<<vars, glue, ser, str>>
        => BufferInv' /\ [Ser!Abstract!Next]_(Ser!Abstract!tapeVars)
  BY BufferNext DEF BufferStepOK
<1>3. QED
  BY <1>1, <1>2, PTL DEF StructuresSpec, BufferSpec, Ser!BufferSpec, Ser!Abstract!Spec

-----------------------------------------------------------------------------
(***************************************************************************)
(* The strings: places in a text, and the pieces of it that lie there.     *)
(***************************************************************************)
\* p has the places of pieces from left to right.
InOrder(p) == /\ p \in Seq(Nat \X Nat)
              /\ \A i, j \in 1..Len(p) : i < j => p[i][1] < p[j][1]

\* Those places as a set, and the pieces of s at them.
Places(p) == {p[i] : i \in 1..Len(p)}
Cut(s, p) == [k \in 1..Len(p) |-> SubSeq(s, p[k][1], p[k][2])]

\* The strings' cardinality is this one.
LEMMA StrCardinality == \A S : Str!Cardinality(S) = Cardinality(S)
BY DEF Str!Cardinality, Cardinality

\* The k-th place has k - 1 to the left of it, and is the only one that has.
LEMMA Ranked ==
  ASSUME NEW p, InOrder(p)
  PROVE  /\ Cardinality(Places(p)) = Len(p)
         /\ \A k \in 1..Len(p) :
              p[k] = CHOOSE r \in Places(p) : Cardinality({q \in Places(p) : q[1] < r[1]}) = k - 1
<1> DEFINE T(k) == {p[i] : i \in 1..k}
           Good == {k \in Nat : k <= Len(p) => IsFiniteSet(T(k)) /\ Cardinality(T(k)) = k}
<1>0. Len(p) \in Nat /\ \A i \in 1..Len(p) : p[i] \in Nat \X Nat /\ p[i][1] \in Nat
  BY DEF InOrder
<1>1. 0 \in Good
  <2>1. T(0) = {}
    OBVIOUS
  <2> HIDE DEF T
  <2>2. QED
    BY <2>1, FS_EmptySet
<1>2. ASSUME NEW k \in Nat, k \in Good PROVE k + 1 \in Good
  <2> SUFFICES ASSUME k + 1 <= Len(p)
               PROVE  IsFiniteSet(T(k + 1)) /\ Cardinality(T(k + 1)) = k + 1
    OBVIOUS
  <2>1. IsFiniteSet(T(k)) /\ Cardinality(T(k)) = k
    BY <1>0, <1>2
  <2>2. T(k + 1) = T(k) \cup {p[k + 1]}
    <3>1. 1 .. k + 1 = 1..k \cup {k + 1}
      BY <1>2
    <3>2. QED
      BY <3>1
  <2>3. p[k + 1] \notin T(k)
    <3>1. \A i \in 1..k : i < k + 1 /\ i \in 1..Len(p) /\ k + 1 \in 1..Len(p)
      BY <1>0, <1>2
    <3>2. \A i \in 1..k : p[i][1] < p[k + 1][1]
      BY <3>1 DEF InOrder
    <3>3. \A i \in 1..k : p[i] # p[k + 1]
      BY <1>0, <3>1, <3>2
    <3>4. QED
      BY <3>3
  <2> HIDE DEF T
  <2>4. QED
    BY <1>2, <2>1, <2>2, <2>3, FS_AddElement
<1>3. \A k \in 0..Len(p) : Cardinality(T(k)) = k
  <2>1. \A k \in Nat : k \in Good
    <3> HIDE DEF Good
    <3>1. QED
      BY <1>1, <1>2, Climb
  <2> SUFFICES ASSUME NEW k \in 0..Len(p) PROVE Cardinality(T(k)) = k
    OBVIOUS
  <2>2. k \in Nat /\ k <= Len(p)
    BY <1>0
  <2>3. k \in Good
    <3> HIDE DEF Good
    <3>1. QED
      BY <2>1, <2>2
  <2> HIDE DEF T
  <2>4. QED
    BY <2>2, <2>3
<1>4. Places(p) = T(Len(p))
  BY DEF Places
<1>5. ASSUME NEW k \in 1..Len(p)
      PROVE  Cardinality({q \in Places(p) : q[1] < p[k][1]}) = k - 1
  <2>1. {q \in Places(p) : q[1] < p[k][1]} = T(k - 1)
    <3>1. \A i \in 1..Len(p) : p[i][1] < p[k][1] <=> i \in 1 .. k - 1
      <4>1. \A i \in 1..Len(p) : i < k \/ i = k \/ k < i
        BY <1>0
      <4>2. \A i \in 1..Len(p) : i < k <=> i \in 1 .. k - 1
        BY <1>0
      <4>3. \A i \in 1..Len(p) : (i < k => p[i][1] < p[k][1]) /\ (k < i => p[k][1] < p[i][1])
        BY DEF InOrder
      <4>4. QED
        BY <1>0, <4>1, <4>2, <4>3
    <3>2. 1 .. k - 1 \subseteq 1..Len(p)
      BY <1>0
    <3>3. QED
      BY <3>1, <3>2 DEF Places
  <2>2. k - 1 \in 0..Len(p)
    BY <1>0
  <2> HIDE DEF T
  <2>3. QED
    BY <1>3, <2>1, <2>2
<1>6. ASSUME NEW k \in 1..Len(p)
      PROVE  p[k] = CHOOSE r \in Places(p) : Cardinality({q \in Places(p) : q[1] < r[1]}) = k - 1
  <2> DEFINE Left(r) == Cardinality({q \in Places(p) : q[1] < r[1]})
  <2>1. p[k] \in Places(p) /\ Left(p[k]) = k - 1
    BY <1>5 DEF Places
  <2>2. ASSUME NEW r \in Places(p), Left(r) = k - 1 PROVE r = p[k]
    <3>1. PICK j \in 1..Len(p) : r = p[j]
      BY DEF Places
    <3>2. Left(r) = j - 1
      BY <1>5, <3>1
    <3> HIDE DEF Left
    <3>3. j = k
      BY <1>0, <2>2, <3>2
    <3>4. QED
      BY <3>1, <3>3
  <2> HIDE DEF Left
  <2>3. p[k] = CHOOSE r \in Places(p) : Left(r) = k - 1
    BY <2>1, <2>2
  <2>4. QED
    BY <2>3 DEF Left
<1>7. Cardinality(Places(p)) = Len(p)
  <2>1. Len(p) \in 0..Len(p)
    BY <1>0
  <2> HIDE DEF T
  <2>2. QED
    BY <1>3, <1>4, <2>1
<1>8. QED
  BY <1>6, <1>7

\* What the longest pieces are, when their places are known.
LEMMA PiecesAre ==
  ASSUME NEW s, NEW delims, NEW p, InOrder(p), Places(p) = Str!Inside(s, delims)
  PROVE  Str!Pieces(s, delims) = Cut(s, p)
<1> DEFINE inside == Str!Inside(s, delims)
           nth(k) == CHOOSE r \in inside : Cardinality({q \in inside : q[1] < r[1]}) = k - 1
<1>1. Str!Pieces(s, delims) = [k \in 1..Cardinality(inside) |-> SubSeq(s, nth(k)[1], nth(k)[2])]
  BY DEF Str!Pieces, Str!Cardinality, Cardinality
<1>2. Cardinality(inside) = Len(p) /\ \A k \in 1..Len(p) : p[k] = nth(k)
  BY Ranked
<1> HIDE DEF inside, nth
<1>3. QED
  BY <1>1, <1>2 DEF Cut

\* A piece to the right of all others.
LEMMA OneMore ==
  ASSUME NEW p, InOrder(p), NEW i \in Nat, NEW j \in Nat, NEW s \in Seq(Char),
         \A k \in 1..Len(p) : p[k][1] < i
  PROVE  /\ InOrder(Append(p, <<i, j>>))
         /\ Places(Append(p, <<i, j>>)) = Places(p) \cup {<<i, j>>}
         /\ Cut(s, Append(p, <<i, j>>)) = Cut(s, p) \o <<SubSeq(s, i, j)>>
<1> DEFINE r == <<i, j>>
           q == Append(p, r)
<1>0. p \in Seq(Nat \X Nat) /\ Len(p) \in Nat /\ r \in Nat \X Nat /\ r[1] = i /\ r[2] = j
  BY DEF InOrder
<1> HIDE DEF r
<1>1. /\ q \in Seq(Nat \X Nat) /\ Len(q) = Len(p) + 1 /\ q[Len(p) + 1] = r
      /\ \A k \in 1..Len(p) : q[k] = p[k]
  BY <1>0
<1>2. 1..Len(q) = 1..Len(p) \cup {Len(p) + 1} /\ Len(p) + 1 \notin 1..Len(p)
  BY <1>0, <1>1
<1> HIDE DEF q
<1>3. InOrder(q)
  <2> SUFFICES ASSUME NEW m \in 1..Len(q), NEW n \in 1..Len(q), m < n
               PROVE  q[m][1] < q[n][1]
    BY <1>1 DEF InOrder
  <2>1. m \in 1..Len(p)
    BY <1>0, <1>1
  <2>2. CASE n = Len(p) + 1
    BY <1>0, <1>1, <2>1, <2>2
  <2>3. CASE n \in 1..Len(p)
    BY <1>1, <2>1, <2>3 DEF InOrder
  <2>4. QED
    BY <1>2, <2>2, <2>3
<1>4. Places(q) = Places(p) \cup {r}
  <2>1. \A x : (\E k \in 1..Len(q) : x = q[k]) <=> (\E k \in 1..Len(p) : x = p[k]) \/ x = r
    BY <1>1, <1>2
  <2>2. QED
    BY <2>1 DEF Places
<1>5. Cut(s, q) = Cut(s, p) \o <<SubSeq(s, i, j)>>
  <2> DEFINE c == Cut(s, p)
             S == {SubSeq(s, p[k][1], p[k][2]) : k \in 1..Len(p)} \cup {SubSeq(s, i, j)}
  <2>1. c \in Seq(S) /\ Len(c) = Len(p) /\ \A k \in 1..Len(p) : c[k] = SubSeq(s, p[k][1], p[k][2])
    <3>1. c \in [1..Len(p) -> S]
      BY DEF Cut
    <3>2. \A k \in 1..Len(p) : c[k] = SubSeq(s, p[k][1], p[k][2])
      BY DEF Cut
    <3> HIDE DEF c, S
    <3>3. QED
      BY <1>0, <3>1, <3>2, FunctionIsSeq
  <2> DEFINE x == SubSeq(s, i, j)
  <2>2. x \in S
    OBVIOUS
  <2> HIDE DEF c, S, x
  <2>3. /\ c \o <<x>> \in Seq(S) /\ Len(c \o <<x>>) = Len(p) + 1
        /\ \A k \in 1..Len(p) : (c \o <<x>>)[k] = c[k]
        /\ (c \o <<x>>)[Len(p) + 1] = x
    BY <1>0, <2>1, <2>2
  <2>4. \A k \in 1..Len(q) : (c \o <<x>>)[k] = SubSeq(s, q[k][1], q[k][2])
    <3>1. \A k \in 1..Len(p) : (c \o <<x>>)[k] = SubSeq(s, q[k][1], q[k][2])
      BY <1>1, <2>1, <2>3
    <3>2. (c \o <<x>>)[Len(p) + 1] = SubSeq(s, q[Len(p) + 1][1], q[Len(p) + 1][2])
      BY <1>0, <1>1, <2>3 DEF x
    <3>3. QED
      BY <1>2, <3>1, <3>2
  <2>5. c \o <<x>> = [k \in 1..Len(q) |-> (c \o <<x>>)[k]]
    <3> DEFINE longer == c \o <<x>>
    <3>1. longer \in Seq(S) /\ Len(longer) = Len(q)
      BY <1>1, <2>3
    <3> HIDE DEF longer
    <3>2. longer = [k \in 1..Len(q) |-> longer[k]]
      BY <3>1
    <3>3. QED
      BY <3>2 DEF longer
  <2>6. Cut(s, q) = [k \in 1..Len(q) |-> SubSeq(s, q[k][1], q[k][2])]
    BY DEF Cut
  <2>7. QED
    BY <2>4, <2>5, <2>6 DEF c, x
<1>6. QED
  BY <1>3, <1>4, <1>5 DEF q, r

-----------------------------------------------------------------------------
\* The pieces of s that end at a delimiter before place from.
Ended(s, d, from) ==
  {r \in (1..Len(s)) \X (1..Len(s)) :
     /\ r[1] <= r[2]
     /\ \A i \in r[1]..r[2] : s[i] # d
     /\ r[1] = 1 \/ s[r[1] - 1] = d
     /\ s[r[2] + 1] = d
     /\ r[2] + 1 < from}

\* The first n characters of s have been looked at; no delimiter since place from.
Since(s, d, from, n) ==
  /\ from \in 1 .. n + 1
  /\ from = 1 \/ s[from - 1] = d
  /\ \A i \in from..n : s[i] # d

\* The piece that the scan is in, if it is in one.
Open(from, n) == IF from <= n THEN {<<from, n>>} ELSE {}

\* A delimiter ends the piece the scan is in.
LEMMA EndedGrows ==
  ASSUME NEW s \in Seq(Char), NEW d, NEW n \in 0 .. Len(s) - 1, NEW from,
         Since(s, d, from, n), s[n + 1] = d
  PROVE  Ended(s, d, n + 2) = Ended(s, d, from) \cup Open(from, n)
<1>0. Len(s) \in Nat /\ n \in Nat /\ n + 1 <= Len(s) /\ from \in Nat /\ 1 <= from /\ from <= n + 1
  BY DEF Since
<1>1. ASSUME NEW r \in Ended(s, d, n + 2), r \notin Ended(s, d, from) PROVE r \in Open(from, n)
  <2>1. /\ r \in (1..Len(s)) \X (1..Len(s)) /\ r[1] \in Nat /\ r[2] \in Nat
        /\ 1 <= r[1] /\ r[1] <= r[2] /\ r[2] < n + 1 /\ ~(r[2] + 1 < from)
        /\ r = <<r[1], r[2]>>
    BY <1>0, <1>1 DEF Ended
  <2>2. /\ \A i \in r[1]..r[2] : s[i] # d
        /\ r[1] = 1 \/ s[r[1] - 1] = d
        /\ s[r[2] + 1] = d
    BY DEF Ended
  <2>3. from <= r[1]
    <3>1. CASE from = 1
      BY <2>1, <3>1
    <3>2. CASE from # 1
      <4>1. s[from - 1] = d
        BY <3>2 DEF Since
      <4>2. from - 1 \notin r[1]..r[2]
        BY <2>2, <4>1
      <4>3. QED
        BY <1>0, <2>1, <4>2
    <3>3. QED
      BY <3>1, <3>2
  <2>4. r[2] = n
    <3>1. r[2] + 1 \notin from..n
      BY <2>2 DEF Since
    <3>2. QED
      BY <1>0, <2>1, <2>3, <3>1
  <2>5. r[1] = from
    <3>1. r[1] # 1 => r[1] - 1 \notin from..n
      BY <2>2 DEF Since
    <3>2. QED
      BY <1>0, <2>1, <2>3, <2>4, <3>1
  <2>6. QED
    BY <2>1, <2>4, <2>5 DEF Open
<1>2. ASSUME NEW r \in Ended(s, d, from) PROVE r \in Ended(s, d, n + 2)
  BY <1>0 DEF Ended
<1>3. ASSUME NEW r \in Open(from, n) PROVE r \in Ended(s, d, n + 2)
  <2>1. from <= n /\ r = <<from, n>>
    BY DEF Open
  <2>2. r \in (1..Len(s)) \X (1..Len(s)) /\ r[1] = from /\ r[2] = n
    BY <1>0, <2>1
  <2>3. n + 1 < n + 2
    BY <1>0
  <2>4. QED
    BY <2>1, <2>2, <2>3 DEF Ended, Since
<1>4. QED
  BY <1>1, <1>2, <1>3

\* The end of s ends the piece the scan is in.
LEMMA InsideIs ==
  ASSUME NEW s \in Seq(Char), NEW d, NEW from, Since(s, d, from, Len(s))
  PROVE  Str!Inside(s, {d}) = Ended(s, d, from) \cup Open(from, Len(s))
<1>0. Len(s) \in Nat /\ DOMAIN s = 1..Len(s) /\ from \in Nat /\ 1 <= from /\ from <= Len(s) + 1
  BY DEF Since
<1>1. ASSUME NEW r \in Str!Inside(s, {d}), r \notin Ended(s, d, from)
      PROVE  r \in Open(from, Len(s))
  <2>1. /\ r \in (1..Len(s)) \X (1..Len(s)) /\ r[1] \in Nat /\ r[2] \in Nat
        /\ 1 <= r[1] /\ r[1] <= r[2] /\ r[2] <= Len(s) /\ r = <<r[1], r[2]>>
    BY <1>0 DEF Str!Inside
  <2>2. /\ \A i \in r[1]..r[2] : s[i] # d
        /\ r[1] = 1 \/ s[r[1] - 1] = d
        /\ r[2] = Len(s) \/ s[r[2] + 1] = d
    BY DEF Str!Inside
  <2>3. r[2] + 1 < from => r[2] # Len(s)
    BY <1>0, <2>1
  <2>4. ~(r[2] + 1 < from)
    BY <1>1, <2>1, <2>2, <2>3 DEF Ended
  <2>5. from <= r[1]
    <3>1. CASE from = 1
      BY <2>1, <3>1
    <3>2. CASE from # 1
      <4>1. s[from - 1] = d
        BY <3>2 DEF Since
      <4>2. from - 1 \notin r[1]..r[2]
        BY <2>2, <4>1
      <4>3. QED
        BY <1>0, <2>1, <2>4, <4>2
    <3>3. QED
      BY <3>1, <3>2
  <2>6. r[2] = Len(s)
    <3>1. r[2] # Len(s) => r[2] + 1 \notin from..Len(s)
      BY <2>2 DEF Since
    <3>2. QED
      BY <1>0, <2>1, <2>5, <3>1
  <2>7. r[1] = from
    <3>1. r[1] # 1 => r[1] - 1 \notin from..Len(s)
      BY <2>2 DEF Since
    <3>2. QED
      BY <1>0, <2>1, <2>5, <2>6, <3>1
  <2>8. QED
    BY <2>1, <2>6, <2>7 DEF Open
<1>2. ASSUME NEW r \in Ended(s, d, from) PROVE r \in Str!Inside(s, {d})
  BY <1>0 DEF Ended, Str!Inside
<1>3. ASSUME NEW r \in Open(from, Len(s)) PROVE r \in Str!Inside(s, {d})
  <2>1. from <= Len(s) /\ r = <<from, Len(s)>>
    BY DEF Open
  <2>2. r \in (1..Len(s)) \X (1..Len(s)) /\ r[1] = from /\ r[2] = Len(s)
    BY <1>0, <2>1
  <2>3. QED
    BY <1>0, <2>1, <2>2 DEF Str!Inside, Since
<1>4. QED
  BY <1>1, <1>2, <1>3

\* The tokens found so far are the pieces at some places.
Found(words, s, S) == \E p : InOrder(p) /\ Places(p) = S /\ words = Cut(s, p)

\* The token that is ended is the piece the scan is in.
LEMMA OneMoreFound ==
  ASSUME NEW s \in Seq(Char), NEW d, NEW n \in 0..Len(s), NEW from, Since(s, d, from, n),
         NEW words, Found(words, s, Ended(s, d, from))
  PROVE  Found(words \o Str!Token(s, from, n), s, Ended(s, d, from) \cup Open(from, n))
<1>0. Len(s) \in Nat /\ n \in Nat /\ from \in Nat
  BY DEF Since
<1>1. PICK p : InOrder(p) /\ Places(p) = Ended(s, d, from) /\ words = Cut(s, p)
  BY DEF Found
<1>2. CASE from > n
  <2>1. Open(from, n) = {} /\ Str!Token(s, from, n) = <<>>
    BY <1>0, <1>2 DEF Open, Str!Token
  <2>2. words \o <<>> = words
    <3> DEFINE S == {SubSeq(s, p[k][1], p[k][2]) : k \in 1..Len(p)}
    <3>1. Cut(s, p) \in [1..Len(p) -> S]
      BY DEF Cut
    <3>2. p \in Seq(Nat \X Nat)
      BY <1>1 DEF InOrder
    <3>3. Len(p) \in Nat
      BY <3>2
    <3> HIDE DEF S
    <3>4. words \in Seq(S)
      BY <1>1, <3>1, <3>3, FunctionIsSeq
    <3>5. QED
      BY <3>4
  <2>3. QED
    BY <1>1, <2>1, <2>2 DEF Found
<1>3. CASE ~(from > n)
  <2>1. Open(from, n) = {<<from, n>>} /\ Str!Token(s, from, n) = <<SubSeq(s, from, n)>>
    BY <1>0, <1>3 DEF Open, Str!Token
  <2>2. \A k \in 1..Len(p) : p[k][1] < from
    <3>1. \A k \in 1..Len(p) : p[k] \in Ended(s, d, from)
      BY <1>1 DEF Places
    <3>2. \A r \in Ended(s, d, from) : r[1] < from
      BY <1>0 DEF Ended
    <3>3. QED
      BY <3>1, <3>2
  <2>3. /\ InOrder(Append(p, <<from, n>>))
        /\ Places(Append(p, <<from, n>>)) = Places(p) \cup {<<from, n>>}
        /\ Cut(s, Append(p, <<from, n>>)) = Cut(s, p) \o <<SubSeq(s, from, n)>>
    BY <1>0, <1>1, <2>2, OneMore
  <2>4. QED
    BY <1>1, <2>1, <2>3 DEF Found
<1>4. QED
  BY <1>2, <1>3

\* strtok's scan, up to each place.
Scanning(f, s, d) ==
  f = [n \in 0..Len(s) |->
         IF n = 0 THEN [found |-> <<>>, from |-> 1]
         ELSE IF s[n] # d THEN f[n - 1]
         ELSE [found |-> f[n - 1].found \o Str!Token(s, f[n - 1].from, n - 1), from |-> n + 1]]

LEMMA ScanExists ==
  ASSUME NEW s \in Seq(Char), NEW d
  PROVE  Scanning(Str!Scan(s, d), s, d)
<1> DEFINE S == [found : Seq(Seq(Char)), from : Nat \ {0}]
           Next_(u, n) == IF s[n] # d THEN u
                          ELSE [found |-> u.found \o Str!Token(s, u.from, n - 1), from |-> n + 1]
           step == [n \in 1..Len(s) |-> [u \in S |-> Next_(u, n)]]
           first == [found |-> <<>>, from |-> 1]
<1>0. Len(s) \in Nat
  OBVIOUS
<1>1. first \in S
  <2>1. <<>> \in Seq(Seq(Char))
    OBVIOUS
  <2>2. QED
    BY <2>1
<1>2. \A n \in 1..Len(s), u \in S : Next_(u, n) \in S
  <2> SUFFICES ASSUME NEW n \in 1..Len(s), NEW u \in S PROVE Next_(u, n) \in S
    OBVIOUS
  <2>1. Str!Token(s, u.from, n - 1) \in Seq(Seq(Char))
    <3>1. CASE u.from > n - 1
      BY <3>1 DEF Str!Token
    <3>2. CASE ~(u.from > n - 1)
      <4>1. u.from \in 1..Len(s) /\ n - 1 \in 1..Len(s)
        BY <1>0, <3>2
      <4>2. SubSeq(s, u.from, n - 1) \in Seq(Char)
        BY <4>1
      <4>3. QED
        BY <3>2, <4>2 DEF Str!Token
    <3>3. QED
      BY <3>1, <3>2
  <2>2. u.found \o Str!Token(s, u.from, n - 1) \in Seq(Seq(Char))
    BY <2>1
  <2>3. n + 1 \in Nat \ {0}
    BY <1>0
  <2>4. QED
    BY <2>2, <2>3
<1>3. step \in [1..Len(s) -> [S -> S]]
  <2> HIDE DEF Next_, S
  <2>1. QED
    BY <1>2
<1>4. PICK g \in [0..Len(s) -> S] : Iterates(g, Len(s), first, step)
  <2> HIDE DEF step, first, S
  <2>1. QED
    BY <1>0, <1>1, <1>3, Iterated
<1>5. Scanning(g, s, d)
  <2> HIDE DEF S, first
  <2>1. \A n \in 0..Len(s) : n # 0 => n \in 1..Len(s) /\ g[n - 1] \in S
    <3>1. \A n \in 0..Len(s) : n # 0 => n \in 1..Len(s) /\ n - 1 \in 0..Len(s)
      BY <1>0
    <3> HIDE DEF step
    <3>2. QED
      BY <3>1
  <2>2. \A n \in 0..Len(s) : n # 0 => step[n][g[n - 1]] = Next_(g[n - 1], n)
    <3> HIDE DEF Next_
    <3>1. QED
      BY <2>1
  <2> HIDE DEF step, Next_
  <2>3. g = [n \in 0..Len(s) |-> IF n = 0 THEN first ELSE step[n][g[n - 1]]]
    BY <1>4 DEF Iterates
  <2>4. \A n \in 0..Len(s) : g[n] = IF n = 0 THEN first ELSE Next_(g[n - 1], n)
    BY <2>2, <2>3
  <2>5. g = [n \in 0..Len(s) |-> g[n]]
    BY <2>3
  <2>6. g = [n \in 0..Len(s) |-> IF n = 0 THEN first ELSE Next_(g[n - 1], n)]
    BY <2>4, <2>5
  <2>7. QED
    BY <2>6 DEF Scanning, first, Next_
<1>6. Str!Scan(s, d) = CHOOSE f : Scanning(f, s, d)
  BY DEF Str!Scan, Scanning
<1>7. QED
  BY <1>5, <1>6

\* strtok finds what lies at the places of the pieces, from left to right.
LEMMA TokensAreFound ==
  ASSUME NEW s \in Seq(Char), NEW d
  PROVE  Found(Str!strtok(s, d), s, Str!Inside(s, {d}))
<1> DEFINE f == Str!Scan(s, d)
           Good == {n \in Nat : n <= Len(s) => /\ Since(s, d, f[n].from, n)
                                               /\ Found(f[n].found, s, Ended(s, d, f[n].from))}
<1>0. Len(s) \in Nat
  OBVIOUS
<1>1. Scanning(f, s, d)
  BY ScanExists
<1> HIDE DEF f
<1>2. /\ f[0] = [found |-> <<>>, from |-> 1]
      /\ \A n \in 0 .. Len(s) - 1 :
           f[n + 1] = IF s[n + 1] # d THEN f[n]
                      ELSE [found |-> f[n].found \o Str!Token(s, f[n].from, n), from |-> n + 2]
  <2>1. 0 \in 0..Len(s)
    BY <1>0
  <2>2. \A n \in 0 .. Len(s) - 1 : /\ n + 1 \in 0..Len(s) /\ n + 1 # 0
                                   /\ (n + 1) - 1 = n /\ (n + 1) + 1 = n + 2
    BY <1>0
  <2> DEFINE At(n) == IF n = 0 THEN [found |-> <<>>, from |-> 1]
                      ELSE IF s[n] # d THEN f[n - 1]
                      ELSE [found |-> f[n - 1].found \o Str!Token(s, f[n - 1].from, n - 1),
                            from |-> n + 1]
  <2>3. \A n \in 0..Len(s) : f[n] = At(n)
    <3>1. f = [n \in 0..Len(s) |-> At(n)]
      BY <1>1 DEF Scanning
    <3> HIDE DEF At
    <3>2. QED
      BY <3>1
  <2>4. f[0] = [found |-> <<>>, from |-> 1]
    BY <2>1, <2>3
  <2>5. ASSUME NEW n \in 0 .. Len(s) - 1
        PROVE  f[n + 1] = IF s[n + 1] # d THEN f[n]
                          ELSE [found |-> f[n].found \o Str!Token(s, f[n].from, n),
                                from |-> n + 2]
    <3>1. f[n + 1] = At(n + 1) /\ n + 1 # 0 /\ (n + 1) - 1 = n /\ (n + 1) + 1 = n + 2
      <4> HIDE DEF At
      <4>1. QED
        BY <2>2, <2>3
    <3>2. QED
      BY <3>1, Zenon
  <2>6. QED
    BY <2>4, <2>5
<1>3. 0 \in Good
  <2>1. f[0].from = 1 /\ f[0].found = <<>>
    BY <1>2
  <2>2. Since(s, d, 1, 0)
    BY DEF Since
  <2>3. Ended(s, d, 1) = {}
    BY <1>0 DEF Ended
  <2>4. Found(<<>>, s, {})
    <3>1. <<>> \in Seq(Nat \X Nat) /\ Len(<<>>) = 0 /\ 1..0 = {}
      OBVIOUS
    <3>2. InOrder(<<>>) /\ Places(<<>>) = {} /\ Cut(s, <<>>) = <<>>
      BY <3>1 DEF InOrder, Places, Cut
    <3>3. QED
      BY <3>2 DEF Found
  <2>5. QED
    BY <2>1, <2>2, <2>3, <2>4
<1>4. ASSUME NEW n \in Nat, n \in Good PROVE n + 1 \in Good
  <2> SUFFICES ASSUME n + 1 <= Len(s)
               PROVE  /\ Since(s, d, f[n + 1].from, n + 1)
                      /\ Found(f[n + 1].found, s, Ended(s, d, f[n + 1].from))
    OBVIOUS
  <2> DEFINE from == f[n].from
             words == f[n].found
  <2>0. n \in 0 .. Len(s) - 1 /\ n \in 0..Len(s)
    BY <1>0
  <2>1. Since(s, d, from, n) /\ Found(words, s, Ended(s, d, from))
    BY <1>0, <1>4
  <2>2. CASE s[n + 1] # d
    <3>1. f[n + 1].from = from /\ f[n + 1].found = words
      BY <1>2, <2>0, <2>2
    <3> HIDE DEF from, words
    <3>2. \A i \in from .. n + 1 : i \in from..n \/ i = n + 1
      BY <2>0, <2>1 DEF Since
    <3>3. Since(s, d, from, n + 1)
      BY <2>0, <2>1, <2>2, <3>2 DEF Since
    <3>4. QED
      BY <2>1, <3>1, <3>3
  <2>3. CASE s[n + 1] = d
    <3>1. f[n + 1].from = n + 2 /\ f[n + 1].found = words \o Str!Token(s, from, n)
      <4> DEFINE longer == words \o Str!Token(s, from, n)
      <4>1. f[n + 1] = [found |-> longer, from |-> n + 2]
        BY <1>2, <2>0, <2>3, Zenon
      <4> HIDE DEF longer
      <4>2. f[n + 1].from = n + 2 /\ f[n + 1].found = longer
        BY <4>1
      <4>3. QED
        BY <4>2 DEF longer
    <3> HIDE DEF from, words
    <3>2. Ended(s, d, n + 2) = Ended(s, d, from) \cup Open(from, n)
      BY <2>0, <2>1, <2>3, EndedGrows
    <3>3. Found(words \o Str!Token(s, from, n), s, Ended(s, d, n + 2))
      BY <2>0, <2>1, <3>2, OneMoreFound
    <3>4. Since(s, d, n + 2, n + 1)
      <4>1. (n + 2) - 1 = n + 1 /\ n + 2 \in 1 .. (n + 1) + 1 /\ (n + 2) .. (n + 1) = {}
        BY <2>0
      <4>2. QED
        BY <2>3, <4>1 DEF Since
    <3>5. QED
      BY <3>1, <3>3, <3>4
  <2>4. QED
    BY <2>2, <2>3
<1>5. Len(s) \in Good
  <2> HIDE DEF Good
  <2>1. QED
    BY <1>0, <1>3, <1>4, Climb
<1> DEFINE from == f[Len(s)].from
           words == f[Len(s)].found
<1>6. Since(s, d, from, Len(s)) /\ Found(words, s, Ended(s, d, from))
  BY <1>0, <1>5
<1>7. Str!strtok(s, d) = words \o Str!Token(s, from, Len(s))
  BY DEF Str!strtok, f
<1> HIDE DEF from, words
<1>8. QED
  <2>1. Len(s) \in 0..Len(s)
    BY <1>0
  <2>2. QED
    BY <1>6, <1>7, <2>1, OneMoreFound, InsideIs

\* strtok finds the longest pieces without the delimiter.
LEMMA TokensArePieces ==
  ASSUME NEW s \in Seq(Char), NEW d
  PROVE  Str!strtok(s, d) = Str!Pieces(s, {d})
<1>1. PICK p : InOrder(p) /\ Places(p) = Str!Inside(s, {d}) /\ Str!strtok(s, d) = Cut(s, p)
  BY TokensAreFound DEF Found
<1>2. QED
  BY <1>1, PiecesAre

\* The first and the last of a set of places.
LEMMA FirstAndLast ==
  ASSUME NEW n \in Nat, NEW S \in SUBSET (0..n), S # {}
  PROVE  /\ Str!Min(S) \in S /\ \A j \in S : Str!Min(S) <= j
         /\ Str!Max(S) \in S /\ \A j \in S : j <= Str!Max(S)
<1>1. \E i \in S : \A j \in S : i <= j
  <2>1. S \in SUBSET Nat
    OBVIOUS
  <2>2. QED
    BY <2>1, LeastOf
<1>2. \E i \in S : \A j \in S : i >= j
  <2> DEFINE T == {n - i : i \in S}
  <2>0. \A i \in S : i \in 0..n
    OBVIOUS
  <2>1. T \in SUBSET Nat /\ T # {}
    <3>1. \A i \in S : n - i \in Nat
      BY <2>0
    <3>2. QED
      BY <3>1
  <2>2. PICK k \in T : \A j \in T : k <= j
    <3> HIDE DEF T
    <3>1. QED
      BY <2>1, LeastOf
  <2>3. PICK i \in S : k = n - i
    OBVIOUS
  <2>4. \A j \in S : n - i <= n - j
    BY <2>2, <2>3
  <2>5. \A j \in S : j \in Nat /\ i \in Nat /\ i >= j
    BY <2>0, <2>4
  <2>6. QED
    BY <2>5
<1>3. Str!Min(S) = CHOOSE i \in S : \A j \in S : i <= j
  BY DEF Str!Min
<1>4. Str!Max(S) = CHOOSE i \in S : \A j \in S : i >= j
  BY DEF Str!Max
<1>5. \A j \in S : j \in Nat
  OBVIOUS
<1>6. QED
  BY <1>1, <1>2, <1>3, <1>4, <1>5

\* string_space_trim takes the white space at both ends.
LEMMA TrimIsTrimmed ==
  ASSUME NEW s \in Seq(Char)
  PROVE  Str!string_space_trim(s) = Str!Trimmed(s) /\ Str!Trimmed(s) \in Seq(Char)
<1> DEFINE black == {i \in DOMAIN s : s[i] \notin Str!Space}
           ends == {i \in DOMAIN s : i = 1 \/ s[i] \notin Str!Space}
           end == Str!Max(ends)
           starts == {i \in 1 .. end + 1 : i > end \/ s[i] \notin Str!Space}
           start == Str!Min(starts)
<1>0. Len(s) \in Nat /\ DOMAIN s = 1..Len(s)
  OBVIOUS
<1>1. /\ Str!string_space_trim(s) = IF s = <<>> THEN s ELSE SubSeq(s, start, end)
      /\ Str!Trimmed(s) = IF black = {} THEN <<>> ELSE SubSeq(s, Str!Min(black), Str!Max(black))
  BY DEF Str!string_space_trim, Str!Trimmed
<1>2. CASE s = <<>>
  <2>1. black = {}
    BY <1>2
  <2> HIDE DEF black, ends, end, starts, start
  <2>2. QED
    BY <1>1, <1>2, <2>1
<1>3. CASE s # <<>>
  <2>1. 1 \in DOMAIN s /\ Len(s) >= 1
    BY <1>0, <1>3
  <2>2. ends \in SUBSET (0..Len(s)) /\ 1 \in ends /\ black \in SUBSET (0..Len(s))
        /\ black \subseteq ends
    BY <1>0, <2>1
  <2>3. end \in ends /\ \A j \in ends : j <= end
    <3> HIDE DEF ends
    <3>1. ends # {}
      BY <2>2
    <3>2. QED
      BY <1>0, <2>2, <3>1, FirstAndLast
  <2> HIDE DEF end
  <2>4. end \in 1..Len(s) /\ end \in Nat
    BY <1>0, <2>3
  <2>5. starts \in SUBSET (0 .. end + 1) /\ end + 1 \in starts /\ end + 1 \in Nat
    BY <2>4
  <2>6. start \in starts /\ \A j \in starts : start <= j
    <3> HIDE DEF starts
    <3>1. starts # {}
      BY <2>5
    <3>2. QED
      BY <2>5, <3>1, FirstAndLast
  <2> HIDE DEF start
  <2>7. CASE black = {}
    <3>1. end = 1
      BY <1>0, <2>3, <2>7
    <3>2. start = 2
      <4>1. s[1] \in Str!Space
        BY <2>1, <2>7
      <4>2. \A j \in starts : j = 2
        BY <3>1, <4>1
      <4>3. QED
        BY <2>6, <4>2
    <3>3. SubSeq(s, 2, 1) = <<>>
      BY <1>0
    <3> HIDE DEF black
    <3>4. QED
      BY <1>1, <1>3, <2>7, <3>1, <3>2, <3>3
  <2>8. CASE black # {}
    <3>1. /\ Str!Min(black) \in black /\ \A j \in black : Str!Min(black) <= j
          /\ Str!Max(black) \in black /\ \A j \in black : j <= Str!Max(black)
      <4> HIDE DEF black
      <4>1. QED
        BY <1>0, <2>2, <2>8, FirstAndLast
    <3> DEFINE first == Str!Min(black)
               last == Str!Max(black)
    <3> HIDE DEF first, last
    <3>2. first \in black /\ last \in black /\ \A j \in black : first <= j /\ j <= last
      BY <3>1 DEF first, last
    <3>3. end = last
      <4>1. last \in ends /\ last \in Nat /\ last <= end
        BY <1>0, <2>3, <3>2
      <4>2. end \in black
        <5>1. CASE end = 1
          <6>1. last = 1
            BY <1>0, <2>4, <3>2, <4>1, <5>1
          <6>2. QED
            BY <3>2, <5>1, <6>1
        <5>2. CASE end # 1
          BY <2>3, <5>2
        <5>3. QED
          BY <5>1, <5>2
      <4>3. QED
        BY <2>4, <3>2, <4>1, <4>2
    <3>4. start = first
      <4>1. first \in starts /\ first \in Nat
        BY <1>0, <2>4, <3>2, <3>3
      <4>2. start <= first /\ first <= end /\ start \in Nat
        BY <2>4, <2>6, <3>2, <3>3, <4>1
      <4>3. start \in black
        BY <1>0, <2>4, <2>6, <4>1, <4>2
      <4>4. QED
        BY <3>2, <4>1, <4>2, <4>3
    <3>5. SubSeq(s, first, last) \in Seq(Char)
      <4>1. first \in 1..Len(s) /\ last \in 1..Len(s)
        BY <1>0, <3>2
      <4>2. QED
        BY <4>1
    <3> HIDE DEF black
    <3>6. QED
      BY <1>1, <1>3, <2>8, <3>3, <3>4, <3>5 DEF first, last
  <2>9. QED
    BY <2>7, <2>8
<1>4. QED
  BY <1>2, <1>3

\* A token is not empty, and has no delimiter in it.
Undelimited(d) == {l \in Seq(Char) : l # <<>> /\ \A i \in 1..Len(l) : l[i] # d}

LEMMA TokensUndelimited ==
  ASSUME NEW s \in Seq(Char), NEW d
  PROVE  Str!strtok(s, d) \in Seq(Undelimited(d))
<1>0. Len(s) \in Nat /\ DOMAIN s = 1..Len(s)
  OBVIOUS
<1>1. PICK p : InOrder(p) /\ Places(p) = Str!Inside(s, {d}) /\ Str!strtok(s, d) = Cut(s, p)
  BY TokensAreFound DEF Found
<1>2. Len(p) \in Nat
  BY <1>1 DEF InOrder
<1>3. ASSUME NEW k \in 1..Len(p) PROVE SubSeq(s, p[k][1], p[k][2]) \in Undelimited(d)
  <2> DEFINE i == p[k][1]
             j == p[k][2]
             l == SubSeq(s, i, j)
  <2>1. p[k] \in Str!Inside(s, {d})
    BY <1>1 DEF Places
  <2>2. p[k] \in (1..Len(s)) \X (1..Len(s)) /\ i <= j /\ \A m \in i..j : s[m] # d
    BY <1>0, <2>1 DEF Str!Inside
  <2>3. i \in 1..Len(s) /\ j \in 1..Len(s)
    BY <2>2
  <2> HIDE DEF i, j
  <2>4. /\ l \in Seq(Char) /\ Len(l) = j - i + 1 /\ Len(l) > 0
        /\ \A m \in 1..Len(l) : l[m] = s[i + m - 1]
    BY <1>0, <2>2, <2>3
  <2> HIDE DEF l
  <2>5. \A m \in 1..Len(l) : i + m - 1 \in i..j
    BY <2>3, <2>4
  <2>6. l # <<>>
    BY <2>4
  <2>7. l \in Undelimited(d)
    BY <2>2, <2>4, <2>5, <2>6 DEF Undelimited
  <2>8. QED
    BY <2>7 DEF l, i, j
<1>4. Cut(s, p) \in [1..Len(p) -> Undelimited(d)]
  BY <1>3 DEF Cut
<1>5. QED
  BY <1>1, <1>2, <1>4, FunctionIsSeq

LEMMA TokensType ==
  ASSUME NEW s \in Seq(Char), NEW d
  PROVE  Str!strtok(s, d) \in Seq(Seq(Char))
<1>1. Undelimited(d) \subseteq Seq(Char)
  BY DEF Undelimited
<1>2. Str!strtok(s, d) \in Seq(Undelimited(d))
  BY TokensUndelimited
<1>3. QED
  BY <1>1, <1>2

\* The entries of the array are text, and those that the last call has returned are
\* the words of its line.
TextInv == /\ tokens \in [1..MAX_CMD_TREE_DEPTH -> Seq(Char)]
           /\ TokensAreWords

LEMMA TextInitially == ASSUME Str!Init PROVE TextInv
<1>1. call.fn = "none"
  BY DEF Str!Init, Str!Call
<1>2. tokens \in [1..MAX_CMD_TREE_DEPTH -> Seq(Char)]
  BY DEF Str!Init
<1>3. "none" # "tokenizer"
  OBVIOUS
<1>4. QED
  BY <1>1, <1>2, <1>3 DEF TextInv, TokensAreWords, Str!TokensAreWords

\* The entries that are kept are all of them, or as many as there are words.
LEMMA Kept ==
  ASSUME NEW m \in Nat, NEW n \in Nat
  PROVE  IF m > n THEN Str!Min({m, n}) = n ELSE Str!Min({m, n}) = m
<1>1. {m, n} \in SUBSET (0 .. m + n) /\ {m, n} # {} /\ m + n \in Nat
  OBVIOUS
<1>2. Str!Min({m, n}) \in {m, n} /\ \A j \in {m, n} : Str!Min({m, n}) <= j
  BY <1>1, FirstAndLast
<1>3. QED
  BY <1>2

\* A call of tokenizer.
LEMMA TextTokenized ==
  ASSUME tokens \in [1..MAX_CMD_TREE_DEPTH -> Seq(Char)],
         NEW s \in LineText, call' = Str!Call("tokenizer", s, <<>>, <<>>), Str!tokenizer(s)
  PROVE  TextInv'
<1> DEFINE N == MAX_CMD_TREE_DEPTH
           words == Str!strtok(Str!string_space_trim(s), Blank)
           kept == Str!Min({Len(words), N})
<1>1. s \in Seq(Char) /\ N \in Nat
  BY TextAssumption
<1>2. words = Str!Pieces(Str!Trimmed(s), {Blank}) /\ words \in Seq(Seq(Char))
  BY <1>1, TrimIsTrimmed, TokensArePieces, TokensType
<1>3. /\ broken' = (Len(words) > N \/ \E i \in 1..kept : Str!TooWide(words[i]))
      /\ tokens' = [i \in DOMAIN tokens |->
                      IF Len(words) > N THEN <<>>
                      ELSE IF i <= kept THEN Str!Untokenized(tokens[i], words[i]) ELSE tokens[i]]
      /\ result' = IF Len(words) > N THEN <<>> ELSE SubSeq(tokens', 1, kept)
  BY DEF Str!tokenizer
<1>4. call'.fn = "tokenizer" /\ call'.string = s
  BY DEF Str!Call
<1> HIDE DEF words, N
<1>5. Len(words) \in Nat /\ DOMAIN words = 1..Len(words)
  BY <1>2
<1>6. DOMAIN tokens = 1..N
  BY DEF N
<1>7. IF Len(words) > N THEN kept = N ELSE kept = Len(words)
  BY <1>1, <1>5, Kept
<1> HIDE DEF kept
<1>8. CASE Len(words) > N
  <2>1. broken' = TRUE
    BY <1>3, <1>8
  <2>2. tokens' \in [1..N -> Seq(Char)]
    <3>1. tokens' = [i \in 1..N |-> <<>>]
      BY <1>3, <1>6, <1>8
    <3>2. <<>> \in Seq(Char)
      OBVIOUS
    <3>3. QED
      BY <3>1, <3>2
  <2>3. QED
    BY <1>2, <1>4, <1>8, <2>1, <2>2 DEF TextInv, TokensAreWords, Str!TokensAreWords, N
<1>9. CASE ~(Len(words) > N)
  <2>1. kept = Len(words) /\ kept \in Nat /\ kept <= N
    BY <1>1, <1>5, <1>7, <1>9
  <2>2. tokens' = [i \in 1..N |-> IF i <= kept THEN words[i] ELSE tokens[i]]
    BY <1>3, <1>6, <1>9 DEF Str!Untokenized
  <2>3. tokens' \in [1..N -> Seq(Char)]
    <3>1. \A i \in 1..N : i <= kept => words[i] \in Seq(Char)
      BY <1>2, <2>1
    <3>2. \A i \in 1..N : tokens[i] \in Seq(Char)
      BY DEF N
    <3>3. QED
      BY <2>2, <3>1, <3>2
  <2>4. result' = words
    <3>1. tokens' \in Seq(Seq(Char)) /\ Len(tokens') = N
      BY <1>1, <2>3, FunctionIsSeq
    <3>2. \A i \in 1..kept : tokens'[i] = words[i]
      <4>1. \A i \in 1..kept : i \in 1..N /\ i <= kept
        BY <1>1, <2>1
      <4>2. QED
        BY <2>2, <4>1
    <3>3. result' = SubSeq(tokens', 1, kept)
      BY <1>3, <1>9
    <3>4. Len(result') = kept /\ (\A i \in 1..kept : result'[i] = tokens'[i])
          /\ result' \in Seq(Seq(Char))
      BY <1>1, <2>1, <3>1, <3>3
    <3>5. result' = [i \in 1..kept |-> result'[i]] /\ words = [i \in 1..kept |-> words[i]]
      <4>1. ASSUME NEW q \in Seq(Seq(Char)), Len(q) = kept PROVE q = [i \in 1..kept |-> q[i]]
        BY <4>1
      <4>2. Len(result') = kept /\ result' \in Seq(Seq(Char))
        BY <3>4
      <4>3. QED
        BY <1>2, <2>1, <4>1, <4>2
    <3>6. \A i \in 1..kept : result'[i] = words[i]
      BY <3>2, <3>4
    <3>7. QED
      BY <3>5, <3>6
  <2>5. broken' = (\/ Len(words) > N
                   \/ \E i \in DOMAIN words : Str!TooWide(words[i]))
    BY <1>3, <1>5, <2>1
  <2>6. QED
    BY <1>2, <1>4, <2>3, <2>4, <2>5 DEF TextInv, TokensAreWords, Str!TokensAreWords, N
<1>10. QED
  BY <1>8, <1>9

\* No step of the strings gives other tokens than the words.
LEMMA TextKept == ASSUME TextInv, Str!Next PROVE TextInv'
<1>0. tokens \in [1..MAX_CMD_TREE_DEPTH -> Seq(Char)]
  BY DEF TextInv
<1>1. CASE Str!Tokenize
  BY <1>0, <1>1, TextTokenized DEF Str!Tokenize
<1>2. ASSUME NEW c, NEW r, Str!Once(c, r), c.fn # "tokenizer" PROVE TextInv'
  <2>1. call' = c /\ tokens' = tokens
    BY <1>2 DEF Str!Once
  <2>2. QED
    BY <1>0, <1>2, <2>1 DEF TextInv, TokensAreWords, Str!TokensAreWords
<1>3. CASE Str!Replace
  <2>1. PICK s, sub, new : Str!Once(Str!Call("replace", s, sub, new),
                                    Str!replaceSubstring(s, sub, new))
    BY <1>3, Zenon DEF Str!Replace
  <2>2. Str!Call("replace", s, sub, new).fn # "tokenizer"
    BY DEF Str!Call
  <2>3. QED
    BY <1>2, <2>1, <2>2, Zenon
<1>4. CASE Str!Grep
  <2>1. PICK s, p : Str!Once(Str!Call("grep", s, p, <<>>), Str!grep(s, p))
    BY <1>4, Zenon DEF Str!Grep
  <2>2. Str!Call("grep", s, p, <<>>).fn # "tokenizer"
    BY DEF Str!Call
  <2>3. QED
    BY <1>2, <2>1, <2>2, Zenon
<1>5. CASE Str!Fetch
  <2>1. PICK s, k : Str!Once(Str!Call("fetch", s, <<>>, [i \in 1..k |-> Blank]),
                             Str!string_fetch_integer(s, k))
    BY <1>5, Zenon DEF Str!Fetch
  <2>2. Str!Call("fetch", s, <<>>, [i \in 1..k |-> Blank]).fn # "tokenizer"
    BY DEF Str!Call
  <2>3. QED
    BY <1>2, <2>1, <2>2, Zenon
<1>6. QED
  BY <1>1, <1>3, <1>4, <1>5 DEF Str!Next

\* What tokenizer puts into the array are the words of the line, whatever the lines
\* before it have left there: for every alphabet, line and size of the array.
THEOREM TokensAreTheWords == StructuresSpec => []TokensAreWords
<1>1. StructuresInit => TextInv
  BY TextInitially DEF StructuresInit
<1>2. TextInv /\ [StructuresNext]_<<vars, glue, ser, str>> => TextInv'
  <2>1. ASSUME TextInv, UNCHANGED str PROVE TextInv'
    BY <2>1 DEF TextInv, TokensAreWords, Str!TokensAreWords, str
  <2>2. ASSUME TextInv, [StructuresNext]_<<vars, glue, ser, str>>
        PROVE  Str!Next \/ UNCHANGED str
    BY <2>2 DEF StructuresNext, RingStep, ListStep, BufferStep, StringStep
  <2>3. QED
    BY <2>1, <2>2, TextKept
<1>3. TextInv => TokensAreWords
  BY DEF TextInv
<1>4. QED
  BY <1>1, <1>2, <1>3, PTL DEF StructuresSpec

-----------------------------------------------------------------------------
\* What is selected is of the type of what it is selected from.
LEMMA SelectedType ==
  ASSUME NEW T, NEW q \in Seq(T), NEW S
  PROVE  Str!Selected(q, S) \in Seq(T)
<1> DEFINE n == Len(q)
           step == [k \in 1..n |-> [u \in Seq(T) |-> IF q[k] \in S THEN Append(u, q[k]) ELSE u]]
           Is(f) == f = [k \in 0..n |-> IF k = 0 THEN <<>>
                                        ELSE IF q[k] \in S THEN Append(f[k - 1], q[k])
                                        ELSE f[k - 1]]
<1>0. n \in Nat /\ <<>> \in Seq(T) /\ \A k \in 1..n : q[k] \in T
  OBVIOUS
<1>1. step \in [1..n -> [Seq(T) -> Seq(T)]]
  BY <1>0
<1>2. PICK g \in [0..n -> Seq(T)] : Iterates(g, n, <<>>, step)
  <2> HIDE DEF step, n
  <2>1. QED
    BY <1>0, <1>1, Iterated
<1> HIDE DEF n
<1>3. Is(g)
  <2>1. \A k \in 0..n : k # 0 => k \in 1..n /\ k - 1 \in 0..n
    BY <1>0
  <2>2. \A k \in 0..n : k # 0 => g[k - 1] \in Seq(T)
    BY <2>1
  <2>3. \A k \in 0..n : k # 0 => step[k][g[k - 1]] = IF q[k] \in S THEN Append(g[k - 1], q[k])
                                                     ELSE g[k - 1]
    BY <2>1, <2>2
  <2> HIDE DEF step
  <2>4. g = [k \in 0..n |-> IF k = 0 THEN <<>> ELSE step[k][g[k - 1]]]
    BY <1>2 DEF Iterates
  <2>5. \A k \in 0..n : g[k] = IF k = 0 THEN <<>>
                               ELSE IF q[k] \in S THEN Append(g[k - 1], q[k]) ELSE g[k - 1]
    BY <2>3, <2>4
  <2>6. QED
    BY <2>5
<1> HIDE DEF step
<1>4. \A f : Is(f) => f \in [0..n -> Seq(T)]
  <2> SUFFICES ASSUME NEW f, Is(f) PROVE f \in [0..n -> Seq(T)]
    OBVIOUS
  <2> DEFINE Good == {k \in Nat : k <= n => f[k] \in Seq(T)}
  <2>1. \A k \in 0..n : f[k] = IF k = 0 THEN <<>>
                               ELSE IF q[k] \in S THEN Append(f[k - 1], q[k]) ELSE f[k - 1]
    BY Zenon
  <2>2. 0 \in Good
    BY <1>0, <2>1
  <2>3. ASSUME NEW k \in Nat, k \in Good PROVE k + 1 \in Good
    <3> SUFFICES ASSUME k + 1 <= n PROVE f[k + 1] \in Seq(T)
      OBVIOUS
    <3>1. f[k] \in Seq(T) /\ k + 1 \in 1..n /\ k + 1 \in 0..n /\ k + 1 # 0 /\ (k + 1) - 1 = k
      BY <1>0, <2>3
    <3>2. f[k + 1] = IF q[k + 1] \in S THEN Append(f[k], q[k + 1]) ELSE f[k]
      BY <2>1, <3>1
    <3>3. q[k + 1] \in T
      BY <1>0, <3>1
    <3>4. Append(f[k], q[k + 1]) \in Seq(T)
      BY <3>1, <3>3
    <3>5. QED
      BY <3>1, <3>2, <3>4, Zenon
  <2>4. \A k \in Nat : k \in Good
    <3> HIDE DEF Good
    <3>1. QED
      BY <2>2, <2>3, Climb
  <2>5. \A k \in 0..n : f[k] \in Seq(T)
    <3> SUFFICES ASSUME NEW k \in 0..n PROVE f[k] \in Seq(T)
      OBVIOUS
    <3>1. k \in Nat /\ k <= n
      BY <1>0
    <3>2. k \in Good
      <4> HIDE DEF Good
      <4>1. QED
        BY <2>4, <3>1
    <3>3. QED
      BY <3>1, <3>2
  <2>6. f = [k \in 0..n |-> f[k]]
    BY Zenon
  <2>7. QED
    BY <2>5, <2>6
<1>5. Str!Selected(q, S) = (CHOOSE f : Is(f))[n]
  BY DEF Str!Selected, n
<1> HIDE DEF Is
<1>6. QED
  BY <1>0, <1>3, <1>4, <1>5

\* The texts joined, up to each of them.
Joining(f, q) == f = [i \in 1..Len(q) |-> IF i = 1 THEN q[i] ELSE f[i - 1] \o q[i]]

LEMMA JoinExists ==
  ASSUME NEW S, NEW q \in Seq(Seq(S)), q # <<>>
  PROVE  \E f \in [1..Len(q) -> Seq(S)] :
           Joining(f, q) /\ f[Len(q)] = Str!FlattenSeq(q)
<1> DEFINE n == Len(q)
           step == [k \in 1..n |-> [u \in Seq(S) |-> u \o q[k]]]
<1>0. n \in Nat /\ n # 0 /\ <<>> \in Seq(S) /\ \A k \in 1..n : q[k] \in Seq(S)
  OBVIOUS
<1>1. step \in [1..n -> [Seq(S) -> Seq(S)]]
  BY <1>0
<1> HIDE DEF n
<1>2. PICK h \in [0..n -> Seq(S)] : Iterates(h, n, <<>>, step)
  <2> HIDE DEF step
  <2>1. QED
    BY <1>0, <1>1, Iterated
<1>3. \A k \in 1..n : h[k] = h[k - 1] \o q[k]
  <2>1. \A k \in 1..n : k \in 0..n /\ k # 0 /\ k - 1 \in 0..n
    BY <1>0
  <2>2. \A k \in 1..n : h[k - 1] \in Seq(S)
    BY <2>1
  <2>3. \A k \in 1..n : step[k][h[k - 1]] = h[k - 1] \o q[k]
    BY <2>2
  <2> HIDE DEF step
  <2>4. \A k \in 0..n : h[k] = IF k = 0 THEN <<>> ELSE step[k][h[k - 1]]
    BY <1>2 DEF Iterates
  <2>5. QED
    BY <2>1, <2>3, <2>4
<1>4. h[0] = <<>>
  <2>1. \A k \in 0..n : h[k] = IF k = 0 THEN <<>> ELSE step[k][h[k - 1]]
    BY <1>2 DEF Iterates
  <2> HIDE DEF step
  <2>2. 0 \in 0..n
    BY <1>0
  <2>3. QED
    BY <2>1, <2>2
<1> DEFINE g == [k \in 1..n |-> h[k]]
<1>5. g \in [1..n -> Seq(S)]
  BY <1>0
<1>6. \A i \in 1..n : g[i] = IF i = 1 THEN q[i] ELSE g[i - 1] \o q[i]
  <2>1. \A i \in 1..n : i = 1 => i - 1 = 0
    OBVIOUS
  <2>2. \A i \in 1..n : i # 1 => i - 1 \in 1..n
    BY <1>0
  <2>3. \A i \in 1..n : <<>> \o q[i] = q[i]
    BY <1>0
  <2>4. QED
    BY <1>3, <1>4, <2>1, <2>2, <2>3
<1>7. Joining(g, q)
  <2>1. g = [i \in 1..n |-> g[i]]
    OBVIOUS
  <2> HIDE DEF g
  <2>2. QED
    BY <1>6, <2>1 DEF Joining, n
<1> DEFINE f == CHOOSE f : Joining(f, q)
<1>8. Joining(f, q)
  <2> HIDE DEF g
  <2>1. QED
    BY <1>7
<1>9. Str!FlattenSeq(q) = f[n]
  BY <1>0 DEF Str!FlattenSeq, Joining, n
<1>10. f \in [1..n -> Seq(S)]
  <2> HIDE DEF f
  <2> DEFINE Good == {k \in Nat : k \in 1..n => f[k] \in Seq(S)}
  <2>1. \A i \in 1..n : f[i] = IF i = 1 THEN q[i] ELSE f[i - 1] \o q[i]
    BY <1>8 DEF Joining, n
  <2>2. 0 \in Good
    OBVIOUS
  <2>3. ASSUME NEW k \in Nat, k \in Good PROVE k + 1 \in Good
    <3> SUFFICES ASSUME k + 1 \in 1..n PROVE f[k + 1] \in Seq(S)
      OBVIOUS
    <3>1. CASE k = 0
      <4>1. k + 1 = 1 /\ 1 \in 1..n
        BY <3>1
      <4>2. f[1] = q[1] /\ q[1] \in Seq(S)
        BY <1>0, <2>1, <4>1
      <4>3. QED
        BY <4>1, <4>2
    <3>2. CASE k # 0
      <4>1. k \in 1..n /\ (k + 1) - 1 = k /\ k + 1 # 1
        BY <1>0, <3>2
      <4>2. f[k] \in Seq(S) /\ f[k + 1] = f[k] \o q[k + 1] /\ q[k + 1] \in Seq(S)
        BY <1>0, <2>1, <2>3, <4>1
      <4>3. QED
        BY <4>2
    <3>3. QED
      BY <3>1, <3>2
  <2>4. \A k \in Nat : k \in Good
    <3> HIDE DEF Good
    <3>1. QED
      BY <2>2, <2>3, Climb
  <2>5. ASSUME NEW k \in 1..n PROVE f[k] \in Seq(S)
    <3>1. k \in Nat
      OBVIOUS
    <3>2. k \in Good
      <4> HIDE DEF Good
      <4>1. QED
        BY <2>4, <3>1
    <3>3. QED
      BY <3>2
  <2>6. f = [k \in 1..n |-> f[k]]
    BY <1>8 DEF Joining, n
  <2>7. QED
    BY <2>5, <2>6
<1> HIDE DEF f
<1>11. QED
  BY <1>8, <1>9, <1>10 DEF n

\* The texts joined one after the other, beginning with none.
LEMMA Joined ==
  ASSUME NEW S, NEW q \in Seq(Seq(S))
  PROVE  \E h \in [0..Len(q) -> Seq(S)] :
           /\ h[0] = <<>>
           /\ \A k \in 1..Len(q) : h[k] = h[k - 1] \o q[k]
           /\ h[Len(q)] = Str!FlattenSeq(q)
<1>0. Len(q) \in Nat /\ <<>> \in Seq(S) /\ \A k \in 1..Len(q) : q[k] \in Seq(S)
  OBVIOUS
<1>1. CASE q = <<>>
  <2> DEFINE h == [k \in 0..Len(q) |-> <<>>]
  <2>1. Len(q) = 0
    BY <1>1
  <2>2. h \in [0..Len(q) -> Seq(S)] /\ h[0] = <<>> /\ h[Len(q)] = <<>>
    BY <1>0, <2>1
  <2>3. Str!FlattenSeq(q) = <<>>
    BY <1>1, <2>1 DEF Str!FlattenSeq
  <2>4. 1..Len(q) = {}
    BY <2>1
  <2> HIDE DEF h
  <2>5. QED
    BY <2>2, <2>3, <2>4
<1>2. CASE q # <<>>
  <2>1. PICK f \in [1..Len(q) -> Seq(S)] : Joining(f, q) /\ f[Len(q)] = Str!FlattenSeq(q)
    BY <1>2, JoinExists
  <2>2. \A i \in 1..Len(q) : f[i] = IF i = 1 THEN q[i] ELSE f[i - 1] \o q[i]
    BY <2>1 DEF Joining
  <2> DEFINE h == [k \in 0..Len(q) |-> IF k = 0 THEN <<>> ELSE f[k]]
  <2>3. \A k \in 0..Len(q) : k # 0 => k \in 1..Len(q)
    BY <1>0
  <2>4. h \in [0..Len(q) -> Seq(S)]
    BY <1>0, <2>1, <2>3
  <2>5. h[0] = <<>> /\ \A k \in 1..Len(q) : h[k] = f[k]
    BY <1>0
  <2>6. ASSUME NEW k \in 1..Len(q) PROVE h[k] = h[k - 1] \o q[k]
    <3>1. CASE k = 1
      <4>1. k - 1 = 0 /\ <<>> \o q[k] = q[k]
        BY <1>0, <3>1
      <4> HIDE DEF h
      <4>2. QED
        BY <2>2, <2>5, <3>1, <4>1
    <3>2. CASE k # 1
      <4>1. k - 1 \in 1..Len(q)
        BY <1>0, <3>2
      <4> HIDE DEF h
      <4>2. QED
        BY <2>2, <2>5, <3>2, <4>1
    <3>3. QED
      BY <3>1, <3>2
  <2>7. Len(q) \in 1..Len(q)
    BY <1>0, <1>2
  <2> HIDE DEF h
  <2>8. QED
    BY <2>1, <2>4, <2>5, <2>6, <2>7
<1>3. QED
  BY <1>1, <1>2

\* The same characters are the same stretch.
LEMMA SameStretch ==
  ASSUME NEW S, NEW r \in Seq(S), NEW t \in Seq(S), NEW i \in 1..Len(r), NEW j \in 1..Len(r),
         i \in 1..Len(t), j \in 1..Len(t), \A x \in i..j : r[x] = t[x]
  PROVE  SubSeq(r, i, j) = SubSeq(t, i, j)
<1>1. i \in Int /\ j \in Int /\ \A x \in i..j : x \in 1..Len(r) /\ x \in 1..Len(t)
  OBVIOUS
<1>2. \A x \in i..j : r[x] \in S /\ t[x] \in S
  BY <1>1
<1>3. /\ SubSeq(r, i, j) \in Seq(S)
      /\ Len(SubSeq(r, i, j)) = IF i <= j THEN j - i + 1 ELSE 0
      /\ \A x \in 1 .. j - i + 1 : SubSeq(r, i, j)[x] = r[i + x - 1]
  BY <1>1, <1>2, SubSeqProperties
<1>4. /\ SubSeq(t, i, j) \in Seq(S)
      /\ Len(SubSeq(t, i, j)) = IF i <= j THEN j - i + 1 ELSE 0
      /\ \A x \in 1 .. j - i + 1 : SubSeq(t, i, j)[x] = t[i + x - 1]
  BY <1>1, <1>2, SubSeqProperties
<1>5. \A x \in 1 .. j - i + 1 : r[i + x - 1] = t[i + x - 1]
  <2>1. \A x \in 1 .. j - i + 1 : i + x - 1 \in i..j
    BY <1>1
  <2>2. QED
    BY <2>1
<1>6. \A x \in 1..Len(SubSeq(r, i, j)) : SubSeq(r, i, j)[x] = SubSeq(t, i, j)[x]
  BY <1>1, <1>3, <1>4, <1>5
<1>7. QED
  BY <1>3, <1>4, <1>6, SeqEqual

\* t is text of ended lines, whose lines are those of words.
IsText(t, d, words) ==
  /\ t \in Seq(Char)
  /\ Since(t, d, Len(t) + 1, Len(t))
  /\ Found(words, t, Ended(t, d, Len(t) + 1))

\* One line more.
LEMMA OneMoreLine ==
  ASSUME NEW d \in Char, NEW t, NEW words, IsText(t, d, words), NEW w \in Undelimited(d)
  PROVE  IsText(t \o Append(w, d), d, words \o <<w>>)
<1> DEFINE r == t \o Append(w, d)
           m == Len(t)
           n == Len(t) + Len(w)
<1>0. t \in Seq(Char) /\ m \in Nat /\ w \in Seq(Char) /\ Len(w) \in Nat /\ Len(w) > 0
      /\ \A i \in 1..Len(w) : w[i] # d
  BY DEF IsText, Undelimited
<1>1. /\ r \in Seq(Char) /\ Len(r) = n + 1 /\ n \in Nat
      /\ \A i \in 1..m : r[i] = t[i]
      /\ \A i \in 1..Len(w) : r[m + i] = w[i]
      /\ r[n + 1] = d
  <2> DEFINE v == Append(w, d)
  <2>1. v \in Seq(Char) /\ Len(v) = Len(w) + 1 /\ v[Len(w) + 1] = d
        /\ \A i \in 1..Len(w) : v[i] = w[i]
    BY <1>0
  <2> HIDE DEF v
  <2>2. /\ t \o v \in Seq(Char) /\ Len(t \o v) = Len(t) + Len(v)
        /\ \A i \in 1..Len(t) : (t \o v)[i] = t[i]
        /\ \A i \in 1..Len(v) : (t \o v)[Len(t) + i] = v[i]
    <3>1. /\ t \o v \in Seq(Char) /\ Len(t \o v) = Len(t) + Len(v)
          /\ \A i \in 1 .. Len(t) + Len(v) : (t \o v)[i] = IF i <= Len(t) THEN t[i]
                                                         ELSE v[i - Len(t)]
      BY <1>0, <2>1, ConcatProperties
    <3>2. \A i \in 1..Len(t) : i \in 1 .. Len(t) + Len(v) /\ i <= Len(t)
      BY <1>0, <2>1
    <3>3. \A i \in 1..Len(v) : /\ Len(t) + i \in 1 .. Len(t) + Len(v)
                               /\ ~(Len(t) + i <= Len(t)) /\ (Len(t) + i) - Len(t) = i
      BY <1>0, <2>1
    <3>4. QED
      BY <3>1, <3>2, <3>3
  <2>3. /\ Len(w) + 1 \in 1..Len(v)
        /\ Len(t) + (Len(w) + 1) = n + 1
        /\ \A i \in 1..Len(w) : i \in 1..Len(v)
    BY <1>0, <2>1
  <2>4. (t \o v)[n + 1] = d /\ \A i \in 1..Len(w) : (t \o v)[Len(t) + i] = w[i]
    BY <2>1, <2>2, <2>3
  <2>5. QED
    BY <1>0, <2>1, <2>2, <2>4 DEF v
<1> HIDE DEF r
<1>2. Since(r, d, m + 1, n)
  <2>1. m + 1 \in 1 .. n + 1
    BY <1>0
  <2>2. m + 1 = 1 \/ r[m] = d
    <3>1. m + 1 = 1 \/ t[(m + 1) - 1] = d
      BY Zenon DEF IsText, Since
    <3>2. (m + 1) - 1 = m /\ (m + 1 = 1 \/ m \in 1..m)
      BY <1>0
    <3>3. QED
      BY <1>1, <3>1, <3>2, Zenon
  <2>3. \A i \in m + 1 .. n : r[i] # d
    <3> SUFFICES ASSUME NEW i \in m + 1 .. n PROVE r[i] # d
      OBVIOUS
    <3>1. i - m \in 1..Len(w) /\ m + (i - m) = i
      BY <1>0
    <3>2. r[m + (i - m)] = w[i - m]
      BY <1>1, <3>1
    <3>3. QED
      BY <1>0, <3>1, <3>2
  <2>4. QED
    BY <1>0, <2>1, <2>2, <2>3 DEF Since
<1>3. Ended(r, d, n + 2) = Ended(r, d, m + 1) \cup {<<m + 1, n>>}
  <2>1. n \in 0 .. Len(r) - 1 /\ m + 1 <= n
    BY <1>0, <1>1
  <2>2. Open(m + 1, n) = {<<m + 1, n>>}
    BY <2>1 DEF Open
  <2>3. QED
    <3> HIDE DEF m, n
    <3>1. Ended(r, d, n + 2) = Ended(r, d, m + 1) \cup Open(m + 1, n)
      BY <1>1, <1>2, <2>1, EndedGrows
    <3>2. QED
      BY <2>2, <3>1
<1>4. Ended(r, d, m + 1) = Ended(t, d, m + 1)
  <2>1. \A x \in (1..Len(r)) \X (1..Len(r)) :
          x[1] <= x[2] /\ x[2] + 1 < m + 1 <=> x \in (1..m) \X (1..m) /\ x[1] <= x[2] /\ x[2] < m
    BY <1>0, <1>1
  <2>2. (1..m) \X (1..m) \subseteq (1..Len(r)) \X (1..Len(r))
    BY <1>0, <1>1
  <2>3. ASSUME NEW x \in (1..m) \X (1..m), x[1] <= x[2], x[2] < m
        PROVE  /\ \A i \in x[1]..x[2] : r[i] = t[i]
               /\ x[1] # 1 => r[x[1] - 1] = t[x[1] - 1]
               /\ r[x[2] + 1] = t[x[2] + 1]
    <3>1. x[1] \in 1..m /\ x[2] \in 1..m
      OBVIOUS
    <3>2. /\ \A i \in x[1]..x[2] : i \in 1..m
          /\ x[1] # 1 => x[1] - 1 \in 1..m
          /\ x[2] + 1 \in 1..m
      BY <1>0, <2>3, <3>1
    <3>3. QED
      BY <1>1, <3>2
  <2>4. ASSUME NEW x \in Ended(r, d, m + 1) PROVE x \in Ended(t, d, m + 1)
    <3>1. x \in (1..m) \X (1..m) /\ x[1] <= x[2] /\ x[2] < m /\ x[2] + 1 < m + 1
      BY <2>1, <2>4 DEF Ended
    <3>2. /\ \A i \in x[1]..x[2] : r[i] # d
          /\ x[1] = 1 \/ r[x[1] - 1] = d
          /\ r[x[2] + 1] = d
      BY DEF Ended
    <3>3. QED
      BY <2>3, <3>1, <3>2 DEF Ended
  <2>5. ASSUME NEW x \in Ended(t, d, m + 1) PROVE x \in Ended(r, d, m + 1)
    <3>1. x \in (1..m) \X (1..m) /\ x[1] <= x[2] /\ x[2] + 1 < m + 1 /\ x[2] < m
      BY <1>0 DEF Ended
    <3>2. /\ \A i \in x[1]..x[2] : t[i] # d
          /\ x[1] = 1 \/ t[x[1] - 1] = d
          /\ t[x[2] + 1] = d
      BY DEF Ended
    <3>3. QED
      BY <2>2, <2>3, <3>1, <3>2 DEF Ended
  <2>6. QED
    BY <2>4, <2>5
<1>5. PICK p : InOrder(p) /\ Places(p) = Ended(t, d, m + 1) /\ words = Cut(t, p)
  BY DEF IsText, Found
<1>6. \A k \in 1..Len(p) : p[k] \in (1..m) \X (1..m) /\ p[k][1] <= p[k][2] /\ p[k][2] < m
  <2>1. \A k \in 1..Len(p) : p[k] \in Ended(t, d, m + 1)
    BY <1>5 DEF Places
  <2>2. \A x \in Ended(t, d, m + 1) : x \in (1..m) \X (1..m) /\ x[1] <= x[2] /\ x[2] < m
    BY <1>0 DEF Ended
  <2>3. QED
    BY <2>1, <2>2
<1>7. Cut(r, p) = words
  <2>1. ASSUME NEW k \in 1..Len(p)
        PROVE  SubSeq(r, p[k][1], p[k][2]) = SubSeq(t, p[k][1], p[k][2])
    <3> DEFINE i == p[k][1]
               j == p[k][2]
    <3>1. i \in 1..m /\ j \in 1..m /\ i <= j
      BY <1>6
    <3> HIDE DEF i, j
    <3>2. \A x \in i..j : x \in 1..m /\ r[x] = t[x]
      BY <1>0, <1>1, <3>1
    <3>3. i \in 1..Len(r) /\ j \in 1..Len(r)
      BY <1>0, <1>1, <3>1
    <3>4. SubSeq(r, i, j) = SubSeq(t, i, j)
      BY <1>0, <1>1, <3>1, <3>2, <3>3, SameStretch
    <3>5. QED
      BY <3>4 DEF i, j
  <2>2. QED
    BY <1>5, <2>1 DEF Cut
<1>8. SubSeq(r, m + 1, n) = w
  <2>1. /\ SubSeq(r, m + 1, n) \in Seq(Char) /\ Len(SubSeq(r, m + 1, n)) = Len(w)
        /\ \A x \in 1..Len(w) : SubSeq(r, m + 1, n)[x] = r[(m + 1) + x - 1]
    <3>1. m + 1 \in 1..Len(r) /\ n \in 1..Len(r) /\ n - (m + 1) + 1 = Len(w) /\ m + 1 <= n
      BY <1>0, <1>1
    <3>2. \A x \in m + 1 .. n : x \in 1..Len(r)
      BY <1>1, <3>1
    <3>3. \A x \in m + 1 .. n : r[x] \in Char
      BY <1>1, <3>2
    <3> HIDE DEF m, n
    <3>4. QED
      BY <3>1, <3>3, SubSeqProperties
  <2>2. \A x \in 1..Len(w) : r[(m + 1) + x - 1] = w[x]
    <3>1. \A x \in 1..Len(w) : (m + 1) + x - 1 = m + x
      BY <1>0
    <3>2. QED
      BY <1>1, <3>1
  <2>3. QED
    BY <1>0, <2>1, <2>2, SeqEqual
<1>9. Found(words \o <<w>>, r, Ended(r, d, n + 2))
  <2>1. m + 1 \in Nat /\ n \in Nat /\ \A k \in 1..Len(p) : p[k][1] < m + 1
    BY <1>0, <1>1, <1>6
  <2>2. /\ InOrder(Append(p, <<m + 1, n>>))
        /\ Places(Append(p, <<m + 1, n>>)) = Places(p) \cup {<<m + 1, n>>}
        /\ Cut(r, Append(p, <<m + 1, n>>)) = Cut(r, p) \o <<SubSeq(r, m + 1, n)>>
    BY <1>1, <1>5, <2>1, OneMore
  <2>3. QED
    BY <1>3, <1>4, <1>5, <1>7, <1>8, <2>2 DEF Found
<1>10. Since(r, d, n + 2, n + 1)
  <2>1. n + 2 \in 1 .. (n + 1) + 1 /\ (n + 2) - 1 = n + 1 /\ (n + 2) .. (n + 1) = {}
    BY <1>1
  <2>2. QED
    BY <1>1, <2>1 DEF Since
<1>11. Len(r) + 1 = n + 2
  BY <1>1
<1>12. IsText(r, d, words \o <<w>>)
  BY <1>1, <1>9, <1>10, <1>11 DEF IsText
<1>13. QED
  BY <1>12 DEF r

\* The lines of a text of ended lines.
LEMMA TextHas ==
  ASSUME NEW d \in Char, NEW t, NEW words, IsText(t, d, words)
  PROVE  Str!Pieces(t, {d}) = words
<1>1. t \in Seq(Char) /\ Len(t) \in Nat /\ Since(t, d, Len(t) + 1, Len(t))
  BY DEF IsText
<1>2. Open(Len(t) + 1, Len(t)) = {}
  BY <1>1 DEF Open
<1>3. Str!Inside(t, {d}) = Ended(t, d, Len(t) + 1)
  BY <1>1, <1>2, InsideIs
<1>4. PICK p : InOrder(p) /\ Places(p) = Str!Inside(t, {d}) /\ words = Cut(t, p)
  BY <1>3 DEF IsText, Found
<1>5. QED
  BY <1>4, PiecesAre

\* No line is the text without a character.
LEMMA NoText == ASSUME NEW d PROVE IsText(<<>>, d, <<>>)
<1>1. <<>> \in Seq(Char) /\ Len(<<>>) = 0 /\ <<>> \in Seq(Nat \X Nat) /\ 1..0 = {}
  OBVIOUS
<1>2. Since(<<>>, d, 1, 0)
  BY DEF Since
<1>3. Ended(<<>>, d, 1) = {}
  BY <1>1 DEF Ended
<1>4. InOrder(<<>>) /\ Places(<<>>) = {} /\ Cut(<<>>, <<>>) = <<>>
  BY <1>1 DEF InOrder, Places, Cut
<1>5. Found(<<>>, <<>>, {})
  BY <1>4 DEF Found
<1>6. Len(<<>>) + 1 = 1
  OBVIOUS
<1>7. IsText(<<>>, d, <<>>)
  BY <1>1, <1>2, <1>3, <1>5, <1>6, Zenon DEF IsText
<1>8. QED
  BY <1>7

\* Lines that are ended and joined are the lines of the text.
LEMMA LinesOfText ==
  ASSUME NEW d \in Char, NEW words \in Seq(Undelimited(d))
  PROVE  Str!Pieces(Str!FlattenSeq([i \in DOMAIN words |-> Append(words[i], d)]), {d}) = words
<1> DEFINE U == Undelimited(d)
           q == [i \in DOMAIN words |-> Append(words[i], d)]
           n == Len(words)
<1>0. n \in Nat /\ DOMAIN words = 1..n /\ \A i \in 1..n : words[i] \in U /\ words[i] \in Seq(Char)
  <2>1. U \subseteq Seq(Char)
    BY DEF Undelimited
  <2> HIDE DEF U
  <2>2. words \in Seq(U)
    BY DEF U
  <2>3. QED
    BY <2>1, <2>2
<1> HIDE DEF U
<1>1. q \in Seq(Seq(Char)) /\ Len(q) = n /\ \A i \in 1..n : q[i] = Append(words[i], d)
  <2>1. q = [i \in 1..n |-> Append(words[i], d)]
    BY <1>0
  <2> HIDE DEF q
  <2>2. q \in [1..n -> Seq(Char)]
    <3>1. \A i \in 1..n : Append(words[i], d) \in Seq(Char)
      BY <1>0
    <3>2. QED
      BY <2>1, <3>1
  <2> HIDE DEF n
  <2>3. QED
    BY <1>0, <2>1, <2>2, FunctionIsSeq
<1> HIDE DEF q
<1>2. PICK h : /\ h[0] = <<>>
               /\ \A k \in 1..n : h[k] = h[k - 1] \o q[k]
               /\ h[n] = Str!FlattenSeq(q)
  <2>1. \E h \in [0..Len(q) -> Seq(Char)] :
          /\ h[0] = <<>>
          /\ \A k \in 1..Len(q) : h[k] = h[k - 1] \o q[k]
          /\ h[Len(q)] = Str!FlattenSeq(q)
    BY <1>1, Joined
  <2> HIDE DEF n
  <2>2. QED
    BY <1>1, <2>1
<1> HIDE DEF n
<1> DEFINE Good == {k \in Nat : k <= n => IsText(h[k], d, SubSeq(words, 1, k))}
<1>3. 0 \in Good
  <2>1. SubSeq(words, 1, 0) = <<>>
    BY SubSeqEmpty
  <2>2. IsText(h[0], d, SubSeq(words, 1, 0))
    BY <1>2, <2>1, NoText
  <2>3. QED
    BY <2>2
<1>4. ASSUME NEW k \in Nat, k \in Good PROVE k + 1 \in Good
  <2> SUFFICES ASSUME k + 1 <= n PROVE IsText(h[k + 1], d, SubSeq(words, 1, k + 1))
    OBVIOUS
  <2>1. k + 1 \in 1..n /\ (k + 1) - 1 = k /\ k <= n
    BY <1>0
  <2>2. IsText(h[k], d, SubSeq(words, 1, k))
    BY <1>4, <2>1
  <2> HIDE DEF Good
  <2>3. h[k + 1] = h[k] \o Append(words[k + 1], d) /\ words[k + 1] \in U
    BY <1>0, <1>1, <1>2, <2>1
  <2>4. IsText(h[k] \o Append(words[k + 1], d), d, SubSeq(words, 1, k) \o <<words[k + 1]>>)
    BY <2>2, <2>3, OneMoreLine DEF U
  <2>5. SubSeq(words, 1, k) \o <<words[k + 1]>> = SubSeq(words, 1, k + 1)
    <3>1. words \in Seq(U) /\ 1 \in 1..Len(words) /\ k + 1 \in 1..Len(words)
      BY <1>0, <2>1 DEF U, n
    <3>2. SubSeq(words, 1, k + 1) = SubSeq(words, 1, (k + 1) - 1) \o <<words[k + 1]>>
      BY <3>1, SubSeqRecursiveSecond
    <3>3. QED
      BY <2>1, <3>2
  <2>6. QED
    BY <2>3, <2>4, <2>5
<1>5. \A k \in Nat : k \in Good
  <2> HIDE DEF Good
  <2>1. QED
    BY <1>3, <1>4, Climb
<1>6. IsText(h[n], d, SubSeq(words, 1, n))
  <2>1. n \in Good
    <3> HIDE DEF Good
    <3>1. QED
      BY <1>0, <1>5
  <2>2. QED
    BY <1>0, <2>1
<1>7. SubSeq(words, 1, n) = words
  BY SubSeqFull DEF n
<1>8. Str!Pieces(Str!FlattenSeq(q), {d}) = words
  BY <1>2, <1>6, <1>7, TextHas
<1>9. QED
  BY <1>8 DEF q

\* What grep and string_fetch_integer return.
LEMMA GrepIs ==
  ASSUME NEW s \in Page, NEW p
  PROVE  LET lines == Str!Pieces(s, {NL})
         IN Str!Pieces(Str!grep(s, p), {NL})
              = Str!Selected(lines, {l \in Str!Range(lines) : Str!strstr(l, p)})
<1> DEFINE lines == Str!strtok(s, NL)
           with == {l \in Str!Range(lines) : Str!pattern_match(l, p)}
           kept == Str!Selected(lines, with)
<1>1. s \in Seq(Char) /\ NL \in Char
  BY TextAssumption
<1>2. lines = Str!Pieces(s, {NL}) /\ lines \in Seq(Undelimited(NL))
  BY <1>1, TokensArePieces, TokensUndelimited
<1>3. with = {l \in Str!Range(lines) : Str!strstr(l, p)}
  <2> HIDE DEF lines
  <2>1. \A l \in Str!Range(lines) : l # <<>>
    <3>1. \A i \in DOMAIN lines : lines[i] \in Undelimited(NL)
      BY <1>2
    <3>2. QED
      BY <3>1 DEF Str!Range, Undelimited
  <2>2. QED
    BY <2>1 DEF Str!pattern_match
<1>4. Str!grep(s, p) = Str!FlattenSeq([i \in DOMAIN kept |-> Append(kept[i], NL)])
  BY DEF Str!grep
<1> HIDE DEF lines, with
<1>5. kept \in Seq(Undelimited(NL))
  BY <1>2, SelectedType
<1> HIDE DEF kept
<1>6. Str!Pieces(Str!grep(s, p), {NL}) = kept
  BY <1>1, <1>4, <1>5, LinesOfText
<1>7. QED
  BY <1>2, <1>3, <1>6 DEF kept

LEMMA FetchIs ==
  ASSUME NEW s \in Report, NEW index
  PROVE  LET words == Str!Pieces(s, {Blank})
             numbers == Str!Selected(words, {w \in Str!Range(words) : Str!is_number(w)})
         IN Str!string_fetch_integer(s, index)
              = IF index <= Len(numbers) THEN <<numbers[index]>> ELSE <<>>
<1>1. s \in Seq(Char)
  BY TextAssumption
<1>2. Str!strtok(s, Blank) = Str!Pieces(s, {Blank})
  BY <1>1, TokensArePieces
<1>3. QED
  BY <1>2, Zenon DEF Str!string_fetch_integer

\* What the lines and numbers that the last call has found are.
LinesInv == Str!GrepAgrees /\ Str!FetchAgrees

\* A step of the strings gives the lines and the numbers.
LEMMA LinesKept == ASSUME Str!Next PROVE LinesInv'
<1>1. CASE Str!Tokenize
  <2>1. call'.fn = "tokenizer"
    BY <1>1 DEF Str!Tokenize, Str!Call
  <2>2. QED
    BY <2>1 DEF LinesInv, Str!GrepAgrees, Str!FetchAgrees
<1>2. CASE Str!Replace
  <2>1. call'.fn = "replace"
    BY <1>2 DEF Str!Replace, Str!Once, Str!Call
  <2>2. QED
    BY <2>1 DEF LinesInv, Str!GrepAgrees, Str!FetchAgrees
<1>3. CASE Str!Grep
  <2>1. PICK s \in Page, p \in Pattern : Str!Once(Str!Call("grep", s, p, <<>>), Str!grep(s, p))
    BY <1>3, Zenon DEF Str!Grep
  <2>2. /\ call'.fn = "grep" /\ call'.string = s /\ call'.a = p
        /\ result' = Str!grep(s, p)
    BY <2>1 DEF Str!Once, Str!Call
  <2>3. Str!Pieces(result', {NL})
          = Str!Selected(Str!Pieces(s, {NL}),
                         {l \in Str!Range(Str!Pieces(s, {NL})) : Str!strstr(l, p)})
    BY <2>2, GrepIs
  <2>4. Str!GrepAgrees'
    BY <2>2, <2>3 DEF Str!GrepAgrees
  <2>5. Str!FetchAgrees'
    BY <2>2 DEF Str!FetchAgrees
  <2>6. QED
    BY <2>4, <2>5 DEF LinesInv
<1>4. CASE Str!Fetch
  <2>1. PICK s \in Report, k \in 1..3 :
          Str!Once(Str!Call("fetch", s, <<>>, [i \in 1..k |-> Blank]),
                   Str!string_fetch_integer(s, k))
    BY <1>4, Zenon DEF Str!Fetch
  <2> DEFINE words == Str!Pieces(s, {Blank})
             numbers == Str!Selected(words, {w \in Str!Range(words) : Str!is_number(w)})
  <2>2. /\ call'.fn = "fetch" /\ call'.string = s /\ call'.n = [i \in 1..k |-> Blank]
        /\ result' = Str!string_fetch_integer(s, k)
    BY <2>1 DEF Str!Once, Str!Call
  <2>3. Len(call'.n) = k
    <3>1. k \in Nat /\ [i \in 1..k |-> Blank] \in [1..k -> {Blank}]
      OBVIOUS
    <3>2. Len([i \in 1..k |-> Blank]) = k
      BY <3>1, FunctionIsSeq, Zenon
    <3>3. QED
      BY <2>2, <3>2
  <2>4. result' = IF k <= Len(numbers) THEN <<numbers[k]>> ELSE <<>>
    BY <2>2, FetchIs
  <2>5. numbers \in Seq(Seq(Char))
    <3>1. s \in Seq(Char)
      BY TextAssumption
    <3>2. words \in Seq(Seq(Char))
      BY <3>1, TokensArePieces, TokensType
    <3> HIDE DEF words
    <3>3. QED
      BY <3>2, SelectedType
  <2> HIDE DEF numbers
  <2>6. result' = IF k > Len(numbers) THEN <<>> ELSE <<numbers[k]>>
    BY <2>4, <2>5
  <2>7. Str!FetchAgrees'
    <3>1. Str!FetchAgrees' <=> (call'.fn = "fetch" =>
            result' = IF Len(call'.n) > Len(numbers) THEN <<>> ELSE <<numbers[Len(call'.n)]>>)
      BY <2>2 DEF Str!FetchAgrees, numbers
    <3>2. QED
      BY <2>3, <2>6, <3>1
  <2>8. Str!GrepAgrees'
    BY <2>2 DEF Str!GrepAgrees
  <2>9. QED
    BY <2>7, <2>8 DEF LinesInv
<1>5. QED
  BY <1>1, <1>2, <1>3, <1>4 DEF Str!Next

-----------------------------------------------------------------------------
\* replaceSubstring's loop, up to each place.
Rewriting(f, s, sub, new) ==
  f = [n \in 0..Len(s) |->
         IF n = 0 THEN [text |-> <<>>, from |-> 1]
         ELSE IF n < f[n - 1].from THEN f[n - 1]
         ELSE [text |-> f[n - 1].text \o Str!Put(s, sub, new, n),
               from |-> IF Str!Occurs(s, sub, n) THEN n + Len(sub) + 1 ELSE n + 1]]

\* The stretch of one character.
LEMMA OneCharacter ==
  ASSUME NEW S, NEW s \in Seq(S), NEW k \in 1..Len(s)
  PROVE  SubSeq(s, k, k) = <<s[k]>>
<1>1. SubSeq(s, k, k) = <<s[k]>> \o SubSeq(s, k + 1, k)
  BY SubSeqRecursiveFirst
<1>2. SubSeq(s, k + 1, k) = <<>>
  BY SubSeqEmpty
<1>3. <<s[k]>> \in Seq(S)
  OBVIOUS
<1>4. <<s[k]>> \o <<>> = <<s[k]>>
  BY <1>3, ConcatEmptySeq
<1>5. QED
  BY <1>1, <1>2, <1>4

\* Texts can be joined in any order.
LEMMA Regroup ==
  \A x, y, z \in Seq(Char) : (x \o y) \o z = x \o (y \o z)
BY ConcatAssociative

\* What is put where sub does not occur: the character that is there.
LEMMA PutPlain ==
  ASSUME NEW s \in Seq(Char), NEW sub \in Seq(Char), NEW new \in Seq(Char),
         NEW i \in 1..Len(s), ~Str!Occurs(s, sub, i)
  PROVE  Str!Put(s, sub, new, i) = <<s[i]>>
BY DEF Str!Put

\* Where it occurs: the new text and the character behind, if there is one.
LEMMA PutNew ==
  ASSUME NEW s \in Seq(Char), NEW sub \in Seq(Char), sub # <<>>, NEW new \in Seq(Char),
         NEW i \in 1..Len(s), Str!Occurs(s, sub, i), i + Len(sub) <= Len(s)
  PROVE  Str!Put(s, sub, new, i) = new \o <<s[i + Len(sub)]>>
<1> DEFINE k == i + Len(sub)
<1>1. k \in 1..Len(s) /\ k \in Nat /\ Len(s) \in Nat /\ ~(k > Len(s))
  OBVIOUS
<1>2. Str!Put(s, sub, new, i) = new \o SubSeq(s, k, Str!Min({k, Len(s)}))
  BY DEF Str!Put
<1> HIDE DEF k
<1>3. Str!Min({k, Len(s)}) = k
  BY <1>1, Kept
<1>4. SubSeq(s, k, k) = <<s[k]>>
  BY <1>1, OneCharacter
<1>5. Str!Put(s, sub, new, i) = new \o <<s[k]>>
  BY <1>2, <1>3, <1>4, Zenon
<1>6. QED
  BY <1>5, Zenon DEF k

LEMMA PutAtEnd ==
  ASSUME NEW s \in Seq(Char), NEW sub \in Seq(Char), sub # <<>>, NEW new \in Seq(Char),
         NEW i \in 1..Len(s), Str!Occurs(s, sub, i), i + Len(sub) > Len(s)
  PROVE  Str!Put(s, sub, new, i) = new
<1> DEFINE k == i + Len(sub)
<1>1. k \in Nat /\ Len(s) \in Nat /\ k > Len(s)
  OBVIOUS
<1>2. Str!Put(s, sub, new, i) = new \o SubSeq(s, k, Str!Min({k, Len(s)}))
  BY DEF Str!Put
<1> HIDE DEF k
<1>3. Str!Min({k, Len(s)}) = Len(s)
  BY <1>1, Kept
<1>4. SubSeq(s, k, Len(s)) = <<>>
  BY <1>1, SubSeqEmpty
<1>5. new \o <<>> = new
  BY ConcatEmptySeq
<1>6. QED
  BY <1>2, <1>3, <1>4, <1>5, Zenon

LEMMA PutType ==
  ASSUME NEW s \in Seq(Char), NEW sub \in Seq(Char), sub # <<>>, NEW new \in Seq(Char),
         NEW i \in 1..Len(s)
  PROVE  Str!Put(s, sub, new, i) \in Seq(Char)
<1>0. Len(s) \in Nat /\ Len(sub) \in Nat /\ Len(sub) > 0 /\ i \in Nat /\ s[i] \in Char
  OBVIOUS
<1>1. CASE ~Str!Occurs(s, sub, i)
  <2>1. Str!Put(s, sub, new, i) = <<s[i]>>
    BY <1>1, PutPlain
  <2>2. QED
    BY <1>0, <2>1
<1>2. CASE Str!Occurs(s, sub, i) /\ i + Len(sub) <= Len(s)
  <2>1. Str!Put(s, sub, new, i) = new \o <<s[i + Len(sub)]>>
    BY <1>2, PutNew
  <2>2. i + Len(sub) \in 1..Len(s)
    BY <1>0, <1>2
  <2>3. s[i + Len(sub)] \in Char
    BY <2>2
  <2>4. QED
    BY <2>1, <2>3
<1>3. CASE Str!Occurs(s, sub, i) /\ i + Len(sub) > Len(s)
  BY <1>3, PutAtEnd
<1>4. QED
  BY <1>0, <1>1, <1>2, <1>3

LEMMA RewriteExists ==
  ASSUME NEW s \in Seq(Char), NEW sub \in Seq(Char), sub # <<>>, NEW new \in Seq(Char)
  PROVE  Rewriting(Str!Replacing(s, sub, new), s, sub, new)
<1> DEFINE S == [text : Seq(Char), from : Nat]
           Goes(u, n) == IF n < u.from THEN u
                         ELSE [text |-> u.text \o Str!Put(s, sub, new, n),
                               from |-> IF Str!Occurs(s, sub, n) THEN n + Len(sub) + 1 ELSE n + 1]
           step == [n \in 1..Len(s) |-> [u \in S |-> Goes(u, n)]]
           first == [text |-> <<>>, from |-> 1]
<1>0. Len(s) \in Nat /\ Len(sub) \in Nat
  OBVIOUS
<1>1. first \in S
  <2>1. <<>> \in Seq(Char)
    OBVIOUS
  <2>2. QED
    BY <2>1
<1>2. \A n \in 1..Len(s), u \in S : Goes(u, n) \in S
  <2> SUFFICES ASSUME NEW n \in 1..Len(s), NEW u \in S PROVE Goes(u, n) \in S
    OBVIOUS
  <2>1. Str!Put(s, sub, new, n) \in Seq(Char)
    BY PutType
  <2>2. u.text \o Str!Put(s, sub, new, n) \in Seq(Char)
    BY <2>1
  <2>3. n + Len(sub) + 1 \in Nat /\ n + 1 \in Nat
    BY <1>0
  <2>4. QED
    BY <2>2, <2>3
<1>3. step \in [1..Len(s) -> [S -> S]]
  <2> HIDE DEF Goes, S
  <2>1. QED
    BY <1>2
<1>4. PICK g \in [0..Len(s) -> S] : Iterates(g, Len(s), first, step)
  <2> HIDE DEF step, first, S
  <2>1. QED
    BY <1>0, <1>1, <1>3, Iterated
<1>5. Rewriting(g, s, sub, new)
  <2> HIDE DEF S, first
  <2>1. \A n \in 0..Len(s) : n # 0 => n \in 1..Len(s) /\ g[n - 1] \in S
    <3>1. \A n \in 0..Len(s) : n # 0 => n \in 1..Len(s) /\ n - 1 \in 0..Len(s)
      BY <1>0
    <3> HIDE DEF step
    <3>2. QED
      BY <3>1
  <2>2. \A n \in 0..Len(s) : n # 0 => step[n][g[n - 1]] = Goes(g[n - 1], n)
    <3> HIDE DEF Goes
    <3>1. QED
      BY <2>1
  <2> HIDE DEF step, Goes
  <2>3. g = [n \in 0..Len(s) |-> IF n = 0 THEN first ELSE step[n][g[n - 1]]]
    BY <1>4 DEF Iterates
  <2>4. \A n \in 0..Len(s) : g[n] = IF n = 0 THEN first ELSE Goes(g[n - 1], n)
    BY <2>2, <2>3
  <2>5. g = [n \in 0..Len(s) |-> g[n]]
    BY <2>3
  <2>6. g = [n \in 0..Len(s) |-> IF n = 0 THEN first ELSE Goes(g[n - 1], n)]
    BY <2>4, <2>5
  <2>7. QED
    BY <2>6 DEF Rewriting, first, Goes
<1>6. Str!Replacing(s, sub, new) = CHOOSE f : Rewriting(f, s, sub, new)
  BY DEF Str!Replacing, Rewriting
<1>7. QED
  BY <1>5, <1>6

\* The loop is at place from: every occurrence before it has been replaced, with the
\* character behind it.
Behind(s, sub, from) ==
  \A j \in 1..Len(s) : j < from /\ Str!Occurs(s, sub, j) => j + Len(sub) < from

\* One character that no occurrence has.
LEMMA Plain ==
  ASSUME NEW s \in Seq(Char), NEW sub \in Seq(Char), NEW new \in Seq(Char), NEW i \in 1..Len(s),
         Behind(s, sub, i), ~Str!Occurs(s, sub, i)
  PROVE  Str!Instead(s, sub, new, i) = <<s[i]>> /\ Behind(s, sub, i + 1)
<1>0. Len(s) \in Nat /\ Len(sub) \in Nat /\ DOMAIN s = 1..Len(s)
  OBVIOUS
<1>1. ~(\E j \in DOMAIN s : Str!Occurs(s, sub, j) /\ j < i /\ i < j + Len(sub))
  BY <1>0 DEF Behind
<1>2. Str!Instead(s, sub, new, i) = <<s[i]>>
  BY <1>1 DEF Str!Instead
<1>3. Behind(s, sub, i + 1)
  <2> SUFFICES ASSUME NEW j \in 1..Len(s), j < i + 1, Str!Occurs(s, sub, j)
               PROVE  j + Len(sub) < i + 1
    BY DEF Behind
  <2>1. j # i
    OBVIOUS
  <2>2. j < i
    BY <2>1
  <2>3. QED
    BY <1>0, <2>2 DEF Behind
<1>4. QED
  BY <1>2, <1>3

\* An occurrence, and the character behind it.
LEMMA Occurrence ==
  ASSUME NEW s \in Seq(Char), NEW sub \in Seq(Char), sub # <<>>, NEW new \in Seq(Char),
         Str!Apart(s, sub),
         NEW i \in 1..Len(s), Behind(s, sub, i), Str!Occurs(s, sub, i)
  PROVE  /\ Str!Instead(s, sub, new, i) = new
         /\ \A j \in i + 1 .. i + Len(sub) - 1 : Str!Instead(s, sub, new, j) = <<>>
         /\ i + Len(sub) <= Len(s)
              => Str!Instead(s, sub, new, i + Len(sub)) = <<s[i + Len(sub)]>>
         /\ Behind(s, sub, i + Len(sub) + 1)
<1> DEFINE L == Len(sub)
<1>0. Len(s) \in Nat /\ L \in Nat /\ L > 0 /\ i \in Nat /\ DOMAIN s = 1..Len(s)
  OBVIOUS
<1>1. \A j \in i + 1 .. i + L : ~Str!Occurs(s, sub, j)
  BY <1>0 DEF Str!Apart
<1>2. Str!Instead(s, sub, new, i) = new
  BY DEF Str!Instead
<1>3. ASSUME NEW j \in i + 1 .. i + L - 1 PROVE Str!Instead(s, sub, new, j) = <<>>
  <2>1. ~Str!Occurs(s, sub, j) /\ i < j /\ j < i + L
    BY <1>0, <1>1
  <2>2. \E k \in DOMAIN s : Str!Occurs(s, sub, k) /\ k < j /\ j < k + Len(sub)
    BY <1>0, <2>1
  <2>3. QED
    BY <2>1, <2>2 DEF Str!Instead
<1>4. Behind(s, sub, i + L + 1)
  <2> SUFFICES ASSUME NEW j \in 1..Len(s), j < i + L + 1, Str!Occurs(s, sub, j)
               PROVE  j + L < i + L + 1
    BY DEF Behind
  <2>1. ~(j \in i + 1 .. i + L)
    BY <1>1
  <2>2. j <= i
    BY <1>0, <2>1
  <2>3. QED
    BY <1>0, <2>2
<1>5. ASSUME i + L <= Len(s) PROVE Str!Instead(s, sub, new, i + L) = <<s[i + L]>>
  <2>1. ~Str!Occurs(s, sub, i + L)
    BY <1>0, <1>1
  <2>2. ASSUME NEW j \in DOMAIN s, Str!Occurs(s, sub, j), j < i + L, i + L < j + L PROVE FALSE
    <3>1. j \in i + 1 .. i + L
      BY <1>0, <2>2
    <3>2. QED
      BY <1>1, <2>2, <3>1
  <2>3. QED
    BY <2>1, <2>2 DEF Str!Instead
<1>6. QED
  BY <1>2, <1>3, <1>4, <1>5

\* replaceSubstring puts new in the place of every occurrence, when none follows
\* another one directly.
LEMMA ReplaceIs ==
  ASSUME NEW s \in Seq(Char), NEW sub \in Seq(Char), sub # <<>>, NEW new \in Seq(Char),
         Str!Apart(s, sub)
  PROVE  Str!IsReplaced(s, sub, new, Str!replaceSubstring(s, sub, new))
<1> DEFINE N == Len(s)
           L == Len(sub)
           q == [i \in DOMAIN s |-> Str!Instead(s, sub, new, i)]
           f == Str!Replacing(s, sub, new)
<1>0. N \in Nat /\ L \in Nat /\ L > 0 /\ DOMAIN s = 1..N /\ \A i \in 1..N : s[i] \in Char
  OBVIOUS
<1>1. q \in Seq(Seq(Char)) /\ Len(q) = N /\ \A i \in 1..N : q[i] = Str!Instead(s, sub, new, i)
  <2>1. \A i \in 1..N : Str!Instead(s, sub, new, i) \in Seq(Char)
    BY <1>0 DEF Str!Instead
  <2>2. q = [i \in 1..N |-> Str!Instead(s, sub, new, i)]
    BY <1>0
  <2>3. q \in [1..N -> Seq(Char)]
    BY <2>1, <2>2
  <2> HIDE DEF q, N
  <2>4. QED
    BY <1>0, <2>2, <2>3, FunctionIsSeq
<1>2. Str!IsReplaced(s, sub, new, Str!replaceSubstring(s, sub, new))
        <=> f[N].text = Str!FlattenSeq(q)
  BY DEF Str!IsReplaced, Str!replaceSubstring
<1>3. Rewriting(f, s, sub, new)
  BY RewriteExists
<1> HIDE DEF q, f
<1>4. PICK h \in [0..N -> Seq(Char)] : /\ h[0] = <<>>
                                       /\ \A k \in 1..N : h[k] = h[k - 1] \o q[k]
                                       /\ h[N] = Str!FlattenSeq(q)
  <2>1. \E h \in [0..Len(q) -> Seq(Char)] :
          /\ h[0] = <<>>
          /\ \A k \in 1..Len(q) : h[k] = h[k - 1] \o q[k]
          /\ h[Len(q)] = Str!FlattenSeq(q)
    BY <1>1, Joined
  <2> HIDE DEF N
  <2>2. QED
    BY <1>1, <2>1
<1>5. /\ f[0] = [text |-> <<>>, from |-> 1]
      /\ \A n \in 0 .. N - 1 :
           f[n + 1] = IF n + 1 < f[n].from THEN f[n]
                      ELSE [text |-> f[n].text \o Str!Put(s, sub, new, n + 1),
                            from |-> IF Str!Occurs(s, sub, n + 1) THEN (n + 1) + L + 1
                                     ELSE (n + 1) + 1]
  <2> DEFINE At(n) == IF n = 0 THEN [text |-> <<>>, from |-> 1]
                      ELSE IF n < f[n - 1].from THEN f[n - 1]
                      ELSE [text |-> f[n - 1].text \o Str!Put(s, sub, new, n),
                            from |-> IF Str!Occurs(s, sub, n) THEN n + L + 1 ELSE n + 1]
  <2>1. \A n \in 0..N : f[n] = At(n)
    <3>1. f = [n \in 0..N |-> At(n)]
      BY <1>3 DEF Rewriting
    <3> HIDE DEF At
    <3>2. QED
      BY <3>1
  <2>2. 0 \in 0..N
    BY <1>0
  <2>3. f[0] = [text |-> <<>>, from |-> 1]
    BY <2>1, <2>2
  <2>4. ASSUME NEW n \in 0 .. N - 1
        PROVE  f[n + 1] = IF n + 1 < f[n].from THEN f[n]
                          ELSE [text |-> f[n].text \o Str!Put(s, sub, new, n + 1),
                                from |-> IF Str!Occurs(s, sub, n + 1) THEN (n + 1) + L + 1
                                         ELSE (n + 1) + 1]
    <3>1. f[n + 1] = At(n + 1) /\ n + 1 # 0 /\ (n + 1) - 1 = n
      <4>1. n + 1 \in 0..N /\ n + 1 # 0 /\ (n + 1) - 1 = n
        BY <1>0
      <4> HIDE DEF At
      <4>2. QED
        BY <2>1, <4>1
    <3>2. QED
      BY <3>1, Zenon
  <2>5. QED
    BY <2>3, <2>4
<1> HIDE DEF N, L
<1> DEFINE Upto(text, from) == text = h[IF from > N THEN N ELSE from - 1]
           Good == {n \in Nat : n <= N =>
                      /\ f[n].from \in n + 1 .. N + 2
                      /\ Behind(s, sub, f[n].from)
                      /\ Upto(f[n].text, f[n].from)}
<1>6. 0 \in Good
  <2>1. f[0].from = 1 /\ f[0].text = <<>>
    BY <1>5
  <2>2. Behind(s, sub, 1)
    BY DEF Behind
  <2>3. Upto(<<>>, 1)
    BY <1>0, <1>4
  <2> HIDE DEF Upto
  <2>4. 1 \in 0 + 1 .. N + 2
    BY <1>0
  <2>5. QED
    BY <2>1, <2>2, <2>3, <2>4
<1>7. ASSUME NEW n \in Nat, n \in Good PROVE n + 1 \in Good
  <2> SUFFICES ASSUME n + 1 <= N
               PROVE  /\ f[n + 1].from \in (n + 1) + 1 .. N + 2
                      /\ Behind(s, sub, f[n + 1].from)
                      /\ Upto(f[n + 1].text, f[n + 1].from)
    OBVIOUS
  <2>1. /\ f[n].from \in n + 1 .. N + 2
        /\ Behind(s, sub, f[n].from)
        /\ Upto(f[n].text, f[n].from)
    BY <1>0, <1>7
  <2> HIDE DEF Good, Upto
  <2>2. n \in 0 .. N - 1 /\ n + 1 \in 1..N /\ n + 1 \in 1..Len(s)
    BY <1>0 DEF N
  <2>3. CASE n + 1 < f[n].from
    <3>1. f[n + 1] = f[n]
      BY <1>5, <2>2, <2>3
    <3>2. f[n].from \in (n + 1) + 1 .. N + 2
      <4> DEFINE from == f[n].from
      <4>1. from \in n + 1 .. N + 2 /\ n + 1 < from
        BY <2>1, <2>3
      <4> HIDE DEF from
      <4>2. from \in (n + 1) + 1 .. N + 2
        BY <1>0, <4>1
      <4>3. QED
        BY <4>2 DEF from
    <3>3. QED
      BY <2>1, <3>1, <3>2
  <2>4. CASE ~(n + 1 < f[n].from)
    <3>0. f[n].from = n + 1
      BY <1>0, <2>1, <2>4
    <3>1. Behind(s, sub, n + 1)
      BY <2>1, <3>0
    <3>2. f[n].text = h[n]
      <4>1. Upto(f[n].text, n + 1)
        BY <2>1, <3>0
      <4>2. ~(n + 1 > N) /\ (n + 1) - 1 = n
        BY <1>0, <2>2
      <4>3. QED
        BY <4>1, <4>2 DEF Upto
    <3> DEFINE text == h[n] \o Str!Put(s, sub, new, n + 1)
               from == IF Str!Occurs(s, sub, n + 1) THEN (n + 1) + L + 1 ELSE (n + 1) + 1
    <3>3. f[n + 1].text = text /\ f[n + 1].from = from
      <4>1. f[n + 1] = [text |-> text, from |-> from]
        BY <1>5, <2>2, <2>4, <3>2, Zenon
      <4> HIDE DEF text, from
      <4>2. QED
        BY <4>1
    <3>4. h[n] \in Seq(Char) /\ h[n + 1] = h[n] \o q[n + 1]
          /\ q[n + 1] = Str!Instead(s, sub, new, n + 1)
      <4>1. n \in 0..N /\ (n + 1) - 1 = n
        BY <1>0, <2>2
      <4>2. QED
        BY <1>1, <1>4, <2>2, <4>1
    <3>5. CASE ~Str!Occurs(s, sub, n + 1)
      <4>1. from = n + 2 /\ text = h[n] \o <<s[n + 1]>>
        <5>1. Str!Put(s, sub, new, n + 1) = <<s[n + 1]>>
          BY <2>2, <3>5, PutPlain
        <5>2. text = h[n] \o <<s[n + 1]>>
          BY <5>1, Zenon
        <5>3. from = (n + 1) + 1
          BY <3>5, Zenon
        <5> HIDE DEF text, from
        <5>4. QED
          BY <5>2, <5>3
      <4>2. h[n + 1] = h[n] \o <<s[n + 1]>> /\ Behind(s, sub, n + 2)
        <5>1. (n + 1) + 1 = n + 2
          OBVIOUS
        <5>2. q[n + 1] = <<s[n + 1]>> /\ Behind(s, sub, (n + 1) + 1)
          BY <2>2, <3>1, <3>4, <3>5, Plain
        <5>3. QED
          BY <3>4, <5>1, <5>2
      <4>3. Upto(text, n + 2)
        <5>1. (IF n + 2 > N THEN N ELSE (n + 2) - 1) = n + 1
          BY <1>0, <2>2
        <5> HIDE DEF text
        <5>2. QED
          BY <4>1, <4>2, <5>1 DEF Upto
      <4>4. n + 2 \in (n + 1) + 1 .. N + 2
        BY <1>0, <2>2
      <4> HIDE DEF text, from
      <4>5. QED
        BY <3>3, <4>1, <4>2, <4>3, <4>4
    <3>6. CASE Str!Occurs(s, sub, n + 1)
      <4> DEFINE i == n + 1
      <4>0. i \in 1..N /\ i \in 1..Len(s) /\ i + L <= N + 1 /\ i + L \in Nat
        <5>1. i + L - 1 <= N
          BY <3>6 DEF Str!Occurs, L, N
        <5>2. QED
          BY <1>0, <2>2, <5>1
      <4>1. /\ q[i] = new
            /\ \A j \in i + 1 .. i + L - 1 : q[j] = <<>>
            /\ i + L <= N => q[i + L] = <<s[i + L]>>
            /\ Behind(s, sub, i + L + 1)
        <5>1. /\ Str!Instead(s, sub, new, i) = new
              /\ \A j \in i + 1 .. i + L - 1 : Str!Instead(s, sub, new, j) = <<>>
              /\ i + L <= N => Str!Instead(s, sub, new, i + L) = <<s[i + L]>>
              /\ Behind(s, sub, i + L + 1)
          <6>1. i \in 1..Len(s) /\ Behind(s, sub, i) /\ Str!Occurs(s, sub, i)
            BY <2>2, <3>1, <3>6
          <6> HIDE DEF i
          <6>2. /\ Str!Instead(s, sub, new, i) = new
                /\ \A j \in i + 1 .. i + Len(sub) - 1 : Str!Instead(s, sub, new, j) = <<>>
                /\ i + Len(sub) <= Len(s)
                     => Str!Instead(s, sub, new, i + Len(sub)) = <<s[i + Len(sub)]>>
                /\ Behind(s, sub, i + Len(sub) + 1)
            <7> HIDE DEF text, from
            <7>1. QED
              BY <6>1, Occurrence
          <6> HIDE DEF text, from
          <6>3. QED
            BY <6>2, Zenon DEF L, N
        <5> HIDE DEF i
        <5>2. \A j \in i + 1 .. i + L - 1 : j \in 1..N
          BY <1>0, <4>0
        <5>3. i + L <= N => i + L \in 1..N
          BY <1>0, <4>0
        <5>4. QED
          BY <1>1, <4>0, <5>1, <5>2, <5>3
      <4>2. h[i] = h[n] \o new /\ h[i] \in Seq(Char)
        <5>1. q[n + 1] = new
          BY <4>1
        <5>2. h[n + 1] = h[n] \o new
          BY <3>4, <5>1, Zenon
        <5>3. h[n] \o new \in Seq(Char)
          BY <3>4
        <5>4. QED
          BY <5>2, <5>3
      <4>3. h[i + L - 1] = h[i]
        <5> HIDE DEF i
        <5> DEFINE Same == {m \in Nat : m <= L - 1 => h[i + m] = h[i]}
        <5>1. 0 \in Same
          BY <4>0
        <5>2. ASSUME NEW m \in Nat, m \in Same PROVE m + 1 \in Same
          <6> SUFFICES ASSUME m + 1 <= L - 1 PROVE h[i + (m + 1)] = h[i]
            OBVIOUS
          <6>1. h[i + m] = h[i]
            BY <1>0, <5>2
          <6> HIDE DEF Same
          <6>2. /\ i + (m + 1) \in 1..N /\ i + (m + 1) \in i + 1 .. i + L - 1
                /\ (i + (m + 1)) - 1 = i + m
            BY <1>0, <4>0
          <6>3. h[i + (m + 1)] = h[i + m] \o <<>>
            BY <1>4, <4>1, <6>2
          <6>4. QED
            BY <4>2, <6>1, <6>3
        <5>3. L - 1 \in Same
          <6>1. L - 1 \in Nat
            BY <1>0
          <6> HIDE DEF Same
          <6>2. QED
            BY <5>1, <5>2, <6>1, Climb
        <5>4. h[i + (L - 1)] = h[i]
          BY <1>0, <5>3
        <5>5. i + (L - 1) = i + L - 1
          BY <1>0, <4>0
        <5>6. QED
          BY <5>4, <5>5
      <4>4. from = i + L + 1
        BY <3>6
      <4>5. Upto(text, i + L + 1)
        <5>1. CASE i + L <= N
          <6>1. text = h[n] \o (new \o <<s[i + L]>>)
            <7>1. i \in 1..Len(s) /\ Str!Occurs(s, sub, i)
              BY <2>2, <3>6
            <7>2. text = h[n] \o Str!Put(s, sub, new, i)
              OBVIOUS
            <7> HIDE DEF text, from, i
            <7>3. Str!Put(s, sub, new, i) = new \o <<s[i + L]>>
              <8>1. i + Len(sub) <= Len(s)
                BY <5>1 DEF L, N
              <8>2. Str!Put(s, sub, new, i) = new \o <<s[i + Len(sub)]>>
                BY <7>1, <8>1, PutNew
              <8>3. QED
                BY <8>2 DEF L
            <7>4. QED
              BY <7>2, <7>3
          <6> HIDE DEF text, from, i
          <6>2. i + L \in 1..N /\ (i + L) - 1 = i + L - 1 /\ s[i + L] \in Char
            BY <1>0, <4>0, <5>1
          <6>3. h[i + L] = (h[n] \o new) \o <<s[i + L]>>
            BY <1>4, <4>1, <4>2, <4>3, <5>1, <6>2
          <6>4. (h[n] \o new) \o <<s[i + L]>> = h[n] \o (new \o <<s[i + L]>>)
            <7>1. <<s[i + L]>> \in Seq(Char) /\ h[n] \in Seq(Char) /\ new \in Seq(Char)
              BY <3>4, <6>2
            <7> DEFINE g == h[n]
                       u == <<s[i + L]>>
            <7> HIDE DEF g, u
            <7>2. g \in Seq(Char) /\ u \in Seq(Char) /\ new \in Seq(Char)
              BY <7>1 DEF g, u
            <7>3. (g \o new) \o u = g \o (new \o u)
              BY <7>2, Regroup, ZenonT(60)
            <7>4. QED
              BY <7>3 DEF g, u
          <6>5. (IF i + L + 1 > N THEN N ELSE (i + L + 1) - 1) = i + L
            BY <1>0, <4>0, <5>1
          <6>6. text = h[i + L]
            BY <6>1, <6>3, <6>4
          <6>7. QED
            BY <6>5, <6>6 DEF Upto
        <5>2. CASE ~(i + L <= N)
          <6>1. text = h[n] \o new
            <7>1. i + L > N
              BY <1>0, <4>0, <5>2
            <7>2. Str!Put(s, sub, new, i) = new
              <8>1. i + Len(sub) > Len(s) /\ i \in 1..Len(s) /\ Str!Occurs(s, sub, i)
                BY <2>2, <3>6, <7>1 DEF L, N
              <8> HIDE DEF text, from, i
              <8>2. QED
                BY <8>1, PutAtEnd
            <7>3. QED
              BY <7>2
          <6> HIDE DEF text, from, i
          <6>2. i + L - 1 = N /\ i + L + 1 > N
            BY <1>0, <4>0, <5>2
          <6>3. text = h[N]
            BY <4>2, <4>3, <6>1, <6>2
          <6>4. QED
            BY <6>2, <6>3 DEF Upto
        <5>3. QED
          BY <5>1, <5>2
      <4>6. i + L + 1 \in (n + 1) + 1 .. N + 2
        BY <1>0, <4>0
      <4> HIDE DEF text, from, i
      <4>7. QED
        BY <3>3, <4>1, <4>4, <4>5, <4>6
    <3>7. QED
      BY <3>5, <3>6
  <2>5. QED
    BY <2>3, <2>4
<1>8. N \in Good
  <2> HIDE DEF Good
  <2>1. QED
    BY <1>0, <1>6, <1>7, Climb
<1>9. f[N].text = h[N]
  <2>1. f[N].from \in N + 1 .. N + 2 /\ Upto(f[N].text, f[N].from)
    BY <1>0, <1>8
  <2> HIDE DEF Good
  <2>2. f[N].from > N
    BY <1>0, <2>1
  <2>3. QED
    BY <2>1, <2>2
<1>10. QED
  BY <1>2, <1>4, <1>9

\* A step of the strings gives the text with the replacements.
LEMMA ReplaceKept == ASSUME Str!Next PROVE Str!ReplaceAgrees'
<1>1. CASE Str!Replace
  <2>1. PICK s \in Subject, sub \in Sub, new \in New :
          Str!Once(Str!Call("replace", s, sub, new), Str!replaceSubstring(s, sub, new))
    BY <1>1, Zenon DEF Str!Replace
  <2>2. /\ call'.fn = "replace" /\ call'.string = s /\ call'.a = sub /\ call'.n = new
        /\ result' = Str!replaceSubstring(s, sub, new)
    BY <2>1 DEF Str!Once, Str!Call
  <2>3. s \in Seq(Char) /\ sub \in Seq(Char) /\ sub # <<>> /\ new \in Seq(Char)
    BY TextAssumption
  <2>4. Str!Apart(s, sub) => Str!IsReplaced(s, sub, new, result')
    BY <2>2, <2>3, ReplaceIs
  <2>5. QED
    BY <2>2, <2>4 DEF Str!ReplaceAgrees
<1>2. CASE Str!Tokenize \/ Str!Grep \/ Str!Fetch
  <2>1. call'.fn \in {"tokenizer", "grep", "fetch"}
    BY <1>2 DEF Str!Tokenize, Str!Grep, Str!Fetch, Str!Once, Str!Call
  <2>2. call'.fn # "replace"
    BY <2>1
  <2>3. QED
    BY <2>2 DEF Str!ReplaceAgrees
<1>3. QED
  BY <1>1, <1>2 DEF Str!Next

\* The functions that keep nothing do what they are for, for any text: replaceSubstring
\* puts the new text in the place of every occurrence and keeps the rest, grep returns
\* the lines with the pattern, string_fetch_integer the number asked for.
THEOREM TextsAgree == StructuresSpec => []TextAgrees
<1>1. StructuresInit => TextAgrees
  <2>1. Str!Init => call.fn = "none"
    BY DEF Str!Init, Str!Call
  <2>2. "none" # "grep" /\ "none" # "fetch" /\ "none" # "replace"
    OBVIOUS
  <2>3. QED
    BY <2>1, <2>2 DEF StructuresInit, TextAgrees, Str!TextAgrees, Str!ReplaceAgrees,
                      Str!GrepAgrees, Str!FetchAgrees
<1>2. TextAgrees /\ [StructuresNext]_<<vars, glue, ser, str>> => TextAgrees'
  <2>1. ASSUME TextAgrees, UNCHANGED str PROVE TextAgrees'
    BY <2>1 DEF TextAgrees, Str!TextAgrees, Str!ReplaceAgrees, Str!GrepAgrees,
                Str!FetchAgrees, str
  <2>2. ASSUME Str!Next PROVE TextAgrees'
    <3>1. LinesInv' /\ Str!ReplaceAgrees'
      BY <2>2, LinesKept, ReplaceKept
    <3>2. QED
      BY <3>1 DEF TextAgrees, Str!TextAgrees, LinesInv
  <2>3. ASSUME [StructuresNext]_<<vars, glue, ser, str>> PROVE Str!Next \/ UNCHANGED str
    BY <2>3 DEF StructuresNext, RingStep, ListStep, BufferStep, StringStep
  <2>4. QED
    BY <2>1, <2>2, <2>3
<1>3. QED
  BY <1>1, <1>2, PTL DEF StructuresSpec
===============================================================================
