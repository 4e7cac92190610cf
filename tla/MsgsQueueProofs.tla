--------------------------- MODULE MsgsQueueProofs ---------------------------
(***************************************************************************)
(* The safety properties of MsgsQueue for any number of listening threads, *)
(* any number of messages and any initial value of is_running.             *)
(***************************************************************************)
EXTENDS MsgsQueue, SequenceTheorems, TLAPS

\* What the caller of Start and Stop knows of is_running where it stands.
CtlKnows ==
  /\ ctl = "started" => ~is_running
  /\ ctl \in {"launch", "clear", "flag"} => is_running
  /\ ctl \in {"notify", "join"} => ~is_running

\* A reader in the gap saw an empty queue and still holds the mutex.
GapSawEmpty == reader = "gap" => msgs_queue = <<>>

\* A reader in the gap has missed the notification if it has been sent.
GapMissed == ctl = "join" /\ reader = "gap" => missed

\* Once launched, the reader is there until a Stop has joined it.
ReaderThere ==
  launched => \/ reader # "none"
              \/ ctl \in {"idle", "started"} /\ ~is_running
              \/ ctl = "launch"

\* The inductive invariant of the control part.
ControlInv == /\ TypeOK /\ CtlKnows /\ GapSawEmpty /\ GapMissed /\ ReaderThere
              /\ FrontExists /\ NoStrandedMessage /\ HangOnlyIfMissed
              /\ StoppedMeansJoined /\ TerminatedOnlyUnlaunched

LEMMA InitControl == ASSUME InitRunningAssumption, Init
                     PROVE  ControlInv
<1>1. is_running \in BOOLEAN
  BY Zenon DEF InitRunningAssumption, Init
<1>2. msgs_queue \in Seq(Nat) /\ delivered \in Seq(Nat)
  BY EmptySeq, Zenon DEF Init
<1> QED
  BY <1>1, <1>2 DEF Init, ControlInv, TypeOK, CtlKnows, GapSawEmpty, GapMissed,
     ReaderThere, FrontExists, NoStrandedMessage, HangOnlyIfMissed,
     StoppedMeansJoined, TerminatedOnlyUnlaunched

USE DEF history

LEMMA CtlControl == ASSUME ControlInv, ~terminated, Ctl
                    PROVE  ControlInv'
<1> USE DEF ControlInv, TypeOK, CtlKnows, GapSawEmpty,
   GapMissed, ReaderThere, FrontExists, NoStrandedMessage, HangOnlyIfMissed,
   StoppedMeansJoined, TerminatedOnlyUnlaunched
<1>1. CASE StartThreads
  BY <1>1 DEF StartThreads, Down
<1>2. CASE SetRunning
  BY <1>2 DEF SetRunning
<1>3. CASE LaunchReader
  BY <1>3 DEF LaunchReader
<1>4. CASE StopBegin
  BY <1>4 DEF StopBegin
<1>5. CASE AllJoined
  BY <1>5 DEF AllJoined
<1>6. CASE ClearRunning
  BY <1>6 DEF ClearRunning
<1>7. CASE StopNotify
  BY <1>7 DEF StopNotify, Wake
<1>8. CASE StopJoin
  BY <1>8 DEF StopJoin
<1>9. ASSUME NEW l \in Listener, JoinListener(l)
      PROVE  ControlInv'
  BY <1>9 DEF JoinListener
<1> QED
  BY <1>1, <1>2, <1>3, <1>4, <1>5, <1>6, <1>7, <1>8, <1>9 DEF Ctl

LEMMA ListenerControl ==
  ASSUME ControlInv, ~terminated, NEW l \in Listener, Listening(l)
  PROVE  ControlInv'
<1> USE DEF ControlInv, TypeOK, CtlKnows, GapSawEmpty,
   GapMissed, ReaderThere, FrontExists, NoStrandedMessage, HangOnlyIfMissed,
   StoppedMeansJoined, TerminatedOnlyUnlaunched
<1>1. CASE SpawnListener(l)
  BY <1>1 DEF SpawnListener
<1>2. CASE Push(l)
  BY <1>2, AppendProperties DEF Push, ReaderHoldsMutex
<1>3. CASE Notify(l)
  BY <1>3 DEF Notify, Wake
<1> QED
  BY <1>1, <1>2, <1>3 DEF Listening

LEMMA ReaderControl == ASSUME ControlInv, ~terminated, Reader \/ SpuriousWakeup
                       PROVE  ControlInv'
<1> USE DEF ControlInv, TypeOK, CtlKnows, GapSawEmpty,
   GapMissed, ReaderThere, FrontExists, NoStrandedMessage, HangOnlyIfMissed,
   StoppedMeansJoined, TerminatedOnlyUnlaunched, Quiet, Reads
<1>1. CASE Lock
  BY <1>1 DEF Lock
<1>2. CASE Check
  BY <1>2 DEF Check, HasWork
<1>3. CASE Block
  BY <1>3 DEF Block
<1>4. CASE SpuriousWakeup
  BY <1>4 DEF SpuriousWakeup
<1>5. CASE Test
  BY <1>5 DEF Test
<1>6. CASE Deliver
  BY <1>6, HeadTailProperties DEF Deliver
<1>7. CASE Pop
  BY <1>7, HeadTailProperties DEF Pop
<1> QED
  BY <1>1, <1>2, <1>3, <1>4, <1>5, <1>6, <1>7 DEF Reader

(***************************************************************************)
(* Every step of the system keeps the control invariant.                   *)
(***************************************************************************)
LEMMA StepControl == ASSUME ControlInv, [Next]_vars
                     PROVE  ControlInv'
<1>1. CASE Next
  BY <1>1, CtlControl, ListenerControl, ReaderControl DEF Next
<1>2. CASE UNCHANGED vars
  BY <1>2 DEF vars, ControlInv, TypeOK, CtlKnows, GapSawEmpty, GapMissed,
     ReaderThere, FrontExists, NoStrandedMessage, HangOnlyIfMissed,
     StoppedMeansJoined, TerminatedOnlyUnlaunched
<1> QED
  BY <1>1, <1>2

-----------------------------------------------------------------------------
(***************************************************************************)
(* Two facts about sequences: the count grows at the end of the pending    *)
(* ones, and the front of the pending ones moves to the delivered ones.    *)
(***************************************************************************)
LEMMA PushAtEnd ==
  ASSUME NEW d \in Seq(Nat), NEW q \in Seq(Nat), NEW n \in Nat,
         d \o q = [i \in 1..n |-> i]
  PROVE  d \o Append(q, n + 1) = [i \in 1..(n + 1) |-> i]
<1> DEFINE s == d \o q
           t == d \o Append(q, n + 1)
<1>1. Len(d) \in Nat /\ Len(q) \in Nat /\ Len(s) = Len(d) + Len(q)
  BY LenProperties, ConcatProperties
<1>2. Len(s) = n /\ \A i \in 1..n : s[i] = i
  BY <1>1, LenProperties, ConcatProperties, SMT
<1>3. /\ Append(q, n + 1) \in Seq(Nat) /\ Len(Append(q, n + 1)) = Len(q) + 1
      /\ \A i \in 1..Len(q) : Append(q, n + 1)[i] = q[i]
      /\ Append(q, n + 1)[Len(q) + 1] = n + 1
  BY <1>1, SMT
<1> DEFINE r == Append(q, n + 1)
<1> HIDE DEF r
<1>4. /\ d \o r \in Seq(Nat) /\ Len(d \o r) = n + 1
      /\ \A i \in 1..(n + 1) : (d \o r)[i] =
            IF i <= Len(d) THEN d[i] ELSE r[i - Len(d)]
      /\ t = d \o r
  <2>1. r \in Seq(Nat) /\ Len(r) = Len(q) + 1 /\ Len(d) + Len(r) = n + 1
    BY <1>1, <1>2, <1>3, SMT DEF r
  <2>2. /\ d \o r \in Seq(Nat) /\ Len(d \o r) = Len(d) + Len(r)
        /\ \A i \in 1..(Len(d) + Len(r)) : (d \o r)[i] =
              IF i <= Len(d) THEN d[i] ELSE r[i - Len(d)]
    BY <2>1, ConcatProperties
  <2>3. t = d \o r
    BY DEF r
  <2> QED
    BY <2>1, <2>2, <2>3
<1>5. ASSUME NEW i \in 1..(n + 1)
      PROVE  t[i] = i
  <2>0. \A j \in 1..n : (d \o q)[j] = IF j <= Len(d) THEN d[j] ELSE q[j - Len(d)]
    <3>1. n = Len(d) + Len(q)
      BY <1>1, <1>2
    <3>2. \A j \in 1..(Len(d) + Len(q)) :
             (d \o q)[j] = IF j <= Len(d) THEN d[j] ELSE q[j - Len(d)]
      BY ConcatProperties
    <3> QED
      BY <3>1, <3>2
  <2>1. CASE i <= Len(d)
    BY <1>1, <1>2, <1>4, <2>0, <2>1, SMT
  <2>2. CASE i > Len(d) /\ i <= n
    <3>1. i - Len(d) \in 1..Len(q) /\ i \in 1..n /\ ~(i <= Len(d))
      BY <1>1, <1>2, <2>2, SMT
    <3>2. r[i - Len(d)] = q[i - Len(d)]
      BY <1>3, <3>1 DEF r
    <3> QED
      BY <1>2, <1>4, <2>0, <3>1, <3>2
  <2>3. CASE i = n + 1
    <3>1. i - Len(d) = Len(q) + 1 /\ ~(i <= Len(d))
      BY <1>1, <1>2, <2>3, SMT
    <3>2. r[i - Len(d)] = n + 1
      BY <1>3, <3>1 DEF r
    <3> QED
      BY <1>4, <2>3, <3>1, <3>2
  <2>4. i <= Len(d) \/ (i > Len(d) /\ i <= n) \/ i = n + 1
    BY <1>1, SMT
  <2> QED
    BY <2>1, <2>2, <2>3, <2>4
<1>6. t \in [1..(n + 1) -> Nat]
  BY <1>4, LenProperties
<1> HIDE DEF t
<1>7. t = [i \in 1..(n + 1) |-> i]
  BY <1>5, <1>6
<1> QED
  BY <1>7 DEF t

LEMMA DeliverFront ==
  ASSUME NEW d \in Seq(Nat), NEW q \in Seq(Nat), q # <<>>
  PROVE  Append(d, Head(q)) \o Tail(q) = d \o q
<1>1. /\ Head(q) \in Nat /\ Tail(q) \in Seq(Nat) /\ Len(Tail(q)) = Len(q) - 1
      /\ \A i \in 1..Len(Tail(q)) : Tail(q)[i] = q[i + 1]
      /\ Head(q) = q[1]
  BY HeadTailProperties, SMT
<1>2. Len(d) \in Nat /\ Len(q) \in Nat /\ Len(q) >= 1
  BY EmptySeq, LenProperties, SMT
<1>3. /\ Append(d, Head(q)) \in Seq(Nat) /\ Len(Append(d, Head(q))) = Len(d) + 1
      /\ \A i \in 1..Len(d) : Append(d, Head(q))[i] = d[i]
      /\ Append(d, Head(q))[Len(d) + 1] = Head(q)
  BY <1>1, <1>2, SMT
<1> DEFINE a == Append(d, Head(q))
<1> HIDE DEF a
<1>4. /\ a \o Tail(q) \in Seq(Nat) /\ Len(a \o Tail(q)) = Len(d) + Len(q)
      /\ \A i \in 1..(Len(d) + Len(q)) : (a \o Tail(q))[i] =
            IF i <= Len(d) + 1 THEN a[i] ELSE Tail(q)[i - (Len(d) + 1)]
  BY <1>1, <1>2, <1>3, ConcatProperties, SMT DEF a
<1>5. /\ d \o q \in Seq(Nat) /\ Len(d \o q) = Len(d) + Len(q)
      /\ \A i \in 1..(Len(d) + Len(q)) : (d \o q)[i] =
            IF i <= Len(d) THEN d[i] ELSE q[i - Len(d)]
  BY ConcatProperties
<1>6. ASSUME NEW i \in 1..(Len(d) + Len(q))
      PROVE  (a \o Tail(q))[i] = (d \o q)[i]
  <2>1. CASE i <= Len(d)
    BY <1>2, <1>3, <1>4, <1>5, <2>1, SMT DEF a
  <2>2. CASE i = Len(d) + 1
    BY <1>1, <1>2, <1>3, <1>4, <1>5, <2>2, SMT DEF a
  <2>3. CASE i > Len(d) + 1
    <3>1. /\ i - (Len(d) + 1) \in 1..Len(Tail(q))
          /\ i - (Len(d) + 1) + 1 = i - Len(d)
      BY <1>1, <1>2, <2>3, SMT
    <3>2. Tail(q)[i - (Len(d) + 1)] = q[i - Len(d)]
      BY <1>1, <3>1
    <3> QED
      BY <1>2, <1>4, <1>5, <2>3, <3>2, SMT
  <2>4. i <= Len(d) \/ i = Len(d) + 1 \/ i > Len(d) + 1
    BY <1>2, SMT
  <2> QED
    BY <2>1, <2>2, <2>3, <2>4
<1>7. a \o Tail(q) = d \o q
  BY <1>4, <1>5, <1>6, SeqEqual
<1> QED
  BY <1>7 DEF a

LEMMA StepOrder ==
  ASSUME ControlInv, DeliveredOnceInOrder, [Next]_vars
  PROVE  DeliveredOnceInOrder'
<1>1. /\ msgs_queue \in Seq(Nat) /\ delivered \in Seq(Nat) /\ sent \in Nat
      /\ reader \in {"deliver", "pop"} => msgs_queue # <<>>
  BY DEF ControlInv, TypeOK, FrontExists
<1>2. ASSUME NEW l \in Listener, Push(l)
      PROVE  DeliveredOnceInOrder'
  <2>1. /\ reader # "pop" /\ reader' = reader /\ delivered' = delivered
        /\ msgs_queue' = Append(msgs_queue, sent + 1) /\ sent' = sent + 1
    BY <1>2 DEF Push, ReaderHoldsMutex
  <2>2. delivered \o msgs_queue = [i \in 1..sent |-> i]
    BY <2>1 DEF DeliveredOnceInOrder, Pending
  <2>3. delivered \o Append(msgs_queue, sent + 1) = [i \in 1..(sent + 1) |-> i]
    BY <1>1, <2>2, PushAtEnd
  <2> QED
    BY <2>1, <2>3 DEF DeliveredOnceInOrder, Pending
<1>3. CASE Deliver
  <2>1. /\ reader = "deliver" /\ reader' = "pop" /\ msgs_queue' = msgs_queue
        /\ delivered' = Append(delivered, Head(msgs_queue)) /\ sent' = sent
    BY <1>3 DEF Deliver, Reads
  <2>2. Append(delivered, Head(msgs_queue)) \o Tail(msgs_queue)
           = delivered \o msgs_queue
    BY <1>1, <2>1, DeliverFront
  <2> QED
    BY <2>1, <2>2 DEF DeliveredOnceInOrder, Pending
<1>4. CASE Pop
  BY <1>4 DEF Pop, Reads, DeliveredOnceInOrder, Pending
<1>5. ASSUME UNCHANGED <<msgs_queue, delivered, sent>>,
             (reader = "pop") = (reader' = "pop")
      PROVE  DeliveredOnceInOrder'
  BY <1>5 DEF DeliveredOnceInOrder, Pending
<1>6. CASE \/ Ctl \/ SpuriousWakeup \/ UNCHANGED vars
           \/ \E l \in Listener : SpawnListener(l) \/ Notify(l)
  <2>1. UNCHANGED <<msgs_queue, delivered, sent>>
    BY <1>6 DEF Ctl, StartThreads, SetRunning, LaunchReader, StopBegin,
       AllJoined, ClearRunning, StopNotify, StopJoin, JoinListener, SpawnListener,
       Notify, SpuriousWakeup, Quiet, vars
  <2>2. (reader = "pop") = (reader' = "pop")
    BY <1>6 DEF ControlInv, CtlKnows, StoppedMeansJoined, Ctl, StartThreads,
       SetRunning, LaunchReader, StopBegin, AllJoined, ClearRunning, StopNotify,
       StopJoin, JoinListener, SpawnListener, Notify, SpuriousWakeup, Quiet,
       Reads, Wake, vars
  <2> QED
    BY <2>1, <2>2, <1>5
<1>7. CASE Lock \/ Check \/ Block \/ Test
  <2>1. UNCHANGED <<msgs_queue, delivered, sent>>
    BY <1>7 DEF Lock, Check, Block, Test, Quiet
  <2>2. (reader = "pop") = (reader' = "pop")
    BY <1>7 DEF Lock, Check, Block, Test, Reads
  <2> QED
    BY <2>1, <2>2, <1>5
<1> QED
  BY <1>2, <1>3, <1>4, <1>6, <1>7 DEF Next, Reader, Listening

-----------------------------------------------------------------------------
LEMMA InvariantHolds == Spec => [](ControlInv /\ DeliveredOnceInOrder)
<1>1. Init => ControlInv
  BY InitControl, InitRunningAssumption
<1>2. Init => DeliveredOnceInOrder
  <2> SUFFICES ASSUME Init PROVE <<>> \o <<>> = [i \in 1..0 |-> i]
    BY DEF Init, DeliveredOnceInOrder, Pending
  <2> QED
    BY SMT
<1>3. ControlInv /\ DeliveredOnceInOrder /\ [Next]_vars
         => (ControlInv /\ DeliveredOnceInOrder)'
  BY StepControl, StepOrder
<1> QED
  BY <1>1, <1>2, <1>3, PTL DEF Spec

(***************************************************************************)
(* The variables keep their types and the callback always finds a front.   *)
(***************************************************************************)
THEOREM ReaderNeverReadsEmptyQueue == Spec => [](TypeOK /\ FrontExists)
BY InvariantHolds, PTL DEF ControlInv

(***************************************************************************)
(* No message is lost, delivered twice or out of order, by any number of   *)
(* listening threads and over any number of stops and starts.              *)
(***************************************************************************)
THEOREM EachMessageOnceInOrder == Spec => []DeliveredOnceInOrder
BY InvariantHolds, PTL

(***************************************************************************)
(* OnMsgReceived never loses a wakeup: msgs_thread does not sleep on a     *)
(* message unless somebody is about to notify it.                          *)
(***************************************************************************)
THEOREM NoLostWakeupOfAMessage == Spec => []NoStrandedMessage
BY InvariantHolds, PTL DEF ControlInv

(***************************************************************************)
(* The missed notification of Stop is the only way for it to hang, and no  *)
(* msgs_thread survives a Stop that returned.                              *)
(***************************************************************************)
THEOREM StopIsSoundUnlessMissed == Spec => [](HangOnlyIfMissed /\ StoppedMeansJoined)
BY InvariantHolds, PTL DEF ControlInv

(***************************************************************************)
(* Only the random initial value of is_running makes Stop terminate the    *)
(* process, and only before the first Start.                               *)
(***************************************************************************)
THEOREM TerminationNeedsGarbage == Spec => []TerminatedOnlyUnlaunched
BY InvariantHolds, PTL DEF ControlInv
=============================================================================
