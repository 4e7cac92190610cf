-------------------- MODULE TcpClientServiceManagerProofs --------------------
(***************************************************************************)
(* For any number of clients, slots, listening threads and starts: what    *)
(* the service manager's runs check on small instances, from an inductive  *)
(* invariant in layers - types, who holds threads_mtx and where each       *)
(* listening thread stands, poll_fds_num, who holds a client, where each   *)
(* client of a listening thread is, Start's walk through the list, and who *)
(* holds the listed clients.  Each layer is proved from those before it.   *)
(***************************************************************************)
EXTENDS TcpClientServiceManager, FiniteSetTheorems, WellFoundedInduction,
        SequenceTheorems, TLAPS

-----------------------------------------------------------------------------
Distinct(s) == \A i, j \in DOMAIN s : s[i] = s[j] => i = j

CtlState == [pc : {"idle", "spawn", "bind", "stop", "join"}, pos : Nat]
StartState == [live : BOOLEAN, num : Nat, last : Client \cup {None}, listed : Seq(Client)]
AccepterState == [pc : {"idle", "lock", "try", "write", "bind"},
                  client : Client \cup {None}, pos : Nat]
Place_ == {"unborn", "init", "poll", "command", "scan", "remove", "removeclosed", "exited"}

\* The types TypeOK has no need to state are here as well.
ManagerTypes ==
  /\ threads \in Seq(Thread) /\ threads_mtx \in {"free", "accepter", "ctl"}
  /\ is_running \in BOOLEAN
  /\ ctl \in CtlState /\ start \in StartState /\ accepter \in AccepterState
  /\ raced \in SUBSET Thread /\ relisted \in SUBSET Client /\ skipped \in SUBSET Client

ThreadTypes ==
  /\ pc \in [Thread -> Place_]
  /\ buffers \in [Thread -> Seq(Client)]
  /\ slots \in [Thread -> [Slot -> Client \cup {None}]]
  /\ poll_fds_num \in [Thread -> 1..(MaxClients + 1)]
  /\ revents \in [Thread -> [Slot -> {"none", "in", "hup"}]]
  /\ leaving \in [Thread -> Client \cup {None}]
  /\ pipe \in [Thread -> Seq(Client \cup {"s"})]
  /\ bound \in [Thread -> 0..2]
  /\ born \in [Thread -> Seq(Client)]
  /\ \A t \in Thread : Len(buffers[t]) <= MaxClients

WorldTypes ==
  /\ sock \in [Client -> {"unborn", "open", "data", "datafin", "fin", "rst"}]
  /\ db \in Seq(Client)
  /\ notified \in [Client -> 0..2]

Types == ManagerTypes /\ ThreadTypes /\ WorldTypes

\* Who holds threads_mtx, and where the two that take it stand.
LockInv ==
  /\ threads_mtx = "accepter" <=> accepter.pc \in {"try", "write", "bind"}
  /\ threads_mtx = "ctl" <=> ctl.pc # "idle"
  /\ ctl.pc \in {"spawn", "bind"} => ~is_running
  /\ ctl.pc \in {"stop", "join"} => is_running /\ ctl.pos >= 1
  /\ ctl.pc = "join" => ctl.pos <= Len(threads)
  /\ accepter.pc = "idle" <=> accepter.client = None
  /\ accepter.pc \in {"lock", "try", "write"} => accepter.pos >= 1
  /\ accepter.pc = "write" => accepter.pos <= Len(threads)

\* Stop has joined and destroyed the thread at this place of the vector.
Joined(i) == ctl.pc \in {"stop", "join"} /\ i < ctl.pos

\* The vector holds every thread that lives, but the one that is being made; what it
\* holds lives and has its callbacks, but those Stop has joined.
VectorInv ==
  /\ Distinct(threads)
  /\ \A i \in DOMAIN threads : IF Joined(i) THEN pc[threads[i]] = "unborn"
                               ELSE pc[threads[i]] # "unborn" /\ bound[threads[i]] = 2
  /\ \A t \in Thread : pc[t] # "unborn" /\ t \notin Elems(threads) =>
       bound[t] < 2 /\ (accepter.pc = "bind" \/ ctl.pc = "bind")
  /\ \A t, u \in Unbound : t = u

\* What a thread has where: nothing before it is born, before its first look at its
\* buffers and after the stop command, and an event only of a slot that is in use.
Stands(t) ==
  /\ pc[t] = "unborn" => bound[t] = 0 /\ t \notin raced
  /\ pc[t] \in {"unborn", "exited"} => buffers[t] = <<>> /\ pipe[t] = <<>>
  /\ pc[t] \in {"unborn", "init", "exited"} => slots[t] = NoSlots /\ revents[t] = NoEvents
  /\ leaving[t] # None <=> pc[t] \in {"remove", "removeclosed"}
  /\ pc[t] = "command" => pipe[t] # <<>>
  /\ \A i \in Slot : revents[t][i] # "none" => slots[t][i] # None
ThreadInv == \A t \in Thread : Stands(t)

Joining(t) == ctl.pc = "join" /\ t = threads[ctl.pos]

\* The stop command is the last that is written to a thread, by Stop, which joins it.
Heeds(t) ==
  /\ pc[t] = "exited" => Joining(t)
  /\ \A i \in DOMAIN pipe[t] : pipe[t][i] = "s" => i = Len(pipe[t]) /\ Joining(t)
StopInv == \A t \in Thread : Heeds(t)

ControlInv == LockInv /\ VectorInv /\ ThreadInv /\ StopInv

\* poll_fds_num: the part of PollCountExact that is not TypeOK.
Used(t) == {i \in Slot : slots[t][i] # None}
PollCount(t) == pc[t] \notin {"unborn", "init", "exited"} =>
                  poll_fds_num[t] = IF Used(t) = {} THEN 1 ELSE Greatest(Used(t)) + 1
CountInv == \A t \in Thread : PollCount(t)

\* The acceptor has the client in hand, and no thread has it yet.
InHand(c) == accepter.pc \in {"lock", "try"} /\ accepter.client = c

\* Nobody has to do with a client that has not connected.
Untouched(c) == /\ c \notin Elems(db) /\ c \notin Elems(start.listed)
                /\ accepter.client # c /\ notified[c] = 0
                /\ \A t \in Thread : c \notin Elems(buffers[t])
BornInv == \A c \in Client : sock[c] = "unborn" => Untouched(c)

\* A client has one holder, and once reported it is in nobody's hands but those of the
\* thread that is taking it out.
Alone(c) ==
  /\ notified[c] <= 1
  /\ \A t, u \in Thread : c \in Elems(buffers[t]) /\ c \in Elems(buffers[u]) => t = u
  /\ InHand(c) => notified[c] = 0 /\ \A t \in Thread : c \notin Elems(buffers[t])
  /\ notified[c] > 0 => \A t \in Thread : c \in Elems(buffers[t]) => leaving[t] = c

HolderInv ==
  /\ \A t \in Thread : leaving[t] # None => notified[leaving[t]] > 0
  /\ \A c \in Client : notified[c] > 0 => c \notin Elems(db)
  /\ \A c \in Client \ relisted : Alone(c)

\* Until its callbacks are there a thread has the clients it was made with.
MadeInv == \A t \in Thread :
             bound[t] < 2 => Elems(buffers[t]) \subseteq Elems(born[t])

ListInv == Distinct(db) /\ Distinct(start.listed)

Commands(t) == Elems(pipe[t]) \ {"s"}
Told(t) == IF TellingOf(t) THEN {accepter.client} ELSE {}
Slotted(t) == {slots[t][i] : i \in Slot} \ {None}
Serves(t) == pc[t] \in {"poll", "command", "scan", "remove", "removeclosed"}

\* A client in a thread's buffers is at one place: in one slot, in one command, about
\* to be told of, or being taken out.
Account(t) ==
  /\ Distinct(buffers[t])
  /\ pc[t] = "init" => Commands(t) = {} /\ ~TellingOf(t)
  /\ Serves(t) =>
       /\ Elems(buffers[t]) = Slotted(t) \cup Commands(t) \cup Told(t)
                                \cup ({leaving[t]} \ {None})
       /\ \A i, j \in Used(t) : slots[t][i] = slots[t][j] => i = j
       /\ Distinct(pipe[t])
       /\ Slotted(t) \cap Commands(t) = {}
       /\ Told(t) \cap (Slotted(t) \cup Commands(t)) = {}
       /\ leaving[t] \notin Slotted(t) \cup Commands(t) \cup Told(t)

AccountInv == \A t \in Thread \ raced : Account(t)

\* While Start walks: how many clients it has passed, and whom it has yet to pass.
Passed == ctl.pos * MaxClients
NobodyLeft == Elems(start.listed) \subseteq Elems(db)
Extended == /\ start.live /\ accepter.pc = "lock"
            /\ db = Append(start.listed, accepter.client)
            /\ \A t \in Thread : accepter.client \notin Elems(buffers[t])

OnTrack ==
  /\ db = start.listed \/ Extended
  /\ IF Passed < Len(start.listed) THEN start.last = start.listed[Passed + 1]
     ELSE start.last = None \/ (start.last = accepter.client /\ Extended)

Walks ==
  /\ start.num = Len(start.listed) \div MaxClients + 1
  /\ ~start.live => start.listed = <<>> /\ start.last = None
  /\ start.live /\ NobodyLeft /\ ctl.pos < start.num => OnTrack

WalkInv ==
  /\ ctl.pc = "spawn" => ctl.pos < start.num
  /\ ctl.pc = "bind" => ctl.pos \in 1..start.num
  /\ ctl.pc \in {"spawn", "bind"} => Walks

Held == (UNION {Elems(buffers[t]) : t \in Thread}) \cup {c \in Client : InHand(c)}
Remaining == {start.listed[j] : j \in {i \in DOMAIN start.listed : i > Passed}}

\* While the service runs a listed client is held; while Start walks it is, or Start
\* has yet to come to it.
HeldInv ==
  /\ ctl.pc = "idle" /\ is_running => Elems(db) \subseteq Held \cup skipped
  /\ ctl.pc \in {"spawn", "bind"} => Elems(db) \subseteq Held \cup skipped \cup Remaining

IInv == /\ Types /\ ControlInv /\ CountInv
        /\ BornInv /\ HolderInv /\ MadeInv /\ ListInv
        /\ AccountInv /\ WalkInv /\ HeldInv /\ FailureExplained

-----------------------------------------------------------------------------
\* A set of naturals that is not empty has a least element, one that is bounded a
\* greatest.
LEMMA LeastExists ==
  ASSUME NEW S \in SUBSET Nat, S # {}
  PROVE  Least(S) \in S /\ \A j \in S : Least(S) <= j
<1> DEFINE R == OpToRel(<, Nat)
<1>1. IsWellFoundedOn(R, Nat)
  BY NatLessThanWellFounded
<1>2. R = {ss \in Nat \X Nat : ss[1] < ss[2]}
  BY Zenon DEF OpToRel
<1> HIDE DEF R
<1>3. \E i \in S : \A j \in S : ~(<<j, i>> \in R)
  BY <1>1, WFMin
<1>4. PICK i \in S : \A j \in S : ~(<<j, i>> \in R)
  BY <1>3
<1>5. \A j \in S : i <= j
  <2>1. \A a, b \in Nat : a < b => <<a, b>> \in R
    BY <1>2
  <2>2. \A j \in S : j \in Nat /\ i \in Nat
    OBVIOUS
  <2>3. \A j \in S : ~(j < i)
    BY <1>4, <2>1, <2>2, Zenon
  <2>4. QED
    BY <2>2, <2>3
<1>6. QED
  BY <1>5 DEF Least

LEMMA GreatestExists ==
  ASSUME NEW n \in Nat, NEW S \in SUBSET (0..n), S # {}
  PROVE  Greatest(S) \in S /\ \A j \in S : j <= Greatest(S)
<1> DEFINE T == {n - i : i \in S}
<1>1. T \in SUBSET Nat /\ T # {}
  <2>1. PICK i \in S : TRUE
    OBVIOUS
  <2>2. n - i \in T /\ \A j \in S : n - j \in Nat
    OBVIOUS
  <2>3. QED
    BY <2>2
<1>2. PICK k \in T : \A j \in T : k <= j
  BY <1>1, LeastExists
<1>3. PICK i \in S : k = n - i
  BY <1>2
<1>4. \A j \in S : j <= i
  BY <1>2, <1>3
<1>5. QED
  BY <1>4 DEF Greatest

-----------------------------------------------------------------------------
\* What is kept is numbered by Rank, in its order and without a gap.
LEMMA RankIsBijection ==
  ASSUME NEW n \in Nat, NEW K \in SUBSET (1..n)
  PROVE  /\ Cardinality(K) \in 0..n
         /\ \A i \in K : Rank(K, i) \in 1..Cardinality(K)
         /\ \A i, j \in K : Rank(K, i) = Rank(K, j) => i = j
         /\ \A m \in 1..Cardinality(K) : \E i \in K : Rank(K, i) = m
<1> DEFINE Upto(i) == {j \in K : j <= i}
           rank == [i \in K |-> Rank(K, i)]
<1>1. IsFiniteSet(K) /\ Cardinality(K) \in Nat /\ Cardinality(K) <= n
  <2>1. IsFiniteSet(1..n) /\ Cardinality(1..n) = IF 1 > n THEN 0 ELSE n - 1 + 1
    BY FS_Interval
  <2>2. IsFiniteSet(K) /\ Cardinality(K) <= Cardinality(1..n)
    BY <2>1, FS_Subset
  <2>3. QED
    BY <2>1, <2>2, FS_CardinalityType
<1>2. \A i \in K : /\ IsFiniteSet(Upto(i)) /\ Cardinality(Upto(i)) \in Nat
                    /\ Cardinality(Upto(i)) \in 1..Cardinality(K)
  <2> TAKE i \in K
  <2>1. IsFiniteSet(Upto(i)) /\ Cardinality(Upto(i)) <= Cardinality(K)
    BY <1>1, FS_Subset
  <2>2. Cardinality(Upto(i)) \in Nat
    BY <2>1, FS_CardinalityType
  <2>3. Cardinality(Upto(i)) # 0
    BY <2>1, FS_EmptySet
  <2>4. QED
    BY <1>1, <2>1, <2>2, <2>3
<1>3. ASSUME NEW i \in K, NEW j \in K, i < j
      PROVE  Cardinality(Upto(i)) < Cardinality(Upto(j))
  <2>0. i \in Int /\ j \in Int /\ \A k \in K : k \in Int
    OBVIOUS
  <2>1. \A k \in Upto(i) : k \in Upto(j)
    BY <1>3, <2>0
  <2>2. j \in Upto(j)
    BY <2>0
  <2>3. j \notin Upto(i)
    BY <1>3, <2>0
  <2>4. Upto(i) \in SUBSET Upto(j) /\ Upto(i) # Upto(j)
    BY <2>1, <2>2, <2>3
  <2> HIDE DEF Upto
  <2>5. /\ Cardinality(Upto(i)) <= Cardinality(Upto(j))
        /\ Cardinality(Upto(j)) # Cardinality(Upto(i))
    BY <1>2, <2>4, FS_Subset
  <2>6. QED
    BY <1>2, <2>5
<1>4. \A i, j \in K : Cardinality(Upto(i)) = Cardinality(Upto(j)) => i = j
  <2> SUFFICES ASSUME NEW i \in K, NEW j \in K, i # j
               PROVE  Cardinality(Upto(i)) # Cardinality(Upto(j))
    OBVIOUS
  <2>1. i < j \/ j < i
    OBVIOUS
  <2>2. QED
    BY <1>2, <1>3, <2>1
<1>5. \A i \in K : rank[i] = Cardinality(Upto(i)) /\ Rank(K, i) = rank[i]
  BY DEF Rank
<1> HIDE DEF Upto, rank
<1>6. rank \in Injection(K, 1..Cardinality(K))
  <2>1. rank \in [K -> 1..Cardinality(K)]
    <3>1. rank = [i \in K |-> Rank(K, i)]
      BY DEF rank
    <3>2. QED
      BY <1>2, <1>5, <3>1
  <2>2. QED
    BY <1>4, <1>5, <2>1 DEF Injection, IsInjective
<1>7. IsFiniteSet(1..Cardinality(K)) /\ Cardinality(1..Cardinality(K)) = Cardinality(K)
  BY <1>1, FS_Interval
<1>8. rank \in Surjection(K, 1..Cardinality(K))
  BY <1>6, <1>7, FS_Injection
<1>9. \A m \in 1..Cardinality(K) : \E i \in K : rank[i] = m
  BY <1>8 DEF Surjection
<1>10. QED
  BY <1>1, <1>2, <1>4, <1>5, <1>9

\* Without takes out what it is told to and nothing else.
LEMMA WithoutFacts ==
  ASSUME NEW S, NEW s \in Seq(S), NEW c
  PROVE  /\ Without(s, c) \in Seq(S)
         /\ Len(Without(s, c)) <= Len(s)
         /\ Elems(Without(s, c)) = Elems(s) \ {c}
         /\ Distinct(s) => Distinct(Without(s, c))
<1> DEFINE kept == {i \in DOMAIN s : s[i] # c}
           m == Cardinality(kept)
           At(n) == CHOOSE i \in kept : Rank(kept, i) = n
<1>1. kept \in SUBSET (1..Len(s)) /\ Len(s) \in Nat
  OBVIOUS
<1>2. /\ m \in 0..Len(s)
      /\ \A i \in kept : Rank(kept, i) \in 1..m
      /\ \A i, j \in kept : Rank(kept, i) = Rank(kept, j) => i = j
      /\ \A n \in 1..m : \E i \in kept : Rank(kept, i) = n
  BY <1>1, RankIsBijection
<1> HIDE DEF m
<1>3. \A n \in 1..m : At(n) \in kept /\ Rank(kept, At(n)) = n
  <2> TAKE n \in 1..m
  <2>1. \E i \in kept : Rank(kept, i) = n
    BY <1>2
  <2> HIDE DEF kept
  <2>2. QED
    BY <2>1
<1>4. \A i \in kept : At(Rank(kept, i)) = i
  BY <1>2, <1>3
<1> HIDE DEF At
<1>5. Without(s, c) = [n \in 1..m |-> s[At(n)]]
  BY DEF Without, m, At
<1>6. Without(s, c) \in Seq(S) /\ Len(Without(s, c)) = m
  <2>1. \A n \in 1..m : s[At(n)] \in S
    <3>1. \A i \in kept : s[i] \in S
      OBVIOUS
    <3> HIDE DEF kept
    <3>2. QED
      BY <1>3, <3>1
  <2>2. m \in Nat
    BY <1>2
  <2>3. QED
    BY <1>5, <2>1, <2>2
<1>7. Elems(Without(s, c)) = Elems(s) \ {c}
  <2>1. \A n \in 1..m : s[At(n)] \in Elems(s) \ {c}
    BY <1>3 DEF Elems
  <2>2. \A i \in kept : \E n \in 1..m : s[At(n)] = s[i]
    BY <1>2, <1>4
  <2>3. QED
    BY <1>5, <2>1, <2>2 DEF Elems
<1>8. ASSUME Distinct(s) PROVE Distinct(Without(s, c))
  <2>1. \A i, j \in 1..m : s[At(i)] = s[At(j)] => At(i) = At(j)
    BY <1>3, <1>8 DEF Distinct
  <2>2. DOMAIN Without(s, c) = 1..m /\ \A i \in 1..m : Without(s, c)[i] = s[At(i)]
    BY <1>5
  <2>3. \A i, j \in 1..m : At(i) = At(j) => i = j
    BY <1>3
  <2>4. QED
    BY <2>1, <2>2, <2>3 DEF Distinct
<1>9. QED
  BY <1>2, <1>6, <1>7, <1>8

\* What is not there is taken out without a trace.
LEMMA WithoutNothing ==
  ASSUME NEW S, NEW s \in Seq(S), NEW c, c \notin Elems(s)
  PROVE  Without(s, c) = s
<1> DEFINE kept == {i \in DOMAIN s : s[i] # c}
<1>1. kept = 1..Len(s) /\ Len(s) \in Nat
  BY DEF Elems
<1>2. Cardinality(kept) = Len(s)
  <2>1. Cardinality(1..Len(s)) = Len(s)
    <3>1. Len(s) \in Nat
      OBVIOUS
    <3>2. Cardinality(1..Len(s)) = IF 1 > Len(s) THEN 0 ELSE Len(s) - 1 + 1
      BY <3>1, FS_Interval
    <3>3. QED
      BY <3>1, <3>2
  <2>2. QED
    BY <1>1, <2>1
<1>3. \A i \in kept : Rank(kept, i) = i
  <2> TAKE i \in kept
  <2>1. i \in Int /\ 1 <= i /\ i <= Len(s)
    BY <1>1
  <2> HIDE DEF kept
  <2>2. {j \in kept : j <= i} = 1..i
    BY <1>1, <2>1
  <2>3. Cardinality(1..i) = i
    BY <2>1, FS_Interval
  <2>4. QED
    BY <2>2, <2>3 DEF Rank
<1> DEFINE At(n) == CHOOSE i \in kept : Rank(kept, i) = n
<1>4. \A n \in 1..Len(s) : At(n) = n
  BY <1>1, <1>3
<1>5. Without(s, c) = [n \in 1..Cardinality(kept) |-> s[At(n)]]
  BY DEF Without
<1> HIDE DEF kept, At
<1>6. Without(s, c) = [n \in 1..Len(s) |-> s[n]]
  BY <1>2, <1>4, <1>5
<1>7. QED
  BY <1>6

-----------------------------------------------------------------------------
\* What the lists' operations do to their elements.
LEMMA AppendFacts ==
  ASSUME NEW S, NEW s \in Seq(S), NEW e \in S
  PROVE  /\ Append(s, e) \in Seq(S) /\ Len(Append(s, e)) = Len(s) + 1
         /\ Elems(Append(s, e)) = Elems(s) \cup {e}
         /\ Distinct(s) /\ e \notin Elems(s) => Distinct(Append(s, e))
<1>1. /\ Append(s, e) \in Seq(S) /\ Len(Append(s, e)) = Len(s) + 1
      /\ DOMAIN Append(s, e) = 1..(Len(s) + 1) /\ DOMAIN s = 1..Len(s)
      /\ \A i \in 1..Len(s) : Append(s, e)[i] = s[i]
      /\ Append(s, e)[Len(s) + 1] = e
  OBVIOUS
<1> DEFINE u == Append(s, e)
<1> HIDE DEF u
<1>2. Len(s) \in Nat
  OBVIOUS
<1>3. Elems(u) = Elems(s) \cup {e}
  <2>1. \A i \in DOMAIN u : u[i] \in Elems(s) \cup {e}
    BY <1>1, <1>2 DEF Elems, u
  <2>2. \A i \in DOMAIN s : i \in DOMAIN u /\ u[i] = s[i]
    BY <1>1, <1>2 DEF u
  <2>3. Len(s) + 1 \in DOMAIN u /\ u[Len(s) + 1] = e
    BY <1>1, <1>2 DEF u
  <2>4. QED
    BY <2>1, <2>2, <2>3 DEF Elems
<1>4. ASSUME Distinct(s), e \notin Elems(s) PROVE Distinct(u)
  BY <1>1, <1>2, <1>4 DEF Elems, Distinct, u
<1>5. QED
  BY <1>1, <1>3, <1>4 DEF u

LEMMA TailFacts ==
  ASSUME NEW S, NEW s \in Seq(S), s # <<>>
  PROVE  /\ Head(s) \in Elems(s) /\ Head(s) = s[1] /\ 1 \in DOMAIN s
         /\ Tail(s) \in Seq(S) /\ Len(Tail(s)) = Len(s) - 1
         /\ \A i \in DOMAIN Tail(s) : i + 1 \in DOMAIN s /\ Tail(s)[i] = s[i + 1]
         /\ Elems(s) = Elems(Tail(s)) \cup {Head(s)}
         /\ Distinct(s) => Distinct(Tail(s)) /\ Head(s) \notin Elems(Tail(s))
<1>1. /\ Len(s) \in Nat /\ Len(s) >= 1 /\ DOMAIN s = 1..Len(s)
      /\ Tail(s) \in Seq(S) /\ Len(Tail(s)) = Len(s) - 1 /\ Head(s) = s[1]
      /\ DOMAIN Tail(s) = 1..(Len(s) - 1)
      /\ \A i \in 1..(Len(s) - 1) : Tail(s)[i] = s[i + 1]
  OBVIOUS
<1> DEFINE u == Tail(s)
           h == Head(s)
<1> HIDE DEF u, h
<1>2. \A i \in DOMAIN u : i + 1 \in DOMAIN s /\ u[i] = s[i + 1]
  BY <1>1 DEF u
<1>3. h = s[1] /\ 1 \in DOMAIN s
  BY <1>1 DEF h
<1>4. Elems(s) = Elems(u) \cup {h}
  <2>1. \A i \in DOMAIN u : u[i] \in Elems(s)
    BY <1>2 DEF Elems
  <2>2. \A i \in DOMAIN s : s[i] \in Elems(u) \cup {h}
    <3> TAKE i \in DOMAIN s
    <3>1. CASE i = 1
      BY <1>3, <3>1
    <3>2. CASE i # 1
      <4>1. i - 1 \in DOMAIN u /\ (i - 1) + 1 = i
        BY <1>1, <3>2 DEF u
      <4>2. QED
        BY <1>2, <4>1 DEF Elems
    <3>3. QED
      BY <3>1, <3>2
  <2>3. QED
    BY <1>3, <2>1, <2>2 DEF Elems
<1>5. ASSUME Distinct(s) PROVE Distinct(u) /\ h \notin Elems(u)
  <2>1. \A i \in DOMAIN u : i \in Nat /\ i >= 1
    BY <1>1 DEF u
  <2>2. QED
    BY <1>2, <1>3, <1>5, <2>1 DEF Elems, Distinct
<1>6. QED
  BY <1>1, <1>2, <1>3, <1>4, <1>5 DEF Elems, u, h

LEMMA SubSeqFacts ==
  ASSUME NEW S, NEW s \in Seq(S), NEW a \in Nat \ {0}, NEW b \in Int, b <= Len(s)
  PROVE  /\ SubSeq(s, a, b) \in Seq(S)
         /\ Len(SubSeq(s, a, b)) = IF b < a THEN 0 ELSE b - a + 1
         /\ Elems(SubSeq(s, a, b)) = {s[i] : i \in a..b}
         /\ Distinct(s) => Distinct(SubSeq(s, a, b))
<1> DEFINE n == IF b < a THEN 0 ELSE b - a + 1
           u == SubSeq(s, a, b)
<1>1. n \in Nat /\ Len(s) \in Nat /\ DOMAIN s = 1..Len(s)
  OBVIOUS
<1>2. u = [i \in 1..n |-> s[a + i - 1]]
  OBVIOUS
<1>3. \A i \in 1..n : a + i - 1 \in a..b /\ a + i - 1 \in DOMAIN s
  BY <1>1
<1> HIDE DEF u
<1>4. u \in Seq(S) /\ Len(u) = n
  <2>1. \A i \in 1..n : s[a + i - 1] \in S
    BY <1>3
  <2> HIDE DEF n
  <2>2. QED
    BY <1>1, <1>2, <2>1
<1>5. Elems(u) = {s[i] : i \in a..b}
  <2>1. \A j \in a..b : j - a + 1 \in 1..n /\ a + (j - a + 1) - 1 = j
    OBVIOUS
  <2>2. \A j \in a..b : \E i \in 1..n : s[a + i - 1] = s[j]
    BY <2>1
  <2>3. \A i \in 1..n : \E j \in a..b : s[a + i - 1] = s[j]
    BY <1>3
  <2>4. Elems(u) = {u[i] : i \in 1..n} /\ \A i \in 1..n : u[i] = s[a + i - 1]
    BY <1>2 DEF Elems
  <2> HIDE DEF n
  <2>5. \A x \in Elems(u) : \E j \in a..b : x = s[j]
    BY <2>3, <2>4
  <2>6. \A j \in a..b : s[j] \in Elems(u)
    BY <2>2, <2>4
  <2>7. QED
    BY <2>5, <2>6
<1>6. ASSUME Distinct(s) PROVE Distinct(u)
  <2>1. \A i, j \in 1..n : s[a + i - 1] = s[a + j - 1] => i = j
    BY <1>3, <1>6 DEF Distinct
  <2> HIDE DEF n
  <2>2. QED
    BY <1>2, <2>1 DEF Distinct
<1>7. QED
  BY <1>4, <1>5, <1>6 DEF u

\* The clients of a list are where they are looked up.
LEMMA PlaceFacts ==
  ASSUME NEW S, NEW s \in Seq(S), NEW c \in Elems(s)
  PROVE  PlaceOf(c, s) \in DOMAIN s /\ s[PlaceOf(c, s)] = c
BY DEF PlaceOf, Elems

LEMMA SmallLists ==
  /\ Elems(<<>>) = {} /\ Distinct(<<>>)
  /\ \A e : Elems(<<e>>) = {e} /\ Distinct(<<e>>) /\ Len(<<e>>) = 1
BY DEF Elems, Distinct

\* Start makes as many passes as there are stretches of MaxClients and a rest, which

\* may be empty.
LEMMA PassFacts ==
  ASSUME NEW n \in Nat, NEW p \in Nat
  PROVE  /\ n \div MaxClients + 1 \in Nat
         /\ p * MaxClients \in Nat /\ (p + 1) * MaxClients = p * MaxClients + MaxClients
         /\ p < n \div MaxClients + 1 <=> p * MaxClients <= n
<1> DEFINE q == n \div MaxClients
           r == n % MaxClients
<1>1. MaxClients \in Nat /\ MaxClients > 0
  BY MaxClientsAssumption
<1>2. q \in Nat /\ r \in 0..(MaxClients - 1) /\ n = MaxClients * q + r
  BY <1>1
<1> HIDE DEF q, r
<1>3. p * MaxClients \in Nat /\ (p + 1) * MaxClients = p * MaxClients + MaxClients
  BY <1>1
<1>4. ASSUME p <= q PROVE p * MaxClients <= n
  <2>1. (q - p) * MaxClients >= 0 /\ (q - p) * MaxClients = q * MaxClients - p * MaxClients
    BY <1>1, <1>2, <1>4
  <2>2. QED
    BY <1>1, <1>2, <1>3, <2>1
<1>5. ASSUME p > q PROVE p * MaxClients > n
  <2>1. /\ (p - q - 1) * MaxClients >= 0
        /\ (p - q - 1) * MaxClients = p * MaxClients - q * MaxClients - MaxClients
    BY <1>1, <1>2, <1>5
  <2>2. QED
    BY <1>1, <1>2, <1>3, <2>1
<1>6. QED
  BY <1>1, <1>2, <1>3, <1>4, <1>5 DEF q

-----------------------------------------------------------------------------
\* The thread that is made next.
LEMMA NewbornFacts ==
  ASSUME Unborn # {}
  PROVE  Least(Unborn) \in Thread /\ pc[Least(Unborn)] = "unborn"
<1>1. Unborn \in SUBSET Nat
  BY MaxThreadsAssumption DEF Unborn, Thread
<1>2. Least(Unborn) \in Unborn
  BY <1>1, LeastExists
<1>3. QED
  BY <1>2 DEF Unborn

\* Who has a client: a thread or the acceptor.
LEMMA HolderFacts ==
  /\ \A c : c \in HandedOver <=>
       (\E t \in Thread : c \in Elems(buffers[t])) \/ c = accepter.client
  /\ \A c : c \in Held <=>
       (\E t \in Thread : c \in Elems(buffers[t])) \/ (c \in Client /\ InHand(c))
<1> DEFINE B == UNION {Elems(buffers[t]) : t \in Thread}
<1>1. \A c : c \in B <=> \E t \in Thread : c \in Elems(buffers[t])
  OBVIOUS
<1>2. HandedOver = B \cup {accepter.client} /\ Held = B \cup {c \in Client : InHand(c)}
  BY DEF HandedOver, Held
<1> HIDE DEF B
<1>3. QED
  BY <1>1, <1>2

\* A pass of Start's loop gives its thread clients of the list, no more than it has

\* slots for.
LEMMA StretchFacts ==
  ASSUME Types, ~WalkFails
  PROVE  /\ List \in Seq(Client) /\ Place \in Nat \ {0} /\ Advance \in Int
         /\ Stretch \in Seq(Client) /\ Len(Stretch) <= MaxClients
         /\ Elems(Stretch) = {List[i] : i \in Place .. (Place + Advance - 1)}
         /\ Elems(Stretch) \subseteq Elems(List)
         /\ Distinct(List) => Distinct(Stretch)
<1>1. List \in Seq(Client)
  BY DEF Types, WorldTypes, List
<1>2. Passed \in Nat /\ MaxClients \in Nat \ {0}
  <2>1. ctl.pos \in Nat
    BY DEF Types, ManagerTypes, CtlState
  <2>2. QED
    BY <2>1, PassFacts, MaxClientsAssumption DEF Passed
<1>3. Advance \in Int /\ Advance <= MaxClients
  BY <1>1, <1>2 DEF Advance, Passed
<1>4. start.last = None \/ start.last \in Elems(List)
  BY DEF WalkFails, Dangling
<1>5. Place \in Nat \ {0} /\ Place <= Len(List) + 1
  <2>1. CASE start.last = None
    BY <1>1, <2>1 DEF Place
  <2>2. CASE start.last # None
    <3>1. PlaceOf(start.last, List) \in 1..Len(List)
      BY <1>1, <1>4, <2>2, PlaceFacts
    <3>2. QED
      BY <1>1, <2>2, <3>1 DEF Place
  <2>3. QED
    BY <2>1, <2>2
<1>6. Place + Advance - 1 <= Len(List)
  <2>1. CASE List = <<>>
    <3>1. start.last = None
      BY <1>4, <2>1, SmallLists
    <3>2. Place = 1 /\ Len(List) = 0
      BY <2>1, <3>1 DEF Place
    <3>3. Advance <= 0
      BY <1>2, <3>2 DEF Advance, Passed
    <3>4. QED
      BY <1>3, <3>2, <3>3
  <2>2. CASE List # <<>>
    <3>1. Place + Advance <= Len(List) + 1
      BY <1>1, <1>3, <1>5, <2>2 DEF WalkFails
    <3>2. QED
      BY <1>1, <1>3, <1>5, <3>1
  <2>3. QED
    BY <2>1, <2>2
<1> DEFINE a == Place
           b == Place + Advance - 1
<1> HIDE DEF a, b
<1>7. a \in Nat \ {0} /\ b \in Int /\ b <= Len(List)
  BY <1>3, <1>5, <1>6 DEF a, b
<1>8. /\ SubSeq(List, a, b) \in Seq(Client)
      /\ Len(SubSeq(List, a, b)) = IF b < a THEN 0 ELSE b - a + 1
      /\ Elems(SubSeq(List, a, b)) = {List[i] : i \in a..b}
      /\ Distinct(List) => Distinct(SubSeq(List, a, b))
  BY <1>1, <1>7, SubSeqFacts
<1>9. Len(SubSeq(List, a, b)) <= MaxClients
  BY <1>2, <1>3, <1>5, <1>8 DEF a, b
<1>10. {List[i] : i \in a..b} \subseteq Elems(List)
  <2>1. \A i \in a..b : i \in DOMAIN List
    BY <1>1, <1>7
  <2>2. QED
    BY <2>1 DEF Elems
<1>11. QED
  BY <1>1, <1>3, <1>5, <1>8, <1>9, <1>10 DEF a, b, PlaceAfter, Stretch

-----------------------------------------------------------------------------
\* What HangUp, ReceiveData and ReceiveEnd have in common: a report is cleared, and
\* nothing else happens, or the process fails, or the client is taken out.
Refuses(t, i) == \/ failed' = <<"ub", t>> /\ ~Buffered(t, slots[t][i])
                 \/ failed' = <<"bad_function_call", t>> /\ Buffered(t, slots[t][i])
                      /\ bound[t] < 2

TakesOut(t, i) == /\ Buffered(t, slots[t][i]) /\ bound[t] = 2
                  /\ \E next \in {"remove", "removeclosed"} : TakeOut(t, i, next)
                  /\ failed' = failed

Handles(t, i) ==
  /\ pc[t] = "scan" /\ revents[t][i] # "none" /\ i < poll_fds_num[t]
  /\ ClearReport(t, i)
  /\ UNCHANGED <<manager, accepter, shared, history>>
  /\ sock' \in [Client -> {"unborn", "open", "data", "datafin", "fin", "rst"}]
  /\ \A c \in Client : sock'[c] = "unborn" <=> sock[c] = "unborn"
  /\ \/ Stays /\ (failed' = failed \/ Refuses(t, i))
     \/ TakesOut(t, i)

LEMMA LookFacts ==
  ASSUME Types, NEW t \in Thread, HangUp(t) \/ ReceiveData(t) \/ ReceiveEnd(t)
  PROVE  \E i \in Slot : Handles(t, i)
<1> DEFINE i == Current(t)
<1>1. Reported(t) # {}
  BY DEF HangUp, ReceiveData, ReceiveEnd
<1>2. i \in Slot /\ i < poll_fds_num[t] /\ revents[t][i] # "none"
  <2>1. Reported(t) \in SUBSET Nat
    BY MaxClientsAssumption DEF Reported, Slot
  <2>2. i \in Reported(t)
    BY <1>1, <2>1, LeastExists DEF Current
  <2>3. QED
    BY <2>2 DEF Reported
<1> HIDE DEF i
<1>3. bound[t] \in 0..2
  BY DEF Types, ThreadTypes
<1>4. ASSUME NEW next \in {"remove", "removeclosed"}, Unless(t, i, 2, TakeOut(t, i, next))
      PROVE  (Stays /\ (failed' = failed \/ Refuses(t, i))) \/ TakesOut(t, i)
  BY <1>3, <1>4 DEF Unless, Refuses, TakesOut
<1>5. ASSUME NEW n \in 0..2, Unless(t, i, n, Stays)
      PROVE  Stays /\ (failed' = failed \/ Refuses(t, i))
  BY <1>3, <1>5 DEF Unless, Refuses
<1>6. CASE HangUp(t)
  <2>1. sock' = sock
    BY <1>6 DEF HangUp
  <2>2. QED
    BY <1>2, <1>4, <1>6, <2>1 DEF HangUp, Handles, i, Types, WorldTypes
<1>7. CASE ReceiveEnd(t)
  <2>1. sock' = sock
    BY <1>7 DEF ReceiveEnd
  <2>2. QED
    BY <1>2, <1>4, <1>7, <2>1 DEF ReceiveEnd, Handles, i, Types, WorldTypes
<1>8. CASE ReceiveData(t)
  <2> DEFINE c == slots[t][i]
  <2>1. /\ sock[c] \in {"data", "datafin"}
        /\ sock' = [sock EXCEPT ![c] = IF @ = "data" THEN "open" ELSE "fin"]
    BY <1>8 DEF ReceiveData, i
  <2> HIDE DEF c
  <2>2. /\ sock' \in [Client -> {"unborn", "open", "data", "datafin", "fin", "rst"}]
        /\ \A d \in Client : sock'[d] = "unborn" <=> sock[d] = "unborn"
    BY <2>1 DEF Types, WorldTypes
  <2>3. \/ Unless(t, i, 0, Stays) \/ Unless(t, i, 1, Stays)
        \/ Unless(t, i, 2, TakeOut(t, i, "remove"))
    BY <1>8 DEF ReceiveData, i
  <2>4. (Stays /\ (failed' = failed \/ Refuses(t, i))) \/ TakesOut(t, i)
    BY <1>4, <1>5, <2>3
  <2>5. QED
    BY <1>2, <1>8, <2>2, <2>4 DEF ReceiveData, Handles, i
<1>9. QED
  BY <1>6, <1>7, <1>8

-----------------------------------------------------------------------------
\* Nothing runs, and nobody has connected.
LEMMA InitIInv == Init => IInv
<1> SUFFICES ASSUME Init PROVE IInv
  OBVIOUS
<1>0. MaxClients \in Nat \ {0} /\ None \notin Client
  BY MaxClientsAssumption, ClientAssumption
<1>1. Types
  <2>1. ManagerTypes
    <3>1. NoStart \in StartState
      BY DEF NoStart, StartState
    <3>2. [pc |-> "idle", pos |-> 0] \in CtlState
      BY DEF CtlState
    <3>3. [pc |-> "idle", client |-> None, pos |-> 0] \in AccepterState
      BY DEF AccepterState
    <3>4. QED
      <4>1. /\ threads = <<>> /\ <<>> \in Seq(Thread) /\ threads_mtx = "free"
            /\ is_running = FALSE
        BY DEF Init
      <4>2. ctl \in CtlState /\ start \in StartState /\ accepter \in AccepterState
        BY <3>1, <3>2, <3>3 DEF Init
      <4>3. raced = {} /\ relisted = {} /\ skipped = {}
        BY DEF Init
      <4>4. QED
        BY <4>1, <4>2, <4>3 DEF ManagerTypes
  <2>2. ThreadTypes
    BY <1>0 DEF Init, ThreadTypes, Place_, NoSlots, NoEvents
  <2>3. WorldTypes
    BY DEF Init, WorldTypes
  <2>4. QED
    BY <2>1, <2>2, <2>3 DEF Types
<1>2. ControlInv
  <2>1. LockInv
    BY DEF Init, LockInv
  <2>2. VectorInv
    BY SmallLists DEF Init, VectorInv, Unbound
  <2>3. ThreadInv
    BY DEF Init, ThreadInv, Stands, NoEvents
  <2>4. StopInv
    BY DEF Init, StopInv, Heeds
  <2>5. QED
    BY <2>1, <2>2, <2>3, <2>4 DEF ControlInv
<1>3. CountInv
  BY DEF Init, CountInv, PollCount
<1>4. BornInv
  BY <1>0, SmallLists DEF Init, BornInv, Untouched, NoStart
<1>5. HolderInv
  BY SmallLists DEF Init, HolderInv, Alone, InHand
<1>6. MadeInv
  BY DEF Init, MadeInv
<1>7. ListInv
  BY SmallLists DEF Init, ListInv, NoStart
<1>8. AccountInv
  BY SmallLists DEF Init, AccountInv, Account, Serves
<1>9. WalkInv /\ HeldInv /\ FailureExplained
  BY DEF Init, WalkInv, HeldInv, FailureExplained
<1>10. QED
  BY <1>1, <1>2, <1>3, <1>4, <1>5, <1>6, <1>7, <1>8, <1>9 DEF IInv

-----------------------------------------------------------------------------
\* A slot is left: poll_fds_num still counts the slots it looks at.
LEMMA TakeOutTypes ==
  ASSUME Types, NEW t \in Thread, NEW i \in Slot, Handles(t, i), TakesOut(t, i)
  PROVE  ThreadTypes' /\ WorldTypes'
<1> DEFINE left == [slots[t] EXCEPT ![i] = None]
           occupied == {j \in 1..(poll_fds_num[t] - 1) : left[j] # None}
           c == slots[t][i]
<1>0. MaxClients \in Nat \ {0}
  BY MaxClientsAssumption
<1>1. c \in Client
  BY DEF TakesOut, Buffered, Elems, Types, ThreadTypes
<1>2. PICK next \in {"remove", "removeclosed"} : TakeOut(t, i, next)
  BY DEF TakesOut
<1>3. poll_fds_num' = [poll_fds_num EXCEPT ![t] =
                         IF occupied = {} THEN 1 ELSE Greatest(occupied) + 1]
  BY <1>2 DEF TakeOut
<1>4. poll_fds_num[t] - 1 \in 0..MaxClients
  BY <1>0 DEF Types, ThreadTypes
<1>5. occupied # {} => Greatest(occupied) \in 1..MaxClients
  <2> SUFFICES ASSUME occupied # {} PROVE Greatest(occupied) \in 1..MaxClients
    OBVIOUS
  <2>1. occupied \in SUBSET (0..MaxClients)
    BY <1>0, <1>4
  <2>2. \A j \in occupied : j \in 1..MaxClients
    BY <1>0, <1>4
  <2> HIDE DEF occupied
  <2>3. QED
    BY <1>0, <2>1, <2>2, GreatestExists
<1> HIDE DEF occupied
<1>6. poll_fds_num' \in [Thread -> 1..(MaxClients + 1)]
  BY <1>0, <1>3, <1>5 DEF Types, ThreadTypes
<1>7. slots' \in [Thread -> [Slot -> Client \cup {None}]]
  BY <1>2 DEF TakeOut, Types, ThreadTypes
<1>8. revents' \in [Thread -> [Slot -> {"none", "in", "hup"}]]
  BY DEF Handles, ClearReport, Types, ThreadTypes
<1>9. ThreadTypes'
  BY <1>1, <1>2, <1>6, <1>7, <1>8 DEF TakeOut, Handles, shared, history, Place_,
     Types, ThreadTypes
<1>10. db' \in Seq(Client)
  BY <1>2, WithoutFacts DEF TakeOut, Types, WorldTypes
<1>11. WorldTypes'
  BY <1>1, <1>2, <1>10 DEF TakeOut, Handles, Types, WorldTypes
<1>12. QED
  BY <1>9, <1>11

LEMMA NewThreadTypes ==
  ASSUME Types, NEW t \in Thread, NEW clients \in Seq(Client), Len(clients) <= MaxClients,
         NewThread(t, clients)
  PROVE  ThreadTypes' /\ WorldTypes' /\ raced' = raced
BY DEF NewThread, world, Types, ThreadTypes, WorldTypes, Place_

LEMMA BindTypes ==
  ASSUME Types, NEW t \in Unbound, BindCallback(t)
  PROVE  /\ threads' \in Seq(Thread) /\ ThreadTypes' /\ WorldTypes'
         /\ UNCHANGED <<raced, relisted, skipped>>
<1>1. t \in Thread /\ bound[t] \in 0..1
  BY DEF Unbound, Types, ThreadTypes
<1>2. threads' \in Seq(Thread)
  BY <1>1 DEF BindCallback, Types, ManagerTypes
<1>3. bound' \in [Thread -> 0..2]
  BY <1>1 DEF BindCallback, Types, ThreadTypes
<1>4. QED
  BY <1>2, <1>3 DEF BindCallback, listener, world, history, Types, ThreadTypes, WorldTypes

\* Every step keeps the types, and no thread gets more clients than poll has slots for.
LEMMA StepTypes == Types /\ ControlInv /\ BornInv /\ Next => Types'
<1> SUFFICES ASSUME Types, ControlInv, BornInv, Next PROVE Types'
  OBVIOUS
<1>0. /\ MaxClients \in Nat \ {0} /\ None \notin Client
      /\ accepter.pc # "idle" => accepter.client \in Client
  BY MaxClientsAssumption, ClientAssumption
     DEF Types, ManagerTypes, AccepterState, ControlInv, LockInv
<1>1. ASSUME NEW c \in Client, Accept(c) PROVE Types'
  <2>1. ManagerTypes'
    BY <1>1 DEF Accept, manager, history, Types, ManagerTypes, AccepterState
  <2>2. ThreadTypes'
    BY <1>1 DEF Accept, listener, shared, history, Types, ThreadTypes
  <2>3. WorldTypes'
    BY <1>1 DEF Accept, Types, WorldTypes
  <2>4. QED
    BY <2>1, <2>2, <2>3 DEF Types
<1>2. ASSUME NEW c \in Client, Peer(c) PROVE Types'
  BY <1>2 DEF Peer, Move, manager, listener, shared, history, Types, ManagerTypes,
     ThreadTypes, WorldTypes
<1>3. CASE AccepterLocks \/ AddTcpClientFull
  <2>1. ManagerTypes'
    BY <1>3 DEF AccepterLocks, AddTcpClientFull, manager, history, Types, ManagerTypes,
       AccepterState
  <2>2. ThreadTypes' /\ WorldTypes'
    BY <1>3 DEF AccepterLocks, AddTcpClientFull, listener, shared, world, history, Types,
       ThreadTypes, WorldTypes
  <2>3. QED
    BY <2>1, <2>2 DEF Types
<1>4. CASE AddTcpClientTakes
  <2> DEFINE t == threads[accepter.pos]
  <2>1. t \in Thread
    BY <1>4 DEF AddTcpClientTakes, Types, ManagerTypes, AccepterState, ControlInv, LockInv
  <2>2. accepter.client \in Client
    BY <1>0, <1>4 DEF AddTcpClientTakes
  <2>3. ManagerTypes'
    BY <1>4, <2>1 DEF AddTcpClientTakes, manager, Types, ManagerTypes, AccepterState
  <2>4. WorldTypes'
    BY <1>4 DEF AddTcpClientTakes, world, Types, WorldTypes
  <2>5. buffers' = [buffers EXCEPT ![t] = Append(@, accepter.client)]
        /\ Len(buffers[t]) # MaxClients
    BY <1>4 DEF AddTcpClientTakes
  <2> HIDE DEF t
  <2>6. /\ buffers' \in [Thread -> Seq(Client)]
        /\ \A u \in Thread : Len(buffers'[u]) <= MaxClients
    <3>1. Append(buffers[t], accepter.client) \in Seq(Client)
          /\ Len(Append(buffers[t], accepter.client)) <= MaxClients
      BY <1>0, <2>1, <2>2, <2>5, AppendFacts DEF Types, ThreadTypes
    <3>2. QED
      BY <2>1, <2>5, <3>1 DEF Types, ThreadTypes
  <2>7. ThreadTypes'
    BY <1>4, <2>6 DEF AddTcpClientTakes, listener, Types, ThreadTypes
  <2>8. QED
    BY <2>3, <2>4, <2>7 DEF Types
<1>5. CASE AddTcpClientWrites
  <2>1. ManagerTypes'
    BY <1>5 DEF AddTcpClientWrites, history, Types, ManagerTypes, AccepterState
  <2>2. pipe' \in [Thread -> Seq(Client \cup {"s"})]
    <3> DEFINE t == threads[accepter.pos]
    <3>1. accepter.client \in Client \cup {"s"}
      BY <1>0, <1>5 DEF AddTcpClientWrites
    <3>2. pipe' = [pipe EXCEPT ![t] = Append(@, accepter.client)]
      BY <1>5 DEF AddTcpClientWrites
    <3> HIDE DEF t
    <3>3. \A u \in Thread : Append(pipe[u], accepter.client) \in Seq(Client \cup {"s"})
      BY <3>1 DEF Types, ThreadTypes
    <3>4. QED
      BY <3>2, <3>3 DEF Types, ThreadTypes
  <2>3. ThreadTypes' /\ WorldTypes'
    BY <1>5, <2>2 DEF AddTcpClientWrites, listener, world, history, Types, ThreadTypes,
       WorldTypes
  <2>4. QED
    BY <2>1, <2>3 DEF Types
<1>6. CASE AccepterSpawns
  <2>1. Least(Unborn) \in Thread /\ NewThread(Least(Unborn), <<accepter.client>>)
    BY <1>6, NewbornFacts DEF AccepterSpawns
  <2>2. accepter.client \in Client
    BY <1>0, <1>6 DEF AccepterSpawns
  <2>3. <<accepter.client>> \in Seq(Client) /\ Len(<<accepter.client>>) <= MaxClients
    BY <1>0, <2>2
  <2>4. ThreadTypes' /\ WorldTypes' /\ raced' = raced
    BY <2>1, <2>3, NewThreadTypes
  <2>5. ManagerTypes'
    BY <1>6, <2>4 DEF AccepterSpawns, manager, Types, ManagerTypes, AccepterState
  <2>6. QED
    BY <2>4, <2>5 DEF Types
<1>7. CASE AccepterBinds
  <2>1. PICK t \in Unbound : BindCallback(t)
    BY <1>7 DEF AccepterBinds
  <2>2. /\ threads' \in Seq(Thread) /\ ThreadTypes' /\ WorldTypes'
        /\ UNCHANGED <<raced, relisted, skipped>>
    BY <2>1, BindTypes
  <2>3. ManagerTypes'
    BY <1>7, <2>2 DEF AccepterBinds, Types, ManagerTypes, AccepterState
  <2>4. QED
    BY <2>2, <2>3 DEF Types
<1>8. CASE StartBegins
  <2>1. PICK live \in BOOLEAN :
          LET list == IF live THEN db ELSE <<>> IN
            /\ start' = [live |-> live, num |-> Len(list) \div MaxClients + 1,
                         last |-> IF list = <<>> THEN None ELSE list[1],
                         listed |-> list]
            /\ skipped' = skipped \cup ((Elems(db) \ Elems(list)) \ HandedOver)
    BY <1>8 DEF StartBegins
  <2> DEFINE list == IF live THEN db ELSE <<>>
  <2>2. list \in Seq(Client)
    BY DEF Types, WorldTypes
  <2>3. Len(list) \div MaxClients + 1 \in Nat
    BY <2>2, PassFacts
  <2>4. (IF list = <<>> THEN None ELSE list[1]) \in Client \cup {None}
    BY <2>2
  <2>5. skipped' \in SUBSET Client
    <3>1. Elems(db) \subseteq Client
      BY DEF Elems, Types, WorldTypes
    <3>2. QED
      BY <2>1, <3>1 DEF Types, ManagerTypes
  <2>6. start' \in StartState
    BY <2>1, <2>2, <2>3, <2>4 DEF StartState
  <2>7. ManagerTypes'
    BY <1>8, <2>5, <2>6 DEF StartBegins, Types, ManagerTypes, CtlState
  <2>8. ThreadTypes' /\ WorldTypes'
    BY <1>8 DEF StartBegins, listener, shared, world, Types, ThreadTypes, WorldTypes
  <2>9. QED
    BY <2>7, <2>8 DEF Types
<1>9. CASE StopBegins \/ StopEnds
  <2>1. ManagerTypes'
    <3>1. CASE StopBegins
      BY <3>1 DEF StopBegins, history, Types, ManagerTypes, CtlState
    <3>2. CASE StopEnds
      <4>1. threads' \in Seq(Thread)
        BY <3>2 DEF StopEnds
      <4>2. QED
        BY <3>2, <4>1 DEF StopEnds, history, Types, ManagerTypes, CtlState
    <3>3. QED
      BY <1>9, <3>1, <3>2
  <2>2. ThreadTypes' /\ WorldTypes'
    BY <1>9 DEF StopBegins, StopEnds, listener, shared, world, history, Types,
       ThreadTypes, WorldTypes
  <2>3. QED
    BY <2>1, <2>2 DEF Types
<1>10. CASE StartSpawns
  <2>0. ~WalkFails /\ Unborn # {}
    BY <1>10 DEF StartSpawns
  <2>1. Least(Unborn) \in Thread /\ NewThread(Least(Unborn), Stretch) /\ ~WalkFails
    <3>1. NewThread(Least(Unborn), Stretch)
      BY <1>10 DEF StartSpawns
    <3>2. QED
      BY <2>0, <3>1, NewbornFacts
  <2>2. /\ List \in Seq(Client)
        /\ Stretch \in Seq(Client) /\ Len(Stretch) <= MaxClients
    BY <2>1, StretchFacts
  <2>3. ThreadTypes' /\ WorldTypes' /\ raced' = raced
    BY <2>1, <2>2, NewThreadTypes
  <2>4. \A n : (IF n \in DOMAIN List THEN List[n] ELSE None) \in Client \cup {None}
    BY <2>2
  <2>5. start' \in StartState
    BY <1>10, <2>4 DEF StartSpawns, Types, ManagerTypes, StartState
  <2>6. Elems(Stretch) \subseteq Client /\ Elems(List) \subseteq Client
        /\ Elems(start.listed) \subseteq Client
    BY <2>2 DEF Elems, Types, ManagerTypes, StartState
  <2>7. relisted' \in SUBSET Client /\ skipped' \in SUBSET Client
    <3>1. relisted' = relisted \cup (Elems(Stretch) \cap HandedOver)
      BY <1>10 DEF StartSpawns
    <3>2. skipped' = IF List = start.listed THEN skipped
                     ELSE skipped \cup Elems(List) \cup Elems(start.listed)
      BY <1>10 DEF StartSpawns
    <3>3. QED
      BY <2>6, <3>1, <3>2 DEF Types, ManagerTypes
  <2>8. ManagerTypes'
    BY <1>10, <2>3, <2>5, <2>7 DEF StartSpawns, Types, ManagerTypes, CtlState
  <2>9. QED
    BY <2>3, <2>8 DEF Types
<1>11. CASE StartFails
  BY <1>11 DEF StartFails, manager, listener, shared, history, Types, ManagerTypes,
     ThreadTypes, WorldTypes
<1>12. CASE StartBinds
  <2>1. PICK t \in Unbound : BindCallback(t) /\
          IF bound[t] = 0 THEN UNCHANGED <<threads_mtx, is_running, ctl, start>>
          ELSE IF ctl.pos = start.num
          THEN /\ threads_mtx' = "free" /\ is_running' = TRUE
               /\ ctl' = [pc |-> "idle", pos |-> 0] /\ start' = NoStart
          ELSE /\ ctl' = [ctl EXCEPT !.pc = "spawn"]
               /\ UNCHANGED <<threads_mtx, is_running, start>>
    BY <1>12 DEF StartBinds
  <2>2. /\ threads' \in Seq(Thread) /\ ThreadTypes' /\ WorldTypes'
        /\ UNCHANGED <<raced, relisted, skipped>>
    BY <2>1, BindTypes
  <2>3. NoStart \in StartState
    BY DEF NoStart, StartState
  <2>4. ManagerTypes'
    <3>1. accepter' = accepter
      BY <1>12 DEF StartBinds
    <3>2. ctl' \in CtlState
      BY <2>1 DEF Types, ManagerTypes, CtlState
    <3>3. /\ start' \in StartState /\ threads_mtx' \in {"free", "accepter", "ctl"}
          /\ is_running' \in BOOLEAN
      BY <2>1, <2>3 DEF Types, ManagerTypes
    <3>4. QED
      BY <2>2, <3>1, <3>2, <3>3 DEF Types, ManagerTypes
  <2>5. QED
    BY <2>2, <2>4 DEF Types
<1>13. CASE StopWrites
  <2>1. ManagerTypes'
    BY <1>13 DEF StopWrites, history, Types, ManagerTypes, CtlState
  <2>2. pipe' \in [Thread -> Seq(Client \cup {"s"})]
    <3> DEFINE t == threads[ctl.pos]
    <3>1. pipe' = [pipe EXCEPT ![t] = Append(@, "s")]
      BY <1>13 DEF StopWrites
    <3> HIDE DEF t
    <3>2. \A u \in Thread : Append(pipe[u], "s") \in Seq(Client \cup {"s"})
      BY DEF Types, ThreadTypes
    <3>3. QED
      BY <3>1, <3>2 DEF Types, ThreadTypes
  <2>3. ThreadTypes' /\ WorldTypes'
    BY <1>13, <2>2 DEF StopWrites, listener, world, history, Types, ThreadTypes, WorldTypes
  <2>4. QED
    BY <2>1, <2>3 DEF Types
<1>14. CASE StopJoins
  <2>1. ManagerTypes'
    BY <1>14 DEF StopJoins, Types, ManagerTypes, CtlState
  <2>2. poll_fds_num' \in [Thread -> 1..(MaxClients + 1)]
    <3>1. poll_fds_num' = [poll_fds_num EXCEPT ![threads[ctl.pos]] = 1]
      BY <1>14 DEF StopJoins
    <3>2. 1 \in 1..(MaxClients + 1)
      BY <1>0
    <3>3. QED
      BY <3>1, <3>2 DEF Types, ThreadTypes
  <2>3. ThreadTypes' /\ WorldTypes'
    BY <1>14, <2>2 DEF StopJoins, world, Types, ThreadTypes, WorldTypes, Place_
  <2>4. QED
    BY <2>1, <2>3 DEF Types
<1>15. ASSUME NEW t \in Thread, InitialSlots(t) PROVE Types'
  <2>1. poll_fds_num' \in [Thread -> 1..(MaxClients + 1)]
    <3>1. (1 + IF Len(buffers[t]) < MaxClients THEN Len(buffers[t]) ELSE MaxClients)
            \in 1..(MaxClients + 1)
      BY <1>0 DEF Types, ThreadTypes
    <3>2. QED
      BY <1>15, <3>1 DEF InitialSlots, Types, ThreadTypes
  <2>2. slots' \in [Thread -> [Slot -> Client \cup {None}]]
    BY <1>0, <1>15 DEF InitialSlots, Types, ThreadTypes, Slot
  <2>3. ThreadTypes'
    BY <1>15, <2>1, <2>2 DEF InitialSlots, shared, history, Types, ThreadTypes, Place_
  <2>4. ManagerTypes' /\ WorldTypes'
    BY <1>15 DEF InitialSlots, manager, world, history, Types, ManagerTypes, WorldTypes
  <2>5. QED
    BY <2>3, <2>4 DEF Types
<1>16. ASSUME NEW t \in Thread, Poll(t) PROVE Types'
  <2>1. \A c \in Client \cup {None} : Event(c) \in {"none", "in", "hup"}
    <3> TAKE c \in Client \cup {None}
    <3>1. CASE c = None \/ ~Referenced(c) \/ sock[c] = "unborn"
      <4>1. sock[c] = "unborn" /\ c # None => ~Referenced(c)
        <5> SUFFICES ASSUME sock[c] = "unborn", c \in Client PROVE ~Referenced(c)
          OBVIOUS
        <5>1. /\ c \notin Elems(db) /\ accepter.client # c
              /\ \A u \in Thread : c \notin Elems(buffers[u])
          BY DEF BornInv, Untouched
        <5>2. QED
          BY <5>1, HolderFacts DEF Referenced
      <4>2. QED
        BY <3>1, <4>1 DEF Event
    <3>2. CASE c # None /\ Referenced(c) /\ sock[c] # "unborn"
      BY <3>2 DEF Event, Types, WorldTypes
    <3>3. QED
      BY <3>1, <3>2
  <2>2. revents' \in [Thread -> [Slot -> {"none", "in", "hup"}]]
    BY <1>16, <2>1 DEF Poll, Types, ThreadTypes
  <2>3. ThreadTypes'
    BY <1>16, <2>2 DEF Poll, shared, history, Types, ThreadTypes, Place_
  <2>4. ManagerTypes' /\ WorldTypes'
    BY <1>16 DEF Poll, manager, world, history, Types, ManagerTypes, WorldTypes
  <2>5. QED
    BY <2>3, <2>4 DEF Types
<1>17. ASSUME NEW t \in Thread, StopCommand(t) PROVE Types'
  <2>1. ThreadTypes'
    <3>1. Tail(pipe[t]) \in Seq(Client \cup {"s"})
      BY <1>17 DEF StopCommand, ControlInv, ThreadInv, Stands, Types, ThreadTypes
    <3>2. pipe' \in [Thread -> Seq(Client \cup {"s"})]
      BY <1>17, <3>1 DEF StopCommand, Types, ThreadTypes
    <3>3. /\ slots' \in [Thread -> [Slot -> Client \cup {None}]]
          /\ revents' \in [Thread -> [Slot -> {"none", "in", "hup"}]]
      BY <1>17 DEF StopCommand, NoSlots, NoEvents, Types, ThreadTypes
    <3>4. /\ buffers' \in [Thread -> Seq(Client)]
          /\ \A u \in Thread : Len(buffers'[u]) <= MaxClients
      BY <1>0, <1>17 DEF StopCommand, Types, ThreadTypes
    <3>5. QED
      BY <1>17, <3>2, <3>3, <3>4 DEF StopCommand, history, Types, ThreadTypes, Place_
  <2>2. ManagerTypes' /\ WorldTypes'
    BY <1>17 DEF StopCommand, manager, world, history, Types, ManagerTypes, WorldTypes
  <2>3. QED
    BY <2>1, <2>2 DEF Types
<1>18. ASSUME NEW t \in Thread, AddCommand(t) PROVE Types'
  <2>1. pipe[t] # <<>> /\ pipe[t] \in Seq(Client \cup {"s"}) /\ Head(pipe[t]) # "s"
    BY <1>18 DEF AddCommand, ControlInv, ThreadInv, Stands, Types, ThreadTypes
  <2>2. Tail(pipe[t]) \in Seq(Client \cup {"s"}) /\ Head(pipe[t]) \in Client
    BY <2>1
  <2>3. pipe' \in [Thread -> Seq(Client \cup {"s"})]
    BY <1>18, <2>2 DEF AddCommand, Types, ThreadTypes
  <2>4. /\ slots' \in [Thread -> [Slot -> Client \cup {None}]]
        /\ poll_fds_num' \in [Thread -> 1..(MaxClients + 1)]
    <3>1. CASE FreeSlots(t) = {}
      BY <1>18, <3>1 DEF AddCommand, Types, ThreadTypes
    <3>2. CASE FreeSlots(t) # {}
      <4> DEFINE i == Least(FreeSlots(t))
      <4>1. FreeSlots(t) \in SUBSET Nat
        BY <1>0 DEF FreeSlots, Slot
      <4>2. i \in FreeSlots(t)
        BY <3>2, <4>1, LeastExists
      <4>3. i \in Slot
        BY <4>2 DEF FreeSlots
      <4>4. /\ slots' = [slots EXCEPT ![t][i] = Head(pipe[t])]
            /\ poll_fds_num' = [poll_fds_num EXCEPT ![t] = IF i = @ THEN i + 1 ELSE @]
        BY <1>18, <3>2 DEF AddCommand
      <4> HIDE DEF i
      <4>5. slots' \in [Thread -> [Slot -> Client \cup {None}]]
        BY <2>2, <4>4 DEF Types, ThreadTypes
      <4>6. i + 1 \in 1..(MaxClients + 1)
        BY <1>0, <4>3 DEF Slot
      <4>7. poll_fds_num' \in [Thread -> 1..(MaxClients + 1)]
        BY <4>4, <4>6 DEF Types, ThreadTypes
      <4>8. QED
        BY <4>5, <4>7
    <3>3. QED
      BY <3>1, <3>2
  <2>5. ThreadTypes'
    BY <1>18, <2>3, <2>4 DEF AddCommand, history, Types, ThreadTypes, Place_
  <2>6. ManagerTypes' /\ WorldTypes'
    BY <1>18 DEF AddCommand, manager, world, history, Types, ManagerTypes, WorldTypes
  <2>7. QED
    BY <2>5, <2>6 DEF Types
<1>19. ASSUME NEW t \in Thread, ScanEnds(t) PROVE Types'
  BY <1>19 DEF ScanEnds, manager, shared, world, history, Types, ManagerTypes, ThreadTypes,
     WorldTypes, Place_
<1>20. ASSUME NEW t \in Thread, HangUp(t) \/ ReceiveData(t) \/ ReceiveEnd(t) PROVE Types'
  <2>1. PICK i \in Slot : Handles(t, i)
    BY <1>20, LookFacts
  <2>2. ManagerTypes'
    BY <2>1 DEF Handles, manager, history, Types, ManagerTypes
  <2>3. CASE TakesOut(t, i)
    BY <2>1, <2>2, <2>3, TakeOutTypes DEF Types
  <2>4. CASE Stays
    <3>1. revents' \in [Thread -> [Slot -> {"none", "in", "hup"}]]
      BY <2>1 DEF Handles, ClearReport, Types, ThreadTypes
    <3>2. ThreadTypes' /\ WorldTypes'
      BY <2>1, <2>4, <3>1 DEF Handles, Stays, shared, history, Types, ThreadTypes,
         WorldTypes
    <3>3. QED
      BY <2>2, <3>2 DEF Types
  <2>5. QED
    BY <2>1, <2>3, <2>4 DEF Handles
<1>21. ASSUME NEW t \in Thread, Remove(t) PROVE Types'
  <2>1. /\ Without(buffers[t], leaving[t]) \in Seq(Client)
        /\ Len(Without(buffers[t], leaving[t])) <= Len(buffers[t])
    BY WithoutFacts DEF Types, ThreadTypes
  <2>2. /\ buffers' \in [Thread -> Seq(Client)]
        /\ \A u \in Thread : Len(buffers'[u]) <= MaxClients
    BY <1>0, <1>21, <2>1 DEF Remove, Types, ThreadTypes
  <2>3. ThreadTypes'
    BY <1>21, <2>2 DEF Remove, history, Types, ThreadTypes, Place_
  <2>4. ManagerTypes' /\ WorldTypes'
    BY <1>21 DEF Remove, manager, history, Types, ManagerTypes, WorldTypes
  <2>5. QED
    BY <2>3, <2>4 DEF Types
<1>22. QED
  BY <1>1, <1>2, <1>3, <1>4, <1>5, <1>6, <1>7, <1>8, <1>9, <1>10, <1>11, <1>12, <1>13,
     <1>14, <1>15, <1>16, <1>17, <1>18, <1>19, <1>20, <1>21
     DEF Next, Accepter, Ctl, Listen

-----------------------------------------------------------------------------
\* What the listening threads leave alone, and what a step of one does to where it
\* stands.
LEMMA ListenFrame ==
  ASSUME Types, NEW t \in Thread, Listen(t)
  PROVE  /\ UNCHANGED <<threads, threads_mtx, is_running, ctl, start, accepter, bound, starts,
                        born, raced, relisted, skipped>>
         /\ pc[t] # "unborn" /\ pc' = [pc EXCEPT ![t] = pc'[t]] /\ pc'[t] # "unborn"
         /\ \A c \in Client : sock'[c] = "unborn" <=> sock[c] = "unborn"
<1>0. pc \in [Thread -> Place_]
  BY DEF Types, ThreadTypes
<1>1. CASE InitialSlots(t) \/ Poll(t) \/ ScanEnds(t)
  BY <1>0, <1>1 DEF InitialSlots, Poll, ScanEnds, manager, shared, world, history
<1>2. CASE StopCommand(t) \/ AddCommand(t) \/ Remove(t)
  BY <1>0, <1>2 DEF StopCommand, AddCommand, Remove, manager, world, history
<1>3. CASE HangUp(t) \/ ReceiveData(t) \/ ReceiveEnd(t)
  <2>1. PICK i \in Slot : Handles(t, i)
    BY <1>3, LookFacts
  <2>2. pc[t] = "scan" /\ UNCHANGED <<manager, accepter, shared, history>>
        /\ \A c \in Client : sock'[c] = "unborn" <=> sock[c] = "unborn"
    BY <2>1 DEF Handles
  <2>3. pc' = [pc EXCEPT ![t] = pc'[t]] /\ pc'[t] # "unborn"
    <3>1. CASE Stays
      BY <1>0, <2>2, <3>1 DEF Stays
    <3>2. CASE TakesOut(t, i)
      BY <1>0, <3>2 DEF TakesOut, TakeOut
    <3>3. QED
      BY <2>1, <3>1, <3>2 DEF Handles
  <2>4. QED
    BY <2>2, <2>3 DEF manager, shared, history
<1>4. QED
  BY <1>1, <1>2, <1>3 DEF Listen

\* threads_mtx is taken when it is free and given back by whom has it.
LEMMA StepLock == Types /\ ControlInv /\ Next => LockInv'
<1> SUFFICES ASSUME Types, ControlInv, Next PROVE LockInv'
  OBVIOUS
<1>0. /\ None \notin Client /\ LockInv
      /\ threads \in Seq(Thread) /\ ctl \in CtlState /\ accepter \in AccepterState
  BY ClientAssumption DEF Types, ManagerTypes, ControlInv
<1> USE <1>0 DEF LockInv, CtlState, AccepterState
<1>1. ASSUME NEW c \in Client, Accept(c) \/ Peer(c) PROVE LockInv'
  BY <1>1 DEF Accept, Peer, Move, manager
<1>2. CASE AccepterLocks
  BY <1>2 DEF AccepterLocks
<1>3. CASE AddTcpClientFull \/ AddTcpClientTakes
  BY <1>3 DEF AddTcpClientFull, AddTcpClientTakes, manager
<1>4. CASE AddTcpClientWrites \/ AccepterSpawns
  BY <1>4 DEF AddTcpClientWrites, AccepterSpawns, manager
<1>5. CASE AccepterBinds
  <2>1. PICK t \in Unbound :
          /\ BindCallback(t)
          /\ IF bound[t] = 1
             THEN /\ threads_mtx' = "free"
                  /\ accepter' = [pc |-> "idle", client |-> None, pos |-> 0]
             ELSE UNCHANGED <<threads_mtx, accepter>>
    BY <1>5 DEF AccepterBinds
  <2>2. ctl.pc = "idle" /\ ctl' = ctl /\ is_running' = is_running /\ accepter.pc = "bind"
    BY <1>5 DEF AccepterBinds
  <2>3. QED
    BY <2>1, <2>2
<1>6. CASE StartBegins \/ StopBegins
  BY <1>6 DEF StartBegins, StopBegins
<1>7. CASE StartSpawns \/ StartFails
  BY <1>7 DEF StartSpawns, StartFails, manager
<1>8. CASE StartBinds
  <2>1. PICK t \in Unbound : BindCallback(t) /\
          IF bound[t] = 0 THEN UNCHANGED <<threads_mtx, is_running, ctl, start>>
          ELSE IF ctl.pos = start.num
          THEN /\ threads_mtx' = "free" /\ is_running' = TRUE
               /\ ctl' = [pc |-> "idle", pos |-> 0] /\ start' = NoStart
          ELSE /\ ctl' = [ctl EXCEPT !.pc = "spawn"]
               /\ UNCHANGED <<threads_mtx, is_running, start>>
    BY <1>8 DEF StartBinds
  <2>2. ctl.pc = "bind" /\ accepter' = accepter
    BY <1>8 DEF StartBinds
  <2>3. accepter.pc \in {"idle", "lock"}
    BY <2>2
  <2>4. QED
    BY <2>1, <2>2, <2>3
<1>9. CASE StopWrites \/ StopJoins \/ StopEnds
  BY <1>9 DEF StopWrites, StopJoins, StopEnds
<1>10. ASSUME NEW t \in Thread, Listen(t) PROVE LockInv'
  BY <1>10, ListenFrame
<1>11. QED
  BY <1>1, <1>2, <1>3, <1>4, <1>5, <1>6, <1>7, <1>8, <1>9, <1>10
     DEF Next, Accepter, Ctl

\* A step that makes no thread, binds none and joins none.
LEMMA VectorFrame ==
  ASSUME Types, VectorInv, UNCHANGED <<threads, bound>>,
         \A t \in Thread : pc'[t] = "unborn" <=> pc[t] = "unborn",
         \A i \in DOMAIN threads : Joined(i)' <=> Joined(i),
         accepter.pc = "bind" \/ ctl.pc = "bind" => accepter'.pc = "bind" \/ ctl'.pc = "bind"
  PROVE  VectorInv'
<1>1. Distinct(threads)' /\ Elems(threads)' = Elems(threads) /\ Unbound' = Unbound
  BY DEF VectorInv, Distinct, Elems, Unbound
<1>2. \A i \in DOMAIN threads : threads[i] \in Thread
  BY DEF Types, ManagerTypes
<1>3. QED
  BY <1>1, <1>2 DEF VectorInv

\* While somebody has threads_mtx and has not yet made a thread, none is being made,

\* and no thread of the vector has been joined unless Stop runs.
LEMMA NoneBeingMade ==
  ASSUME Types, ControlInv, accepter.pc # "bind", ctl.pc # "bind"
  PROVE  Unbound = {} /\ \A t \in Thread : pc[t] # "unborn" => t \in Elems(threads)
<1>1. \A t \in Thread : pc[t] # "unborn" => t \in Elems(threads)
  BY DEF ControlInv, VectorInv
<1>2. \A t \in Thread : pc[t] # "unborn" => bound[t] = 2
  <2> TAKE t \in Thread
  <2> HAVE pc[t] # "unborn"
  <2>1. PICK i \in DOMAIN threads : threads[i] = t
    BY <1>1 DEF Elems
  <2>2. QED
    BY <2>1 DEF ControlInv, VectorInv
<1>3. QED
  BY <1>1, <1>2 DEF Unbound

\* Where the new thread comes from, and that the others stay as they are.
LEMMA MakesVector ==
  ASSUME Types, ControlInv, accepter.pc # "bind", ctl.pc \notin {"bind", "stop", "join"},
         NEW t \in Thread, pc[t] = "unborn", pc' = [pc EXCEPT ![t] = "init"],
         UNCHANGED <<threads, bound>>, ctl'.pc \notin {"stop", "join"},
         accepter'.pc = "bind" \/ ctl'.pc = "bind"
  PROVE  VectorInv'
<1>1. Unbound = {} /\ \A u \in Thread : pc[u] # "unborn" => u \in Elems(threads)
  BY NoneBeingMade
<1>2. \A i : ~Joined(i) /\ ~Joined(i)'
  BY DEF Joined
<1>3. \A i \in DOMAIN threads : threads[i] \in Thread
  BY DEF Types, ManagerTypes
<1>4. \A i \in DOMAIN threads : pc[threads[i]] # "unborn" /\ bound[threads[i]] = 2
  BY <1>2 DEF ControlInv, VectorInv
<1>5. bound[t] = 0 /\ pc \in [Thread -> Place_]
  BY DEF ControlInv, ThreadInv, Stands, Types, ThreadTypes
<1>6. Distinct(threads)' /\ Elems(threads)' = Elems(threads)
  BY DEF ControlInv, VectorInv, Distinct, Elems
<1>7. \A u \in Thread : pc'[u] = IF u = t THEN "init" ELSE pc[u]
  BY <1>5
<1>8. \A u \in Unbound' : u = t
  BY <1>1, <1>7 DEF Unbound
<1>9. QED
  BY <1>1, <1>2, <1>3, <1>4, <1>5, <1>6, <1>7, <1>8 DEF VectorInv

\* A callback is assigned, and with the second one the thread goes to the vector.
LEMMA BindsVector ==
  ASSUME Types, ControlInv, NEW t \in Unbound, BindCallback(t),
         ctl.pc \notin {"stop", "join"}, ctl'.pc \notin {"stop", "join"},
         bound[t] = 0 => accepter'.pc = "bind" \/ ctl'.pc = "bind"
  PROVE  VectorInv'
<1>1. /\ t \in Thread /\ pc[t] # "unborn" /\ bound[t] \in 0..1 /\ threads \in Seq(Thread)
      /\ bound \in [Thread -> 0..2]
  BY DEF Unbound, Types, ThreadTypes, ManagerTypes
<1>2. \A i : ~Joined(i) /\ ~Joined(i)'
  BY DEF Joined
<1>3. \A i \in DOMAIN threads : pc[threads[i]] # "unborn" /\ bound[threads[i]] = 2
  BY <1>2 DEF ControlInv, VectorInv
<1>4. t \notin Elems(threads)
  BY <1>1, <1>3 DEF Elems
<1>5. pc' = pc /\ bound' = [bound EXCEPT ![t] = @ + 1]
  BY DEF BindCallback, listener
<1>6. \A u \in Thread : u # t /\ pc[u] # "unborn" => u \in Elems(threads) /\ bound[u] = 2
  <2> TAKE u \in Thread
  <2> HAVE u # t /\ pc[u] # "unborn"
  <2>1. u \notin Unbound
    BY DEF ControlInv, VectorInv
  <2>2. bound[u] = 2
    BY <1>1, <2>1 DEF Unbound
  <2>3. QED
    BY <2>2 DEF ControlInv, VectorInv
<1>7. \A u \in Thread : bound'[u] = IF u = t THEN bound[t] + 1 ELSE bound[u]
  BY <1>1, <1>5
<1>8. \A u, v \in Unbound' : u = v
  BY <1>1, <1>5, <1>6, <1>7 DEF Unbound
<1>9. \A i \in DOMAIN threads : threads[i] \in Thread /\ threads[i] # t
  BY <1>1, <1>4 DEF Elems
<1>10. Distinct(threads)
  BY DEF ControlInv, VectorInv
<1>11. CASE bound[t] = 0
  <2>1. threads' = threads
    BY <1>11 DEF BindCallback
  <2>2. Distinct(threads)' /\ Elems(threads)' = Elems(threads)
    BY <1>10, <2>1 DEF Distinct, Elems
  <2>3. QED
    BY <1>1, <1>2, <1>3, <1>5, <1>6, <1>7, <1>8, <1>9, <1>11, <2>1, <2>2 DEF VectorInv
<1>12. CASE bound[t] = 1
  <2>1. threads' = Append(threads, t)
    BY <1>12 DEF BindCallback
  <2>2. Distinct(threads') /\ Elems(threads') = Elems(threads) \cup {t}
    BY <1>1, <1>4, <1>10, <2>1, AppendFacts
  <2>3. \A i \in DOMAIN threads' : threads'[i] = t \/ \E j \in DOMAIN threads : threads'[i] = threads[j]
    BY <2>2 DEF Elems
  <2>4. \A i \in DOMAIN threads' : pc'[threads'[i]] # "unborn" /\ bound'[threads'[i]] = 2
    BY <1>1, <1>3, <1>5, <1>7, <1>9, <1>12, <2>3
  <2>5. Distinct(threads)' /\ Elems(threads)' = Elems(threads) \cup {t}
    BY <2>2 DEF Distinct, Elems
  <2>6. QED
    BY <1>2, <1>5, <1>6, <1>8, <2>4, <2>5 DEF VectorInv
<1>13. QED
  BY <1>1, <1>11, <1>12

\* The vector tells which threads live, but for the one being made.
LEMMA StepVector == Types /\ ControlInv /\ Next => VectorInv'
<1> SUFFICES ASSUME Types, ControlInv, Next PROVE VectorInv'
  OBVIOUS
<1>0. /\ VectorInv /\ LockInv /\ pc \in [Thread -> Place_] /\ bound \in [Thread -> 0..2]
      /\ threads \in Seq(Thread) /\ ctl \in CtlState /\ accepter \in AccepterState
  BY DEF ControlInv, Types, ManagerTypes, ThreadTypes
<1>1. ASSUME NEW c \in Client, Accept(c) \/ Peer(c) PROVE VectorInv'
  <2>1. accepter.pc = "bind" => accepter'.pc = "bind"
    BY <1>1 DEF Accept, Peer, Move
  <2>2. UNCHANGED <<threads, bound, pc, ctl>>
    BY <1>1 DEF Accept, Peer, Move, manager, listener, shared
  <2>3. QED
    BY <1>0, <2>1, <2>2, VectorFrame DEF Joined
<1>2. CASE AccepterLocks \/ AddTcpClientFull \/ AddTcpClientTakes \/ AddTcpClientWrites
  <2>1. accepter.pc # "bind"
    BY <1>2 DEF AccepterLocks, AddTcpClientFull, AddTcpClientTakes, AddTcpClientWrites
  <2>2. UNCHANGED <<threads, bound, pc, ctl>>
    BY <1>2 DEF AccepterLocks, AddTcpClientFull, AddTcpClientTakes, AddTcpClientWrites,
       manager, listener, shared
  <2>3. QED
    BY <1>0, <2>1, <2>2, VectorFrame DEF Joined
<1>3. CASE AccepterSpawns
  <2> DEFINE t == Least(Unborn)
  <2>1. t \in Thread /\ pc[t] = "unborn"
    BY <1>3, NewbornFacts DEF AccepterSpawns
  <2>2. accepter.pc = "try" /\ ctl.pc = "idle" /\ ctl' = ctl
    BY <1>0, <1>3 DEF AccepterSpawns, LockInv, CtlState, manager
  <2>3. pc' = [pc EXCEPT ![t] = "init"] /\ UNCHANGED <<threads, bound>>
    BY <1>3 DEF AccepterSpawns, NewThread, manager
  <2>4. accepter'.pc = "bind"
    BY <1>0, <1>3 DEF AccepterSpawns, AccepterState
  <2> HIDE DEF t
  <2>5. QED
    BY <2>1, <2>2, <2>3, <2>4, MakesVector
<1>4. CASE AccepterBinds
  <2>1. PICK t \in Unbound :
          BindCallback(t) /\ (bound[t] # 1 => UNCHANGED accepter)
    BY <1>4 DEF AccepterBinds
  <2>2. accepter.pc = "bind" /\ ctl' = ctl /\ ctl.pc = "idle"
    BY <1>0, <1>4 DEF AccepterBinds, LockInv
  <2>3. QED
    BY <2>1, <2>2, BindsVector
<1>5. CASE StartBegins \/ StopBegins \/ StartFails \/ StopWrites
  <2>1. UNCHANGED <<threads, bound, pc, accepter>>
    BY <1>5 DEF StartBegins, StopBegins, StartFails, StopWrites, listener, shared, manager
  <2>2. ctl.pc # "bind"
    BY <1>5 DEF StartBegins, StopBegins, StartFails, StopWrites
  <2>3. \A i \in DOMAIN threads : Joined(i)' <=> Joined(i)
    BY <1>0, <1>5 DEF StartBegins, StopBegins, StartFails, StopWrites, Joined, CtlState,
       manager
  <2>4. QED
    BY <1>0, <2>1, <2>2, <2>3, VectorFrame
<1>6. CASE StartSpawns
  <2> DEFINE t == Least(Unborn)
  <2>1. t \in Thread /\ pc[t] = "unborn"
    BY <1>6, NewbornFacts DEF StartSpawns
  <2>2. ctl.pc = "spawn" /\ accepter.pc # "bind" /\ ctl'.pc = "bind"
    BY <1>0, <1>6 DEF StartSpawns, LockInv
  <2>3. pc' = [pc EXCEPT ![t] = "init"] /\ UNCHANGED <<threads, bound>>
    BY <1>6 DEF StartSpawns, NewThread
  <2> HIDE DEF t
  <2>4. QED
    BY <2>1, <2>2, <2>3, MakesVector
<1>7. CASE StartBinds
  <2>1. PICK t \in Unbound : BindCallback(t) /\
          IF bound[t] = 0 THEN UNCHANGED <<threads_mtx, is_running, ctl, start>>
          ELSE IF ctl.pos = start.num
          THEN /\ threads_mtx' = "free" /\ is_running' = TRUE
               /\ ctl' = [pc |-> "idle", pos |-> 0] /\ start' = NoStart
          ELSE /\ ctl' = [ctl EXCEPT !.pc = "spawn"]
               /\ UNCHANGED <<threads_mtx, is_running, start>>
    BY <1>7 DEF StartBinds
  <2>2. ctl.pc = "bind"
    BY <1>7 DEF StartBinds
  <2>3. ctl'.pc \notin {"stop", "join"} /\ (bound[t] = 0 => ctl'.pc = "bind")
    BY <1>0, <2>1, <2>2 DEF CtlState
  <2>4. QED
    BY <2>1, <2>2, <2>3, BindsVector
<1>8. CASE StopJoins
  <2> DEFINE t == threads[ctl.pos]
  <2>1. /\ ctl.pc = "join" /\ ctl.pos \in DOMAIN threads /\ t \in Thread /\ pc[t] = "exited"
        /\ accepter.pc # "bind" /\ ctl.pos \in Nat
    BY <1>0, <1>8 DEF StopJoins, LockInv, CtlState
  <2>2. /\ pc' = [pc EXCEPT ![t] = "unborn"] /\ bound' = [bound EXCEPT ![t] = 0]
        /\ threads' = threads /\ accepter' = accepter
        /\ ctl' = [pc |-> "stop", pos |-> ctl.pos + 1]
    BY <1>8 DEF StopJoins
  <2> HIDE DEF t
  <2>3. \A u \in Thread : /\ pc'[u] = IF u = t THEN "unborn" ELSE pc[u]
                          /\ bound'[u] = IF u = t THEN 0 ELSE bound[u]
    BY <1>0, <2>1, <2>2
  <2>4. \A i \in DOMAIN threads : threads[i] \in Thread /\ i \in Nat
    BY <1>0
  <2>5. \A i \in DOMAIN threads : Joined(i)' <=> Joined(i) \/ i = ctl.pos
    BY <2>1, <2>2, <2>4 DEF Joined
  <2>6. \A i \in DOMAIN threads : threads[i] = t <=> i = ctl.pos
    BY <1>0, <2>1 DEF t, VectorInv, Distinct
  <2>7. ~Joined(ctl.pos)
    BY <2>1 DEF Joined
  <2>8. \A i \in DOMAIN threads : IF Joined(i)' THEN pc'[threads[i]] = "unborn"
                                  ELSE pc'[threads[i]] # "unborn" /\ bound'[threads[i]] = 2
    BY <1>0, <2>3, <2>4, <2>5, <2>6 DEF VectorInv
  <2>9. Distinct(threads)' /\ Elems(threads)' = Elems(threads)
    BY <1>0, <2>2 DEF VectorInv, Distinct, Elems
  <2>10. Unbound = {} /\ \A u \in Thread : pc[u] # "unborn" => u \in Elems(threads)
    BY <2>1, NoneBeingMade
  <2>11. Unbound' = {}
    BY <2>3, <2>10 DEF Unbound
  <2>12. \A u \in Thread : pc'[u] # "unborn" => u \in Elems(threads)'
    BY <2>3, <2>9, <2>10
  <2>13. QED
    BY <2>2, <2>8, <2>9, <2>11, <2>12 DEF VectorInv
<1>9. CASE StopEnds
  <2>1. /\ ctl.pc = "stop" /\ ctl.pos > Len(threads) /\ accepter.pc # "bind"
        /\ threads' = <<>> /\ UNCHANGED <<pc, bound>>
    BY <1>0, <1>9 DEF StopEnds, LockInv, listener, shared
  <2>2. \A i \in DOMAIN threads : Joined(i)
    BY <1>0, <2>1 DEF Joined, CtlState
  <2>3. Unbound = {} /\ \A u \in Thread : pc[u] # "unborn" => u \in Elems(threads)
    BY <2>1, NoneBeingMade
  <2>4. \A u \in Thread : pc[u] = "unborn"
    BY <1>0, <2>2, <2>3 DEF VectorInv, Elems
  <2>5. Unbound' = {} /\ Distinct(threads)' /\ DOMAIN threads' = {}
    BY <2>1, <2>4, SmallLists DEF Unbound, Distinct
  <2>6. QED
    BY <2>1, <2>4, <2>5 DEF VectorInv
<1>10. ASSUME NEW t \in Thread, Listen(t) PROVE VectorInv'
  <2>1. UNCHANGED <<threads, bound, ctl, accepter>>
    BY <1>10, ListenFrame
  <2>2. pc[t] # "unborn" /\ pc' = [pc EXCEPT ![t] = pc'[t]] /\ pc'[t] # "unborn"
    BY <1>10, ListenFrame
  <2>3. \A u \in Thread : pc'[u] = "unborn" <=> pc[u] = "unborn"
    BY <1>0, <2>2
  <2>4. QED
    BY <1>0, <2>1, <2>3, VectorFrame DEF Joined
<1>11. QED
  BY <1>1, <1>2, <1>3, <1>4, <1>5, <1>6, <1>7, <1>8, <1>9, <1>10
     DEF Next, Accepter, Ctl

-----------------------------------------------------------------------------
\* A step that lets a thread be.
Same(u) == /\ pc'[u] = pc[u] /\ buffers'[u] = buffers[u] /\ slots'[u] = slots[u]
           /\ poll_fds_num'[u] = poll_fds_num[u] /\ revents'[u] = revents[u]
           /\ leaving'[u] = leaving[u] /\ pipe'[u] = pipe[u] /\ bound'[u] = bound[u]
           /\ born'[u] = born[u]

\* A listening thread changes no other.
LEMMA ListenOthers ==
  ASSUME Types, NEW t \in Thread, Listen(t), NEW u \in Thread, u # t
  PROVE  Same(u)
<1>0. /\ pc \in [Thread -> Place_] /\ buffers \in [Thread -> Seq(Client)]
      /\ slots \in [Thread -> [Slot -> Client \cup {None}]]
      /\ poll_fds_num \in [Thread -> 1..(MaxClients + 1)]
      /\ revents \in [Thread -> [Slot -> {"none", "in", "hup"}]]
      /\ leaving \in [Thread -> Client \cup {None}]
      /\ pipe \in [Thread -> Seq(Client \cup {"s"})]
  BY DEF Types, ThreadTypes
<1>1. CASE InitialSlots(t) \/ Poll(t) \/ ScanEnds(t)
  BY <1>0, <1>1 DEF InitialSlots, Poll, ScanEnds, shared, history, Same
<1>2. CASE StopCommand(t)
  BY <1>0, <1>2 DEF StopCommand, history, Same
<1>3. CASE AddCommand(t)
  BY <1>0, <1>3 DEF AddCommand, history, Same
<1>4. CASE Remove(t)
  BY <1>0, <1>4 DEF Remove, history, Same
<1>5. CASE HangUp(t) \/ ReceiveData(t) \/ ReceiveEnd(t)
  <2>1. PICK i \in Slot : Handles(t, i)
    BY <1>5, LookFacts
  <2>2. UNCHANGED <<shared, history>> /\ revents'[u] = revents[u]
    BY <1>0, <2>1 DEF Handles, ClearReport
  <2>3. CASE Stays
    BY <2>2, <2>3 DEF Stays, shared, history, Same
  <2>4. CASE TakesOut(t, i)
    BY <1>0, <2>2, <2>4 DEF TakesOut, TakeOut, shared, history, Same
  <2>5. QED
    BY <2>1, <2>3, <2>4 DEF Handles
<1>6. QED
  BY <1>1, <1>2, <1>3, <1>4, <1>5 DEF Listen

\* The thread the acceptor tries next runs, and nobody has told it to stop.
LEMMA TargetFacts ==
  ASSUME Types, ControlInv, accepter.pc \in {"try", "write"}, accepter.pos <= Len(threads),
         NEW t, t = threads[accepter.pos]
  PROVE  /\ t \in Thread /\ pc[t] \notin {"unborn", "exited"} /\ bound[t] = 2
         /\ ctl.pc = "idle" /\ accepter.client \in Client
         /\ \A i \in DOMAIN pipe[t] : pipe[t][i] # "s"
<1>1. /\ threads \in Seq(Thread) /\ accepter \in AccepterState /\ LockInv /\ VectorInv
      /\ StopInv /\ ctl \in CtlState
  BY DEF Types, ManagerTypes, ControlInv
<1>2. ctl.pc = "idle" /\ accepter.pos \in DOMAIN threads /\ accepter.client \in Client
  BY <1>1 DEF LockInv, AccepterState, CtlState
<1>3. t \in Thread /\ pc[t] # "unborn" /\ bound[t] = 2
  BY <1>1, <1>2 DEF VectorInv, Joined
<1>4. ~Joining(t)
  BY <1>2 DEF Joining
<1>5. QED
  BY <1>1, <1>2, <1>3, <1>4 DEF StopInv, Heeds

\* The thread that Stop has come to lives, and is the only one that may be about to exit.
LEMMA StopFacts ==
  ASSUME Types, ControlInv, ctl.pc \in {"stop", "join"}, ctl.pos <= Len(threads),
         NEW t, t = threads[ctl.pos]
  PROVE  /\ t \in Thread /\ pc[t] # "unborn" /\ bound[t] = 2
         /\ accepter.pc \in {"idle", "lock"} /\ is_running
         /\ ctl.pc = "stop" => /\ pc[t] # "exited"
                               /\ \A i \in DOMAIN pipe[t] : pipe[t][i] # "s"
<1>1. /\ threads \in Seq(Thread) /\ accepter \in AccepterState /\ LockInv /\ VectorInv
      /\ StopInv /\ ctl \in CtlState
  BY DEF Types, ManagerTypes, ControlInv
<1>2. /\ ctl.pos \in DOMAIN threads /\ accepter.pc \in {"idle", "lock"} /\ is_running
  BY <1>1 DEF LockInv, AccepterState, CtlState
<1>3. t \in Thread /\ pc[t] # "unborn" /\ bound[t] = 2
  <2>1. ~Joined(ctl.pos)
    BY <1>1 DEF CtlState, Joined
  <2>2. QED
    BY <1>1, <1>2, <2>1 DEF VectorInv
<1>4. ctl.pc = "stop" => ~Joining(t)
  BY DEF Joining
<1>5. QED
  BY <1>1, <1>2, <1>3, <1>4 DEF StopInv, Heeds

LEMMA StandsFrame ==
  ASSUME ThreadInv, NEW u \in Thread, Same(u), u \in raced' => u \in raced
  PROVE  Stands(u)'
BY DEF ThreadInv, Stands, Same

\* The new thread stands at its beginning.
LEMMA MakesStands ==
  ASSUME Types, ControlInv, NEW t \in Thread, pc[t] = "unborn", NEW clients,
         NewThread(t, clients)
  PROVE  /\ ThreadInv' /\ pc'[t] = "init" /\ buffers'[t] = clients /\ born'[t] = clients
         /\ UNCHANGED <<slots, poll_fds_num, revents, leaving, pipe, bound, raced>>
         /\ \A u \in Thread \ {t} : Same(u)
<1>1. /\ pc \in [Thread -> Place_] /\ buffers \in [Thread -> Seq(Client)]
      /\ born \in [Thread -> Seq(Client)] /\ Stands(t) /\ ThreadInv
  BY DEF Types, ThreadTypes, ControlInv, ThreadInv
<1>2. /\ pc'[t] = "init" /\ buffers'[t] = clients /\ born'[t] = clients
      /\ UNCHANGED <<slots, poll_fds_num, revents, leaving, pipe, bound, raced>>
      /\ \A u \in Thread \ {t} : Same(u)
  BY <1>1 DEF NewThread, Same
<1>3. Stands(t)'
  BY <1>1, <1>2 DEF Stands
<1>4. \A u \in Thread \ {t} : Stands(u)'
  BY <1>1, <1>2, StandsFrame
<1>5. QED
  BY <1>2, <1>3, <1>4 DEF ThreadInv

LEMMA BindsStands ==
  ASSUME Types, ControlInv, NEW t \in Unbound, BindCallback(t)
  PROVE  ThreadInv'
<1>1. t \in Thread /\ pc[t] # "unborn" /\ bound \in [Thread -> 0..2] /\ ThreadInv
  BY DEF Unbound, Types, ThreadTypes, ControlInv
<1>2. /\ bound' = [bound EXCEPT ![t] = @ + 1]
      /\ UNCHANGED <<pc, slots, poll_fds_num, revents, leaving, buffers, pipe, raced, born>>
  BY DEF BindCallback, listener, history
<1>3. \A u \in Thread : pc[u] = "unborn" => bound'[u] = bound[u]
  BY <1>1, <1>2
<1>4. QED
  BY <1>1, <1>2, <1>3 DEF ThreadInv, Stands

\* What a thread has, and where, step by step.
LEMMA ListenStands ==
  ASSUME Types, ControlInv, NEW t \in Thread, Listen(t)
  PROVE  Stands(t)'
<1>0. /\ pc \in [Thread -> Place_] /\ buffers \in [Thread -> Seq(Client)]
      /\ slots \in [Thread -> [Slot -> Client \cup {None}]]
      /\ revents \in [Thread -> [Slot -> {"none", "in", "hup"}]]
      /\ leaving \in [Thread -> Client \cup {None}]
      /\ pipe \in [Thread -> Seq(Client \cup {"s"})]
      /\ None \notin Client
      /\ Stands(t)
  BY ClientAssumption DEF Types, ThreadTypes, ControlInv, ThreadInv
<1>1. CASE InitialSlots(t)
  <2>1. /\ pc[t] = "init" /\ pc'[t] = "poll" /\ revents' = revents /\ leaving' = leaving
    BY <1>0, <1>1 DEF InitialSlots
  <2>2. \A i \in Slot : revents[t][i] = "none"
    BY <1>0, <2>1 DEF Stands, NoEvents
  <2>3. QED
    BY <1>0, <2>1, <2>2 DEF Stands
<1>2. CASE Poll(t)
  <2>1. /\ pc[t] = "poll" /\ pc'[t] \in {"command", "scan"}
        /\ pc'[t] = "command" => pipe[t] # <<>>
        /\ UNCHANGED <<slots, leaving, pipe>>
    BY <1>0, <1>2 DEF Poll, shared
  <2>2. \A i \in Slot : revents'[t][i] = IF i < poll_fds_num[t] THEN Event(slots[t][i])
                                         ELSE revents[t][i]
    BY <1>0, <1>2 DEF Poll
  <2>3. Event(None) = "none"
    BY DEF Event
  <2>4. \A i \in Slot : revents'[t][i] # "none" => slots[t][i] # None
    BY <1>0, <2>2, <2>3 DEF Stands
  <2>5. QED
    BY <1>0, <2>1, <2>4 DEF Stands
<1>3. CASE StopCommand(t)
  <2>1. pc[t] = "command" /\ pipe[t] # <<>> /\ leaving[t] = None
    BY <1>0, <1>3 DEF StopCommand, Stands
  <2>2. \A i \in DOMAIN pipe[t] : pipe[t][i] = "s" => i = Len(pipe[t])
    BY DEF ControlInv, StopInv, Heeds
  <2>3. Tail(pipe[t]) = <<>>
    <3>1. pipe[t] \in Seq(Client \cup {"s"})
      BY <1>0
    <3>2. Head(pipe[t]) = pipe[t][1] /\ 1 \in DOMAIN pipe[t] /\ Head(pipe[t]) = "s"
      BY <1>3, <2>1, <3>1, TailFacts DEF StopCommand
    <3>3. Len(pipe[t]) = 1
      BY <2>2, <3>2
    <3>4. Len(Tail(pipe[t])) = 0 /\ Tail(pipe[t]) \in Seq(Client \cup {"s"})
      BY <2>1, <3>1, <3>3, TailFacts
    <3>5. QED
      BY <3>4, EmptySeq
  <2>4. /\ pc'[t] = "exited" /\ slots'[t] = NoSlots /\ revents'[t] = NoEvents
        /\ buffers'[t] = <<>> /\ pipe'[t] = <<>> /\ leaving' = leaving
    BY <1>0, <1>3, <2>3 DEF StopCommand
  <2>5. QED
    BY <2>1, <2>4 DEF Stands, NoEvents
<1>4. CASE AddCommand(t)
  <2>1. /\ pc[t] = "command" /\ pc'[t] = "scan" /\ UNCHANGED <<revents, leaving>>
    BY <1>0, <1>4 DEF AddCommand
  <2>2. Head(pipe[t]) # None
    <3>1. Head(pipe[t]) \in Client \cup {"s"} /\ Head(pipe[t]) # "s"
      BY <1>0, <1>4 DEF AddCommand, Stands
    <3>2. QED
      BY <1>0, <3>1
  <2>3. \A i \in Slot : slots'[t][i] = slots[t][i] \/ slots'[t][i] = Head(pipe[t])
    <3>1. CASE FreeSlots(t) = {}
      BY <1>4, <3>1 DEF AddCommand
    <3>2. CASE FreeSlots(t) # {}
      <4> DEFINE k == Least(FreeSlots(t))
      <4>1. slots' = [slots EXCEPT ![t][k] = Head(pipe[t])]
        BY <1>4, <3>2 DEF AddCommand
      <4> HIDE DEF k
      <4>2. QED
        BY <1>0, <4>1
    <3>3. QED
      BY <3>1, <3>2
  <2>4. QED
    BY <1>0, <2>1, <2>2, <2>3 DEF Stands
<1>5. CASE ScanEnds(t)
  BY <1>0, <1>5 DEF ScanEnds, shared, Stands
<1>6. CASE Remove(t)
  BY <1>0, <1>6 DEF Remove, Stands
<1>7. CASE HangUp(t) \/ ReceiveData(t) \/ ReceiveEnd(t)
  <2>1. PICK i \in Slot : Handles(t, i)
    BY <1>7, LookFacts
  <2>2. /\ pc[t] = "scan" /\ revents' = [revents EXCEPT ![t][i] = "none"]
        /\ UNCHANGED <<pipe, buffers, bound>>
    BY <2>1 DEF Handles, ClearReport, shared
  <2>3. /\ \A j \in Slot : revents'[t][j] # "none" => revents[t][j] # "none" /\ j # i
    BY <1>0, <2>2
  <2>4. CASE Stays
    BY <1>0, <2>2, <2>3, <2>4 DEF Stays, Stands
  <2>5. CASE TakesOut(t, i)
    <3>1. slots[t][i] # None
      BY <1>0, <2>1 DEF Handles, Stands
    <3>2. /\ slots' = [slots EXCEPT ![t] = [slots[t] EXCEPT ![i] = None]]
          /\ leaving'[t] # None /\ pc'[t] \in {"remove", "removeclosed"}
      BY <1>0, <2>5, <3>1 DEF TakesOut, TakeOut
    <3>3. \A j \in Slot : j # i => slots'[t][j] = slots[t][j]
      BY <1>0, <3>2
    <3>4. QED
      BY <1>0, <2>3, <3>2, <3>3 DEF Stands
  <2>6. QED
    BY <2>1, <2>4, <2>5 DEF Handles
<1>8. QED
  BY <1>1, <1>2, <1>3, <1>4, <1>5, <1>6, <1>7 DEF Listen

LEMMA StepThread == Types /\ ControlInv /\ Next => ThreadInv'
<1> SUFFICES ASSUME Types, ControlInv, Next PROVE ThreadInv'
  OBVIOUS
<1>0. /\ ThreadInv /\ pc \in [Thread -> Place_] /\ bound \in [Thread -> 0..2]
      /\ buffers \in [Thread -> Seq(Client)] /\ pipe \in [Thread -> Seq(Client \cup {"s"})]
      /\ threads \in Seq(Thread) /\ ctl \in CtlState /\ accepter \in AccepterState
      /\ LockInv
  BY DEF ControlInv, Types, ManagerTypes, ThreadTypes
<1>1. CASE \/ \E c \in Client : Accept(c) \/ Peer(c)
           \/ AccepterLocks \/ AddTcpClientFull
           \/ StartBegins \/ StopBegins \/ StartFails \/ StopEnds
  <2>1. raced' = raced /\ \A u \in Thread : Same(u)
    BY <1>1 DEF Accept, Peer, Move, AccepterLocks, AddTcpClientFull, StartBegins,
       StopBegins, StartFails, StopEnds, listener, shared, history, Same
  <2>2. QED
    BY <1>0, <2>1, StandsFrame DEF ThreadInv
<1>2. CASE AddTcpClientTakes
  <2> PICK t : t = threads[accepter.pos]
    OBVIOUS
  <2>1. /\ t \in Thread /\ pc[t] \notin {"unborn", "exited"}
        /\ UNCHANGED <<pc, slots, poll_fds_num, revents, leaving, pipe, bound, born>>
    BY <1>2, TargetFacts DEF AddTcpClientTakes, listener
  <2>2. /\ buffers' = [buffers EXCEPT ![t] = Append(@, accepter.client)]
        /\ raced' \subseteq raced \cup {t}
    BY <1>2 DEF AddTcpClientTakes
  <2>3. Stands(t)'
    BY <1>0, <2>1 DEF ThreadInv, Stands
  <2>4. \A u \in Thread \ {t} : Stands(u)'
    <3>1. \A u \in Thread \ {t} : Same(u) /\ (u \in raced' => u \in raced)
      BY <1>0, <2>1, <2>2 DEF Same
    <3>2. QED
      BY <1>0, <3>1, StandsFrame
  <2>5. QED
    BY <2>3, <2>4 DEF ThreadInv
<1>3. CASE AddTcpClientWrites
  <2> PICK t : t = threads[accepter.pos]
    OBVIOUS
  <2>0. accepter.pos <= Len(threads) /\ accepter.pc = "write"
    BY <1>0, <1>3 DEF AddTcpClientWrites, LockInv
  <2>1. /\ t \in Thread /\ pc[t] \notin {"unborn", "exited"}
        /\ UNCHANGED <<pc, slots, poll_fds_num, revents, leaving, buffers, bound, born, raced>>
    BY <1>3, <2>0, TargetFacts DEF AddTcpClientWrites, listener, history
  <2>2. pipe' = [pipe EXCEPT ![t] = Append(@, accepter.client)]
    BY <1>3 DEF AddTcpClientWrites
  <2>3. pipe'[t] # <<>>
    <3>1. pipe'[t] = Append(pipe[t], accepter.client) /\ pipe[t] \in Seq(Client \cup {"s"})
      BY <1>0, <2>1, <2>2
    <3>2. Append(pipe[t], accepter.client) # <<>>
      BY <3>1
    <3>3. QED
      BY <3>1, <3>2
  <2>4. Stands(t)'
    BY <1>0, <2>1, <2>3 DEF ThreadInv, Stands
  <2>5. \A u \in Thread \ {t} : Stands(u)'
    <3>1. \A u \in Thread \ {t} : Same(u) /\ (u \in raced' => u \in raced)
      BY <1>0, <2>1, <2>2 DEF Same
    <3>2. QED
      BY <1>0, <3>1, StandsFrame
  <2>6. QED
    BY <2>4, <2>5 DEF ThreadInv
<1>4. CASE AccepterSpawns \/ StartSpawns
  <2>1. Unborn # {} /\ \E clients : NewThread(Least(Unborn), clients)
    BY <1>4 DEF AccepterSpawns, StartSpawns
  <2>2. QED
    BY <2>1, NewbornFacts, MakesStands
<1>5. CASE AccepterBinds \/ StartBinds
  <2>1. PICK t \in Unbound : BindCallback(t)
    BY <1>5 DEF AccepterBinds, StartBinds
  <2>2. QED
    BY <2>1, BindsStands
<1>6. CASE StopWrites
  <2> PICK t : t = threads[ctl.pos]
    OBVIOUS
  <2>1. /\ t \in Thread /\ pc[t] \notin {"unborn", "exited"}
        /\ UNCHANGED <<pc, slots, poll_fds_num, revents, leaving, buffers, bound, born, raced>>
    BY <1>6, StopFacts DEF StopWrites, listener, history
  <2>2. pipe' = [pipe EXCEPT ![t] = Append(@, "s")]
    BY <1>6 DEF StopWrites
  <2>3. pipe'[t] # <<>>
    <3>1. pipe'[t] = Append(pipe[t], "s") /\ pipe[t] \in Seq(Client \cup {"s"})
      BY <1>0, <2>1, <2>2
    <3>2. Append(pipe[t], "s") # <<>>
      BY <3>1
    <3>3. QED
      BY <3>1, <3>2
  <2>4. Stands(t)'
    BY <1>0, <2>1, <2>3 DEF ThreadInv, Stands
  <2>5. \A u \in Thread \ {t} : Stands(u)'
    <3>1. \A u \in Thread \ {t} : Same(u) /\ (u \in raced' => u \in raced)
      BY <1>0, <2>1, <2>2 DEF Same
    <3>2. QED
      BY <1>0, <3>1, StandsFrame
  <2>6. QED
    BY <2>4, <2>5 DEF ThreadInv
<1>7. CASE StopJoins
  <2> PICK t : t = threads[ctl.pos]
    OBVIOUS
  <2>1. t \in Thread /\ pc[t] = "exited"
    <3>1. ctl.pc = "join" /\ ctl.pos <= Len(threads) /\ pc[t] = "exited"
      BY <1>0, <1>7 DEF StopJoins, LockInv
    <3>2. QED
      BY <3>1, StopFacts
  <2>2. /\ pc' = [pc EXCEPT ![t] = "unborn"] /\ bound' = [bound EXCEPT ![t] = 0]
        /\ pipe' = [pipe EXCEPT ![t] = <<>>] /\ poll_fds_num' = [poll_fds_num EXCEPT ![t] = 1]
        /\ born' = [born EXCEPT ![t] = <<>>] /\ raced' = raced \ {t}
        /\ UNCHANGED <<slots, revents, leaving, buffers>>
    BY <1>7 DEF StopJoins
  <2>3. pc'[t] = "unborn" /\ bound'[t] = 0 /\ pipe'[t] = <<>> /\ t \notin raced'
    BY <1>0, <2>1, <2>2
  <2>4. Stands(t)'
    BY <1>0, <2>1, <2>2, <2>3 DEF ThreadInv, Stands
  <2>5. \A u \in Thread \ {t} : Stands(u)'
    <3>1. \A u \in Thread \ {t} : Same(u) /\ (u \in raced' => u \in raced)
      <4>1. poll_fds_num \in [Thread -> 1..(MaxClients + 1)] /\ born \in [Thread -> Seq(Client)]
        BY DEF Types, ThreadTypes
      <4>2. QED
        BY <1>0, <2>2, <4>1 DEF Same
    <3>2. QED
      BY <1>0, <3>1, StandsFrame
  <2>6. QED
    BY <2>4, <2>5 DEF ThreadInv
<1>8. ASSUME NEW t \in Thread, Listen(t) PROVE ThreadInv'
  <2>1. Stands(t)'
    BY <1>8, ListenStands
  <2>2. raced' = raced
    BY <1>8, ListenFrame
  <2>3. \A u \in Thread \ {t} : Stands(u)'
    BY <1>0, <1>8, <2>2, ListenOthers, StandsFrame
  <2>4. QED
    BY <2>1, <2>3 DEF ThreadInv
<1>9. QED
  BY <1>1, <1>2, <1>3, <1>4, <1>5, <1>6, <1>7, <1>8 DEF Next, Accepter, Ctl
LEMMA HeedsFrame ==
  ASSUME StopInv, NEW u \in Thread, Same(u), Joining(u) => Joining(u)'
  PROVE  Heeds(u)'
BY DEF StopInv, Heeds, Same

\* Only StopCommand ends a thread, and it is the last command there is.
LEMMA ListenHeeds ==
  ASSUME Types, ControlInv, NEW t \in Thread, Listen(t)
  PROVE  Heeds(t)'
<1>0. /\ pc \in [Thread -> Place_] /\ pipe \in [Thread -> Seq(Client \cup {"s"})]
      /\ Heeds(t) /\ Stands(t)
  BY DEF Types, ThreadTypes, ControlInv, ThreadInv, StopInv
<1>1. UNCHANGED <<ctl, threads>>
  BY ListenFrame
<1>2. Joining(t)' <=> Joining(t)
  BY <1>1 DEF Joining
<1>3. CASE StopCommand(t) \/ AddCommand(t)
  <2>1. pc[t] = "command" /\ pipe[t] # <<>> /\ pipe' = [pipe EXCEPT ![t] = Tail(@)]
    BY <1>0, <1>3 DEF StopCommand, AddCommand, Stands
  <2> DEFINE q == pipe[t]
  <2>2. q \in Seq(Client \cup {"s"}) /\ q # <<>> /\ pipe'[t] = Tail(q)
    BY <1>0, <2>1
  <2>3. \A i \in DOMAIN q : q[i] = "s" => i = Len(q) /\ Joining(t)
    BY <1>0 DEF Heeds
  <2>4. /\ Head(q) = q[1] /\ 1 \in DOMAIN q /\ Len(Tail(q)) = Len(q) - 1
        /\ \A i \in DOMAIN Tail(q) : i + 1 \in DOMAIN q /\ Tail(q)[i] = q[i + 1]
        /\ Tail(q) \in Seq(Client \cup {"s"}) /\ Len(q) \in Nat
    BY <2>2, TailFacts
  <2>5. Head(q) = "s" => Joining(t)
    BY <2>3, <2>4
  <2>6. pc'[t] = "exited" => Joining(t)
    BY <1>0, <1>3, <2>5 DEF StopCommand, AddCommand
  <2> DEFINE r == Tail(q)
  <2>7. \A i \in DOMAIN r : i \in Nat
    BY <2>4
  <2> HIDE DEF q, r
  <2>8. \A i \in DOMAIN r : r[i] = "s" => i = Len(r) /\ Joining(t)
    BY <2>3, <2>4, <2>7 DEF r
  <2>9. QED
    BY <1>2, <2>2, <2>6, <2>8 DEF Heeds, r
<1>4. CASE ~(StopCommand(t) \/ AddCommand(t))
  <2>1. pipe' = pipe /\ pc'[t] # "exited"
    <3>1. CASE InitialSlots(t) \/ Poll(t) \/ ScanEnds(t) \/ Remove(t)
      BY <1>0, <3>1 DEF InitialSlots, Poll, ScanEnds, Remove, shared
    <3>2. CASE HangUp(t) \/ ReceiveData(t) \/ ReceiveEnd(t)
      <4>1. PICK i \in Slot : Handles(t, i)
        BY <3>2, LookFacts
      <4>2. CASE Stays
        BY <4>1, <4>2 DEF Handles, Stays, shared
      <4>3. CASE TakesOut(t, i)
        BY <1>0, <4>1, <4>3 DEF Handles, TakesOut, TakeOut, shared
      <4>4. QED
        BY <4>1, <4>2, <4>3 DEF Handles
    <3>3. QED
      BY <1>4, <3>1, <3>2 DEF Listen
  <2>2. QED
    BY <1>0, <1>2, <2>1 DEF Heeds
<1>5. QED
  BY <1>3, <1>4

\* What Stop and the listening threads do to each other goes through one command.
LEMMA StepStop == Types /\ ControlInv /\ Next => StopInv'
<1> SUFFICES ASSUME Types, ControlInv, Next PROVE StopInv'
  OBVIOUS
<1>0. /\ StopInv /\ LockInv /\ VectorInv /\ pc \in [Thread -> Place_]
      /\ buffers \in [Thread -> Seq(Client)] /\ pipe \in [Thread -> Seq(Client \cup {"s"})]
      /\ threads \in Seq(Thread) /\ ctl \in CtlState /\ accepter \in AccepterState
      /\ "s" \notin Client
  BY ClientAssumption DEF ControlInv, Types, ManagerTypes, ThreadTypes
<1>1. CASE \/ \E c \in Client : Accept(c) \/ Peer(c)
           \/ AccepterLocks \/ AddTcpClientFull
           \/ StartBegins \/ StopBegins \/ StartFails \/ StopEnds
  <2>1. /\ \A u \in Thread : Same(u)
        /\ \/ UNCHANGED <<threads, ctl>>
           \/ ctl.pc # "join"
    BY <1>1 DEF Accept, Peer, Move, AccepterLocks, AddTcpClientFull, StartBegins,
       StopBegins, StartFails, StopEnds, manager, listener, shared, history, Same
  <2>2. \A u \in Thread : Joining(u) => Joining(u)'
    BY <2>1 DEF Joining
  <2>3. QED
    BY <1>0, <2>1, <2>2, HeedsFrame DEF StopInv
<1>2. CASE AddTcpClientTakes
  <2>1. UNCHANGED <<pc, pipe, ctl, threads>>
    BY <1>2 DEF AddTcpClientTakes, manager, listener
  <2>2. QED
    BY <1>0, <2>1 DEF StopInv, Heeds, Joining
<1>3. CASE AddTcpClientWrites
  <2>0. accepter.pos <= Len(threads) /\ accepter.pc = "write"
    BY <1>0, <1>3 DEF AddTcpClientWrites, LockInv
  <2> PICK t : t = threads[accepter.pos]
    OBVIOUS
  <2>1. /\ t \in Thread /\ accepter.client \in Client
        /\ \A i \in DOMAIN pipe[t] : pipe[t][i] # "s"
    BY <2>0, TargetFacts
  <2>2. /\ pipe' = [pipe EXCEPT ![t] = Append(@, accepter.client)]
        /\ UNCHANGED <<pc, ctl, threads>>
    BY <1>3 DEF AddTcpClientWrites, listener
  <2>3. \A i \in DOMAIN pipe'[t] : pipe'[t][i] # "s"
    <3>1. pipe'[t] = Append(pipe[t], accepter.client) /\ pipe[t] \in Seq(Client \cup {"s"})
      BY <1>0, <2>1, <2>2
    <3>2. Elems(pipe'[t]) = Elems(pipe[t]) \cup {accepter.client}
      BY <2>1, <3>1, AppendFacts
    <3>3. QED
      BY <1>0, <2>1, <3>2 DEF Elems
  <2>4. \A u \in Thread : u # t => pipe'[u] = pipe[u]
    BY <1>0, <2>2
  <2>5. \A u \in Thread : Joining(u)' <=> Joining(u)
    BY <2>2 DEF Joining
  <2>6. QED
    BY <1>0, <2>2, <2>3, <2>4, <2>5 DEF StopInv, Heeds
<1>4. CASE AccepterSpawns \/ StartSpawns
  <2>1. PICK t \in Thread : /\ pc[t] = "unborn"
                            /\ \E clients : NewThread(t, clients)
    BY <1>4, NewbornFacts DEF AccepterSpawns, StartSpawns
  <2>2. pipe' = pipe /\ pc' = [pc EXCEPT ![t] = "init"]
    BY <2>1 DEF NewThread
  <2>3. threads' = threads /\ (ctl' = ctl \/ ctl.pc = "spawn")
    BY <1>4 DEF AccepterSpawns, StartSpawns, manager
  <2>4. \A u \in Thread : Joining(u) => Joining(u)'
    BY <2>3 DEF Joining
  <2>5. \A u \in Thread : pc'[u] = "exited" => pc[u] = "exited"
    BY <1>0, <2>2
  <2>6. QED
    BY <1>0, <2>2, <2>4, <2>5 DEF StopInv, Heeds
<1>5. CASE AccepterBinds \/ StartBinds
  <2>1. UNCHANGED <<pc, pipe>>
    BY <1>5 DEF AccepterBinds, StartBinds, BindCallback, listener
  <2>2. ctl.pc # "join"
    BY <1>0, <1>5 DEF AccepterBinds, StartBinds, LockInv
  <2>3. QED
    BY <1>0, <2>1, <2>2 DEF StopInv, Heeds, Joining
<1>6. CASE StopWrites
  <2> PICK t : t = threads[ctl.pos]
    OBVIOUS
  <2>1. /\ t \in Thread /\ \A i \in DOMAIN pipe[t] : pipe[t][i] # "s"
        /\ ctl.pc = "stop"
    BY <1>6, StopFacts DEF StopWrites
  <2>2. /\ pipe' = [pipe EXCEPT ![t] = Append(@, "s")] /\ UNCHANGED <<pc, threads>>
        /\ ctl' = [ctl EXCEPT !.pc = "join"]
    BY <1>6 DEF StopWrites, listener
  <2>3. Joining(t)' /\ \A u \in Thread : ~Joining(u)
    BY <1>0, <2>1, <2>2 DEF Joining, CtlState
  <2>4. \A i \in DOMAIN pipe'[t] : pipe'[t][i] = "s" => i = Len(pipe'[t])
    <3>1. pipe'[t] = Append(pipe[t], "s") /\ pipe[t] \in Seq(Client \cup {"s"})
      BY <1>0, <2>1, <2>2
    <3> DEFINE q == pipe[t]
               r == Append(q, "s")
    <3>2. /\ Len(r) = Len(q) + 1 /\ DOMAIN r = 1..(Len(q) + 1)
          /\ \A i \in 1..Len(q) : r[i] = q[i] /\ i \in DOMAIN q
          /\ Len(q) \in Nat
      BY <3>1
    <3> HIDE DEF r
    <3>3. \A i \in DOMAIN r : r[i] = "s" => i = Len(r)
      BY <2>1, <3>2
    <3>4. QED
      BY <3>1, <3>3 DEF r
  <2>5. \A u \in Thread : u # t => pipe'[u] = pipe[u]
    BY <1>0, <2>2
  <2>6. QED
    BY <1>0, <2>2, <2>3, <2>4, <2>5 DEF StopInv, Heeds
<1>7. CASE StopJoins
  <2> PICK t : t = threads[ctl.pos]
    OBVIOUS
  <2>1. t \in Thread /\ ctl.pc = "join"
    <3>1. ctl.pc = "join" /\ ctl.pos <= Len(threads)
      BY <1>0, <1>7 DEF StopJoins, LockInv
    <3>2. QED
      BY <3>1, StopFacts
  <2>2. /\ pc' = [pc EXCEPT ![t] = "unborn"] /\ pipe' = [pipe EXCEPT ![t] = <<>>]
    BY <1>7 DEF StopJoins
  <2>3. \A u \in Thread : u # t => ~Joining(u)
    BY DEF Joining
  <2>4. \A u \in Thread : IF u = t THEN pc'[u] = "unborn" /\ pipe'[u] = <<>>
                          ELSE pc'[u] = pc[u] /\ pipe'[u] = pipe[u]
    BY <1>0, <2>1, <2>2
  <2>5. Heeds(t)'
    <3>1. DOMAIN pipe'[t] = {} /\ pc'[t] # "exited"
      BY <2>1, <2>4
    <3>2. QED
      BY <3>1 DEF Heeds
  <2>6. \A u \in Thread : u # t => Heeds(u)'
    BY <1>0, <2>3, <2>4 DEF StopInv, Heeds
  <2>7. QED
    BY <2>5, <2>6 DEF StopInv
<1>8. ASSUME NEW t \in Thread, Listen(t) PROVE StopInv'
  <2>1. Heeds(t)'
    BY <1>8, ListenHeeds
  <2>2. UNCHANGED <<ctl, threads>>
    BY <1>8, ListenFrame
  <2>3. \A u \in Thread : Joining(u) => Joining(u)'
    BY <2>2 DEF Joining
  <2>4. \A u \in Thread \ {t} : Heeds(u)'
    BY <1>0, <1>8, <2>3, ListenOthers, HeedsFrame
  <2>5. QED
    BY <2>1, <2>4 DEF StopInv
<1>9. QED
  BY <1>1, <1>2, <1>3, <1>4, <1>5, <1>6, <1>7, <1>8 DEF Next, Accepter, Ctl

LEMMA StepControl == Types /\ ControlInv /\ Next => ControlInv'
BY StepLock, StepVector, StepThread, StepStop DEF ControlInv

-----------------------------------------------------------------------------
\* What poll_fds_num has to be, told without Greatest.
LEMMA CountIs ==
  ASSUME NEW S \in SUBSET Slot, NEW n \in Nat \ {0}
  PROVE  n = (IF S = {} THEN 1 ELSE Greatest(S) + 1)
           <=> (\A j \in S : j < n) /\ ((S = {} /\ n = 1) \/ n - 1 \in S)
<1>1. MaxClients \in Nat /\ \A j \in S : j \in Nat /\ j >= 1
  BY MaxClientsAssumption DEF Slot
<1>2. CASE S = {}
  BY <1>2
<1>3. CASE S # {}
  <2>1. Greatest(S) \in S /\ \A j \in S : j <= Greatest(S)
    <3>1. S \in SUBSET (0..MaxClients)
      BY <1>1 DEF Slot
    <3>2. QED
      BY <1>1, <1>3, <3>1, GreatestExists
  <2> DEFINE g == Greatest(S)
  <2> HIDE DEF g
  <2>2. n = g + 1 <=> (\A j \in S : j < n) /\ n - 1 \in S
    BY <1>1, <2>1 DEF g
  <2>3. QED
    BY <1>3, <2>2 DEF g
<1>4. QED
  BY <1>2, <1>3

\* poll_fds_num, and that no slot in use lies behind it.
LEMMA CountFacts ==
  ASSUME Types, NEW t \in Thread, PollCount(t), pc[t] \notin {"unborn", "init", "exited"}
  PROVE  /\ poll_fds_num[t] \in Nat \ {0} /\ Used(t) \in SUBSET Slot
         /\ \A j \in Used(t) : j < poll_fds_num[t]
         /\ (Used(t) = {} /\ poll_fds_num[t] = 1) \/ poll_fds_num[t] - 1 \in Used(t)
<1>1. poll_fds_num[t] \in Nat \ {0} /\ Used(t) \in SUBSET Slot
  BY MaxClientsAssumption DEF Types, ThreadTypes, Used
<1>2. QED
  BY <1>1, CountIs DEF PollCount

LEMMA CountFrame ==
  ASSUME NEW u \in Thread, PollCount(u), slots'[u] = slots[u],
         poll_fds_num'[u] = poll_fds_num[u],
         pc'[u] \notin {"unborn", "init", "exited"} => pc[u] \notin {"unborn", "init", "exited"}
  PROVE  PollCount(u)'
BY DEF PollCount, Used

\* The three steps that change the slots change poll_fds_num with them.
LEMMA ListenCount ==
  ASSUME Types, ControlInv, CountInv, NEW t \in Thread, Listen(t)
  PROVE  PollCount(t)'
<1>0. /\ pc \in [Thread -> Place_] /\ slots \in [Thread -> [Slot -> Client \cup {None}]]
      /\ poll_fds_num \in [Thread -> 1..(MaxClients + 1)]
      /\ pipe \in [Thread -> Seq(Client \cup {"s"})] /\ buffers[t] \in Seq(Client)
      /\ Len(buffers[t]) <= MaxClients /\ MaxClients \in Nat \ {0} /\ None \notin Client
      /\ PollCount(t) /\ Stands(t)
  BY ClientAssumption, MaxClientsAssumption DEF Types, ThreadTypes, CountInv, ControlInv,
     ThreadInv
<1>1. CASE InitialSlots(t)
  <2> DEFINE n == Len(buffers[t])
  <2>1. /\ slots'[t] = [i \in Slot |-> IF i <= n THEN buffers[t][i] ELSE None]
        /\ poll_fds_num'[t] = n + 1
    BY <1>0, <1>1 DEF InitialSlots
  <2>2. n \in Nat /\ n <= MaxClients /\ \A i \in 1..n : buffers[t][i] # None
    BY <1>0
  <2>3. Used(t)' = 1..n
    BY <1>0, <2>1, <2>2 DEF Used, Slot
  <2>4. Used(t)' \in SUBSET Slot
    BY <1>0, <2>2, <2>3 DEF Slot
  <2> DEFINE U == Used(t)'
  <2> HIDE DEF n, U
  <2>5. (\A j \in U : j < n + 1) /\ ((U = {} /\ n + 1 = 1) \/ n + 1 - 1 \in U)
    BY <2>2, <2>3 DEF U
  <2>6. n + 1 = IF U = {} THEN 1 ELSE Greatest(U) + 1
    BY <2>2, <2>4, <2>5, CountIs DEF U
  <2>7. QED
    BY <2>1, <2>6 DEF PollCount, U
<1>2. CASE AddCommand(t)
  <2> DEFINE n == poll_fds_num[t]
             c == Head(pipe[t])
  <2>0. pc[t] = "command" /\ pc'[t] = "scan"
    BY <1>0, <1>2 DEF AddCommand
  <2>1. CASE FreeSlots(t) = {}
    BY <1>0, <1>2, <2>0, <2>1, CountFrame DEF AddCommand
  <2>2. CASE FreeSlots(t) # {}
    <3> DEFINE i == Least(FreeSlots(t))
    <3>1. /\ slots' = [slots EXCEPT ![t][i] = c]
          /\ poll_fds_num' = [poll_fds_num EXCEPT ![t] = IF i = @ THEN i + 1 ELSE @]
      BY <1>2, <2>2 DEF AddCommand
    <3>2. i \in FreeSlots(t) /\ \A j \in FreeSlots(t) : i <= j
      <4>1. FreeSlots(t) \in SUBSET Nat
        BY DEF FreeSlots, Slot
      <4>2. QED
        BY <2>2, <4>1, LeastExists
    <3>3. i \in Slot /\ slots[t][i] = None /\ i \in Nat
      BY <3>2 DEF FreeSlots, Slot
    <3>4. c # None
      <4>1. c \in Client \cup {"s"} /\ c # "s"
        BY <1>0, <1>2, <2>0 DEF AddCommand, Stands
      <4>2. QED
        BY <1>0, <4>1
    <3>5. /\ n \in Nat \ {0} /\ Used(t) \in SUBSET Slot /\ \A j \in Used(t) : j < n
          /\ (Used(t) = {} /\ n = 1) \/ n - 1 \in Used(t)
      BY <1>0, <2>0, CountFacts
    <3>6. \A j \in Slot : j < i => j \in Used(t)
      BY <3>2, <3>3 DEF FreeSlots, Used, Slot
    <3> HIDE DEF i, c
    <3>7. Used(t)' = Used(t) \cup {i}
      <4>1. \A j \in Slot : slots'[t][j] = IF j = i THEN c ELSE slots[t][j]
        BY <1>0, <3>1
      <4>2. QED
        BY <3>3, <3>4, <4>1 DEF Used
    <3>8. Used(t)' \in SUBSET Slot
      BY <3>3, <3>5, <3>7
    <3>9. poll_fds_num'[t] = IF i = n THEN n + 1 ELSE n
      BY <1>0, <3>1
    <3> DEFINE m == IF i = n THEN n + 1 ELSE n
               U == Used(t)'
    <3>10. i <= n
      <4>1. ASSUME n < i PROVE FALSE
        <5>1. n \in Slot
          BY <1>0, <3>3, <3>5, <4>1 DEF Slot
        <5>2. n \in Used(t)
          BY <3>6, <4>1, <5>1
        <5>3. QED
          BY <3>5, <5>2
      <4>2. QED
        BY <3>3, <3>5, <4>1
    <3>11. (\A j \in U : j < m) /\ ((U = {} /\ m = 1) \/ m - 1 \in U) /\ m \in Nat \ {0}
      <4>1. U = Used(t) \cup {i}
        BY <3>7
      <4> HIDE DEF U
      <4>2. \A j \in Used(t) : j \in Nat
        BY <3>5 DEF Slot
      <4>3. i >= 1
        BY <3>3 DEF Slot
      <4>4. QED
        BY <3>3, <3>5, <3>10, <4>1, <4>2, <4>3
    <3> HIDE DEF m, U
    <3>12. m = IF U = {} THEN 1 ELSE Greatest(U) + 1
      BY <3>8, <3>11, CountIs DEF U
    <3>13. QED
      BY <3>9, <3>12 DEF PollCount, U, m
  <2>3. QED
    BY <2>1, <2>2
<1>3. CASE HangUp(t) \/ ReceiveData(t) \/ ReceiveEnd(t)
  <2>1. PICK i \in Slot : Handles(t, i)
    BY <1>3, LookFacts
  <2>2. pc[t] = "scan"
    BY <2>1 DEF Handles
  <2>3. CASE Stays
    BY <1>0, <2>2, <2>3, CountFrame DEF Stays
  <2>4. CASE TakesOut(t, i)
    <3> DEFINE left == [slots[t] EXCEPT ![i] = None]
               occupied == {j \in 1..(poll_fds_num[t] - 1) : left[j] # None}
    <3>1. /\ slots'[t] = left
          /\ poll_fds_num'[t] = IF occupied = {} THEN 1 ELSE Greatest(occupied) + 1
      BY <1>0, <2>4 DEF TakesOut, TakeOut
    <3>2. \A j \in Used(t) : j < poll_fds_num[t]
      BY <1>0, <2>2, CountFacts
    <3>3. Used(t)' = {j \in Slot : left[j] # None}
      BY <3>1 DEF Used
    <3>4. \A j \in Slot : left[j] # None => j \in Used(t)
      BY <1>0 DEF Used
    <3>5. poll_fds_num[t] \in 1..(MaxClients + 1)
      BY <1>0
    <3>6. Used(t)' = occupied
      BY <1>0, <3>2, <3>3, <3>4, <3>5 DEF Slot
    <3> HIDE DEF occupied
    <3>7. QED
      BY <3>1, <3>6 DEF PollCount
  <2>5. QED
    BY <2>1, <2>3, <2>4 DEF Handles
<1>4. CASE Poll(t) \/ StopCommand(t) \/ ScanEnds(t) \/ Remove(t)
  <2>1. CASE StopCommand(t)
    BY <1>0, <2>1 DEF StopCommand, PollCount
  <2>2. CASE Poll(t) \/ ScanEnds(t) \/ Remove(t)
    BY <1>0, <2>2, CountFrame DEF Poll, ScanEnds, Remove
  <2>3. QED
    BY <1>4, <2>1, <2>2
<1>5. QED
  BY <1>1, <1>2, <1>3, <1>4 DEF Listen

LEMMA StepCount == Types /\ ControlInv /\ CountInv /\ Next => CountInv'
<1> SUFFICES ASSUME Types, ControlInv, CountInv, Next PROVE CountInv'
  OBVIOUS
<1>0. /\ pc \in [Thread -> Place_] /\ poll_fds_num \in [Thread -> 1..(MaxClients + 1)]
      /\ \A u \in Thread : PollCount(u)
  BY DEF Types, ThreadTypes, CountInv
<1>1. CASE \/ \E c \in Client : Accept(c) \/ Peer(c)
           \/ AccepterLocks \/ AddTcpClientFull \/ AddTcpClientTakes \/ AddTcpClientWrites
           \/ AccepterBinds \/ StartBegins \/ StopBegins \/ StartFails \/ StartBinds
           \/ StopWrites \/ StopEnds
  <2>1. UNCHANGED <<pc, slots, poll_fds_num>>
    BY <1>1 DEF Accept, Peer, Move, AccepterLocks, AddTcpClientFull, AddTcpClientTakes,
       AddTcpClientWrites, AccepterBinds, StartBegins, StopBegins, StartFails, StartBinds,
       StopWrites, StopEnds, BindCallback, listener
  <2>2. QED
    BY <1>0, <2>1, CountFrame DEF CountInv
<1>2. CASE AccepterSpawns \/ StartSpawns
  <2>1. PICK t \in Thread : /\ pc[t] = "unborn"
                            /\ \E clients : NewThread(t, clients)
    BY <1>2, NewbornFacts DEF AccepterSpawns, StartSpawns
  <2>2. UNCHANGED <<slots, poll_fds_num>> /\ pc' = [pc EXCEPT ![t] = "init"]
    BY <2>1 DEF NewThread
  <2>3. QED
    BY <1>0, <2>2, CountFrame DEF CountInv
<1>3. CASE StopJoins
  <2> PICK t : t = threads[ctl.pos]
    OBVIOUS
  <2>1. /\ pc' = [pc EXCEPT ![t] = "unborn"] /\ slots' = slots
        /\ poll_fds_num' = [poll_fds_num EXCEPT ![t] = 1]
    BY <1>3 DEF StopJoins
  <2>2. \A u \in Thread : PollCount(u)'
    <3> TAKE u \in Thread
    <3>1. CASE u = t
      BY <1>0, <2>1, <3>1 DEF PollCount
    <3>2. CASE u # t
      BY <1>0, <2>1, <3>2, CountFrame
    <3>3. QED
      BY <3>1, <3>2
  <2>3. QED
    BY <2>2 DEF CountInv
<1>4. ASSUME NEW t \in Thread, Listen(t) PROVE CountInv'
  <2>1. PollCount(t)'
    BY <1>4, ListenCount
  <2>2. \A u \in Thread \ {t} : PollCount(u)'
    BY <1>0, <1>4, ListenOthers, CountFrame DEF Same
  <2>3. QED
    BY <2>1, <2>2 DEF CountInv
<1>5. QED
  BY <1>1, <1>2, <1>3, <1>4 DEF Next, Accepter, Ctl

-----------------------------------------------------------------------------
\* A thread reports a client it holds and starts to take it out.
Departs(t, c) ==
  /\ pc[t] = "scan" /\ c \in Elems(buffers[t]) /\ bound[t] = 2
  /\ db' = Without(db, c)
  /\ notified' = [notified EXCEPT ![c] = IF @ < 2 THEN @ + 1 ELSE @]
  /\ leaving' = [leaving EXCEPT ![t] = c]
  /\ buffers' = buffers

\* What a listening thread's step does to the clients: it lets one go, first from the

\* database and then from its buffers, or all at once when it is stopped.
LEMMA ListenHolds ==
  ASSUME Types, NEW t \in Thread, Listen(t)
  PROVE  /\ \A u \in Thread : Elems(buffers'[u]) \subseteq Elems(buffers[u])
         /\ \A u \in Thread : u # t => buffers'[u] = buffers[u] /\ leaving'[u] = leaving[u]
         /\ \/ \E c \in Client : Departs(t, c)
            \/ /\ db' = db /\ notified' = notified
               /\ \/ leaving'[t] = leaving[t]
                  \/ leaving'[t] = None /\ leaving[t] \notin Elems(buffers'[t])
<1>0. /\ buffers \in [Thread -> Seq(Client)] /\ leaving \in [Thread -> Client \cup {None}]
  BY DEF Types, ThreadTypes
<1>1. \A u \in Thread : u # t => buffers'[u] = buffers[u] /\ leaving'[u] = leaving[u]
  BY ListenOthers DEF Same
<1>2. CASE InitialSlots(t) \/ Poll(t) \/ ScanEnds(t) \/ AddCommand(t)
  BY <1>2 DEF InitialSlots, Poll, ScanEnds, AddCommand, shared, world
<1>3. CASE StopCommand(t)
  <2>1. buffers'[t] = <<>> /\ UNCHANGED <<db, notified, leaving>>
    BY <1>0, <1>3 DEF StopCommand, world
  <2>2. Elems(buffers'[t]) = {}
    BY <2>1, SmallLists
  <2>3. QED
    BY <1>1, <2>1, <2>2
<1>4. CASE Remove(t)
  <2>1. /\ buffers'[t] = Without(buffers[t], leaving[t]) /\ leaving'[t] = None
        /\ UNCHANGED <<db, notified>>
    BY <1>0, <1>4 DEF Remove
  <2>2. Elems(buffers'[t]) = Elems(buffers[t]) \ {leaving[t]}
    BY <1>0, <2>1, WithoutFacts
  <2>3. QED
    BY <1>1, <2>1, <2>2
<1>5. CASE HangUp(t) \/ ReceiveData(t) \/ ReceiveEnd(t)
  <2>1. PICK i \in Slot : Handles(t, i)
    BY <1>5, LookFacts
  <2>2. buffers' = buffers /\ pc[t] = "scan"
    BY <2>1 DEF Handles, shared
  <2>3. CASE Stays
    BY <2>2, <2>3 DEF Stays
  <2>4. CASE TakesOut(t, i)
    <3> DEFINE c == slots[t][i]
    <3>1. c \in Elems(buffers[t]) /\ c \in Client
      BY <1>0, <2>4 DEF TakesOut, Buffered, Elems
    <3>2. Departs(t, c)
      BY <2>2, <2>4, <3>1 DEF TakesOut, TakeOut, Departs
    <3>3. QED
      BY <1>1, <2>2, <3>1, <3>2
  <2>5. QED
    BY <2>1, <2>3, <2>4 DEF Handles
<1>6. QED
  BY <1>2, <1>3, <1>4, <1>5 DEF Listen

\* What the other threads do to the buffers: the client in hand goes to one thread's, or

\* a pass of Start's loop fills a new one's.
LEMMA TakesBuffers ==
  ASSUME Types, ControlInv, AddTcpClientTakes \/ AccepterSpawns
  PROVE  /\ InHand(accepter.client) /\ accepter.client \in Client
         /\ accepter'.pc \in {"write", "bind"} /\ accepter'.client = accepter.client
         /\ UNCHANGED <<manager, leaving, world, relisted, skipped, starts, bound>>
         /\ \E t \in Thread :
              /\ Elems(buffers'[t]) \subseteq Elems(buffers[t]) \cup {accepter.client}
              /\ Elems(buffers[t]) \cup {accepter.client} \subseteq Elems(buffers'[t])
              /\ \A u \in Thread : u # t => buffers'[u] = buffers[u]
<1>0. /\ buffers \in [Thread -> Seq(Client)] /\ accepter \in AccepterState /\ LockInv
  BY DEF Types, ThreadTypes, ManagerTypes, ControlInv
<1>1. /\ accepter.pc = "try" /\ accepter.client \in Client
      /\ accepter'.pc \in {"write", "bind"} /\ accepter'.client = accepter.client
  BY <1>0 DEF AddTcpClientTakes, AccepterSpawns, LockInv, AccepterState
<1>2. CASE AddTcpClientTakes
  <2> PICK t : t = threads[accepter.pos]
    OBVIOUS
  <2>1. t \in Thread
    BY <1>2, TargetFacts DEF AddTcpClientTakes
  <2>2. buffers' = [buffers EXCEPT ![t] = Append(@, accepter.client)]
    BY <1>2 DEF AddTcpClientTakes
  <2>3. Elems(buffers'[t]) = Elems(buffers[t]) \cup {accepter.client}
    BY <1>0, <1>1, <2>1, <2>2, AppendFacts
  <2>4. UNCHANGED <<manager, leaving, world, relisted, skipped, starts, bound>>
    BY <1>2 DEF AddTcpClientTakes, listener
  <2>5. QED
    BY <1>0, <1>1, <2>1, <2>2, <2>3, <2>4 DEF InHand
<1>3. CASE AccepterSpawns
  <2> PICK t : t = Least(Unborn)
    OBVIOUS
  <2>1. t \in Thread /\ pc[t] = "unborn"
    BY <1>3, NewbornFacts DEF AccepterSpawns
  <2>2. /\ buffers' = [buffers EXCEPT ![t] = <<accepter.client>>]
        /\ UNCHANGED <<manager, leaving, world, relisted, skipped, starts, bound>>
    BY <1>3 DEF AccepterSpawns, NewThread
  <2>3. Elems(buffers'[t]) = {accepter.client} /\ Elems(buffers[t]) = {}
    BY <1>0, <2>1, <2>2, SmallLists DEF ControlInv, ThreadInv, Stands
  <2>4. QED
    BY <1>0, <1>1, <2>1, <2>2, <2>3 DEF InHand
<1>4. QED
  BY <1>2, <1>3

LEMMA SpawnsBuffers ==
  ASSUME Types, ControlInv, StartSpawns
  PROVE  /\ UNCHANGED <<accepter, leaving, world, bound>>
         /\ relisted' = relisted \cup (Elems(Stretch) \cap HandedOver)
         /\ Elems(Stretch) \subseteq Elems(List) /\ Elems(List) \subseteq Elems(db)
         /\ \E t \in Thread : /\ buffers'[t] = Stretch /\ pc[t] = "unborn"
                              /\ \A u \in Thread : u # t => buffers'[u] = buffers[u]
<1>1. /\ ~WalkFails /\ Unborn # {} /\ UNCHANGED <<accepter, leaving, world, bound>>
      /\ relisted' = relisted \cup (Elems(Stretch) \cap HandedOver)
      /\ buffers' = [buffers EXCEPT ![Least(Unborn)] = Stretch]
  BY DEF StartSpawns, NewThread
<1>2. Elems(Stretch) \subseteq Elems(List)
  BY <1>1, StretchFacts
<1>3. Elems(List) \subseteq Elems(db)
  BY SmallLists DEF List
<1>4. buffers \in [Thread -> Seq(Client)] /\ Least(Unborn) \in Thread
      /\ pc[Least(Unborn)] = "unborn"
  BY <1>1, NewbornFacts DEF Types, ThreadTypes
<1>5. QED
  BY <1>1, <1>2, <1>3, <1>4

LEMMA StepBorn == Types /\ ControlInv /\ BornInv /\ Next => BornInv'
<1> SUFFICES ASSUME Types, ControlInv, BornInv, Next,
                    NEW c \in Client, sock'[c] = "unborn"
             PROVE  Untouched(c)'
  BY DEF BornInv
<1>0. /\ sock \in [Client -> {"unborn", "open", "data", "datafin", "fin", "rst"}]
      /\ db \in Seq(Client) /\ accepter \in AccepterState /\ None # c
      /\ notified \in [Client -> 0..2]
  BY ClientAssumption DEF Types, WorldTypes, ManagerTypes
<1>a. sock[c] = "unborn" => Untouched(c)
  BY DEF BornInv
<1>1. ASSUME NEW d \in Client, Accept(d) PROVE Untouched(c)'
  <2>1. /\ sock' = [sock EXCEPT ![d] = "open"] /\ db' = Append(db, d)
        /\ accepter'.client = d /\ UNCHANGED <<start, buffers, notified>>
    BY <1>1 DEF Accept, manager, shared
  <2>2. c # d /\ sock[c] = "unborn"
    BY <1>0, <2>1
  <2>3. Elems(db') = Elems(db) \cup {d}
    BY <1>0, <2>1, AppendFacts
  <2>4. Elems(db)' = Elems(db) \cup {d} /\ Elems(start.listed)' = Elems(start.listed)
        /\ \A t \in Thread : Elems(buffers[t])' = Elems(buffers[t])
    BY <2>1, <2>3 DEF Elems
  <2>5. QED
    BY <1>a, <2>1, <2>2, <2>4 DEF Untouched
<1>2. ASSUME NEW d \in Client, Peer(d) PROVE Untouched(c)'
  <2>1. UNCHANGED <<db, start, accepter, buffers, notified>>
        /\ \E from \in {"open", "data"}, to \in {"data", "datafin", "fin", "rst"} :
             sock[d] = from /\ sock' = [sock EXCEPT ![d] = to]
    BY <1>2 DEF Peer, Move, manager, shared
  <2>2. sock[c] = "unborn"
    BY <1>0, <2>1
  <2>3. QED
    BY <1>a, <2>1, <2>2 DEF Untouched
<1>3. CASE AccepterLocks \/ AddTcpClientFull \/ AddTcpClientWrites \/ AccepterBinds
           \/ StartFails \/ StopBegins \/ StopWrites \/ StopJoins \/ StopEnds
  <2>1. /\ UNCHANGED <<sock, db, start, buffers, notified>>
        /\ accepter'.client \in {accepter.client, None}
    BY <1>0, <1>3 DEF AccepterLocks, AddTcpClientFull, AddTcpClientWrites, AccepterBinds,
       BindCallback, StartFails, StopBegins, StopWrites, StopJoins, StopEnds, manager,
       shared, world, AccepterState
  <2>2. QED
    BY <1>0, <1>a, <2>1 DEF Untouched
<1>4. CASE AddTcpClientTakes \/ AccepterSpawns
  <2>1. /\ UNCHANGED <<manager, world>> /\ accepter'.client = accepter.client
        /\ \A t \in Thread : Elems(buffers'[t]) \subseteq Elems(buffers[t]) \cup {accepter.client}
    BY <1>4, TakesBuffers
  <2>2. sock[c] = "unborn" /\ UNCHANGED <<db, start, notified>>
    BY <2>1 DEF world, manager
  <2>3. \A t \in Thread : Elems(buffers[t])' = Elems(buffers'[t])
    BY DEF Elems
  <2>4. QED
    BY <1>a, <2>1, <2>2, <2>3 DEF Untouched
<1>5. CASE StartBegins
  <2>1. UNCHANGED <<sock, db, accepter, buffers, notified>>
        /\ start'.listed \in {db, <<>>}
    BY <1>5 DEF StartBegins, shared, world
  <2>2. c \notin Elems(start'.listed)
    BY <1>a, <2>1, SmallLists DEF Untouched
  <2>3. QED
    BY <1>a, <2>1, <2>2 DEF Untouched, Elems
<1>6. CASE StartBinds
  <2>1. UNCHANGED <<sock, db, accepter, buffers, notified>>
        /\ start' \in {start, NoStart}
    BY <1>6 DEF StartBinds, BindCallback, world
  <2>2. c \notin Elems(start'.listed)
    BY <1>a, <2>1, SmallLists DEF Untouched, NoStart
  <2>3. QED
    BY <1>a, <2>1, <2>2 DEF Untouched, Elems
<1>7. CASE StartSpawns
  <2>1. /\ UNCHANGED <<accepter, world>> /\ Elems(Stretch) \subseteq Elems(db)
        /\ \A t \in Thread : buffers'[t] = Stretch \/ buffers'[t] = buffers[t]
    BY <1>7, SpawnsBuffers
  <2>2. start'.listed = start.listed
    <3>1. start \in StartState
      BY DEF Types, ManagerTypes
    <3>2. QED
      BY <1>7, <3>1 DEF StartSpawns, StartState
  <2>3. sock[c] = "unborn" /\ UNCHANGED <<db, notified>>
    BY <2>1 DEF world
  <2>4. \A t \in Thread : c \notin Elems(buffers'[t])
    BY <1>a, <2>1, <2>3 DEF Untouched
  <2>5. QED
    BY <1>a, <2>1, <2>2, <2>3, <2>4 DEF Untouched, Elems
<1>8. ASSUME NEW t \in Thread, Listen(t) PROVE Untouched(c)'
  <2>1. sock[c] = "unborn" /\ UNCHANGED <<accepter, start>>
    BY <1>8, ListenFrame
  <2>2. \A u \in Thread : c \notin Elems(buffers'[u])
    BY <1>8, <1>a, <2>1, ListenHolds DEF Untouched
  <2>3. c \notin Elems(db') /\ notified'[c] = 0
    <3>1. CASE db' = db /\ notified' = notified
      BY <1>a, <2>1, <3>1 DEF Untouched
    <3>2. ASSUME NEW d \in Client, Departs(t, d) PROVE c \notin Elems(db') /\ notified'[c] = 0
      <4>1. d # c
        BY <1>a, <2>1, <3>2 DEF Departs, Untouched
      <4>2. Elems(db') = Elems(db) \ {d}
        BY <1>0, <3>2, WithoutFacts DEF Departs
      <4>3. QED
        BY <1>0, <1>a, <2>1, <3>2, <4>1, <4>2 DEF Departs, Untouched
    <3>3. QED
      BY <1>8, <3>1, <3>2, ListenHolds
  <2>4. QED
    BY <1>a, <2>1, <2>2, <2>3 DEF Untouched, Elems
<1>9. QED
  BY <1>1, <1>2, <1>3, <1>4, <1>5, <1>6, <1>7, <1>8 DEF Next, Accepter, Ctl

\* A client is reported once, by its only holder, when no database lists it any more,
\* unless Start has given it to a second one.
LEMMA StepHolder ==
  Types /\ ControlInv /\ BornInv /\ HolderInv /\ Next => HolderInv'
<1> SUFFICES ASSUME Types, ControlInv, BornInv, HolderInv, Next PROVE HolderInv'
  OBVIOUS
<1>0. /\ sock \in [Client -> {"unborn", "open", "data", "datafin", "fin", "rst"}]
      /\ db \in Seq(Client) /\ accepter \in AccepterState /\ None \notin Client
      /\ notified \in [Client -> 0..2] /\ leaving \in [Thread -> Client \cup {None}]
      /\ relisted \in SUBSET Client
  BY ClientAssumption DEF Types, WorldTypes, ManagerTypes, ThreadTypes
<1>a. /\ \A t \in Thread : leaving[t] # None => notified[leaving[t]] > 0
      /\ \A c \in Client : notified[c] > 0 => c \notin Elems(db)
      /\ \A c \in Client \ relisted : Alone(c)
  BY DEF HolderInv
<1>1. ASSUME NEW d \in Client, Accept(d) PROVE HolderInv'
  <2>1. /\ db' = Append(db, d) /\ accepter' = [pc |-> "lock", client |-> d, pos |-> 1]
        /\ UNCHANGED <<buffers, notified, leaving, relisted>> /\ Untouched(d)
    BY <1>1 DEF Accept, shared, listener, history, BornInv
  <2>2. Elems(db') = Elems(db) \cup {d}
    BY <1>0, <2>1, AppendFacts
  <2>3. \A c \in Client : InHand(c)' => c = d
    BY <2>1 DEF InHand
  <2>4. \A c \in Client \ relisted' : Alone(c)'
    BY <1>a, <2>1, <2>3 DEF Alone, Untouched
  <2>5. \A c \in Client : notified'[c] > 0 => c \notin Elems(db')
    BY <1>0, <1>a, <2>1, <2>2 DEF Untouched
  <2>6. QED
    BY <1>a, <2>1, <2>4, <2>5 DEF HolderInv, Elems
<1>2. CASE \/ \E c \in Client : Peer(c)
           \/ AccepterLocks \/ AddTcpClientFull \/ AddTcpClientWrites \/ AccepterBinds
           \/ StartBegins \/ StartFails \/ StartBinds
           \/ StopBegins \/ StopWrites \/ StopJoins \/ StopEnds
  <2>1. UNCHANGED <<db, buffers, notified, leaving, relisted>>
    BY <1>2 DEF Peer, Move, AccepterLocks, AddTcpClientFull, AddTcpClientWrites,
       AccepterBinds, BindCallback, StartBegins, StartFails, StartBinds, StopBegins,
       StopWrites, StopJoins, StopEnds, listener, shared, world, history
  <2>2. \A c \in Client : InHand(c)' => InHand(c)
    <3>1. CASE AccepterLocks \/ AddTcpClientFull \/ AddTcpClientWrites \/ AccepterBinds
      BY <1>0, <3>1 DEF AccepterLocks, AddTcpClientFull, AddTcpClientWrites, AccepterBinds,
         InHand, AccepterState
    <3>2. CASE ~(AccepterLocks \/ AddTcpClientFull \/ AddTcpClientWrites \/ AccepterBinds)
      <4>1. accepter' = accepter
        BY <1>2, <3>2 DEF Peer, Move, StartBegins, StartFails, StartBinds, StopBegins,
           StopWrites, StopJoins, StopEnds
      <4>2. QED
        BY <4>1 DEF InHand
    <3>3. QED
      BY <3>1, <3>2
  <2>3. QED
    BY <1>a, <2>1, <2>2 DEF HolderInv, Alone
<1>3. CASE AddTcpClientTakes \/ AccepterSpawns
  <2> DEFINE a == accepter.client
  <2>1. /\ InHand(a) /\ a \in Client /\ accepter'.pc \in {"write", "bind"}
        /\ UNCHANGED <<manager, leaving, world, relisted, skipped, starts, bound>>
        /\ \E t \in Thread :
             /\ Elems(buffers'[t]) \subseteq Elems(buffers[t]) \cup {a}
             /\ \A u \in Thread : u # t => buffers'[u] = buffers[u]
    BY <1>3, TakesBuffers
  <2>2. PICK t \in Thread : /\ Elems(buffers'[t]) \subseteq Elems(buffers[t]) \cup {a}
                            /\ \A u \in Thread : u # t => buffers'[u] = buffers[u]
    BY <2>1
  <2>3. UNCHANGED <<db, notified>>
    BY <2>1 DEF world
  <2>4. \A c \in Client : ~InHand(c)'
    BY <2>1 DEF InHand
  <2>5. \A u \in Thread : Elems(buffers[u])' = Elems(buffers'[u])
    BY DEF Elems
  <2> HIDE DEF a
  <2>6. \A c \in Client \ relisted' : Alone(c)'
    <3> TAKE c \in Client \ relisted'
    <3>1. Alone(c)
      BY <1>a, <2>1
    <3>2. CASE c = a
      <4>1. notified[c] = 0 /\ \A u \in Thread : c \notin Elems(buffers[u])
        BY <2>1, <3>1, <3>2 DEF Alone
      <4>2. \A u \in Thread : c \in Elems(buffers'[u]) => u = t
        BY <2>2, <4>1
      <4>3. QED
        BY <2>3, <2>4, <2>5, <4>1, <4>2 DEF Alone
    <3>3. CASE c # a
      <4>1. \A u \in Thread : c \in Elems(buffers'[u]) => c \in Elems(buffers[u])
        BY <2>2, <3>3
      <4>2. QED
        BY <2>1, <2>3, <2>4, <2>5, <3>1, <4>1 DEF Alone
    <3>4. QED
      BY <3>2, <3>3
  <2>7. QED
    BY <1>a, <2>1, <2>3, <2>6 DEF HolderInv
<1>4. CASE StartSpawns
  <2>1. /\ UNCHANGED <<accepter, leaving, world, bound>>
        /\ relisted' = relisted \cup (Elems(Stretch) \cap HandedOver)
        /\ Elems(Stretch) \subseteq Elems(db)
        /\ \E t \in Thread : /\ buffers'[t] = Stretch /\ pc[t] = "unborn"
                             /\ \A u \in Thread : u # t => buffers'[u] = buffers[u]
    BY <1>4, SpawnsBuffers
  <2>2. PICK t \in Thread : /\ buffers'[t] = Stretch
                            /\ \A u \in Thread : u # t => buffers'[u] = buffers[u]
    BY <2>1
  <2>3. UNCHANGED <<db, notified>> /\ \A c : InHand(c)' <=> InHand(c)
    BY <2>1 DEF world, InHand
  <2>4. \A u \in Thread : Elems(buffers[u])' = Elems(buffers'[u])
    BY DEF Elems
  <2>5. \A c \in Client \ relisted' : Alone(c)'
    <3> TAKE c \in Client \ relisted'
    <3>1. Alone(c)
      BY <1>a, <2>1
    <3>2. CASE c \in Elems(Stretch)
      <4>1. c \notin HandedOver
        BY <2>1, <3>2
      <4>2. ~InHand(c) /\ \A u \in Thread : c \notin Elems(buffers[u])
        BY <4>1, HolderFacts DEF InHand
      <4>3. notified[c] = 0
        BY <1>0, <1>a, <2>1, <3>2
      <4>4. \A u \in Thread : c \in Elems(buffers'[u]) => u = t
        BY <2>2, <4>2
      <4>5. QED
        BY <2>3, <2>4, <4>2, <4>3, <4>4 DEF Alone
    <3>3. CASE c \notin Elems(Stretch)
      <4>1. \A u \in Thread : c \in Elems(buffers'[u]) => c \in Elems(buffers[u])
        BY <2>2, <3>3
      <4>2. QED
        BY <2>1, <2>3, <2>4, <3>1, <4>1 DEF Alone
    <3>4. QED
      BY <3>2, <3>3
  <2>6. QED
    BY <1>a, <2>1, <2>3, <2>5 DEF HolderInv
<1>5. ASSUME NEW t \in Thread, Listen(t) PROVE HolderInv'
  <2>1. UNCHANGED <<accepter, relisted>> /\ \A c : InHand(c)' <=> InHand(c)
    BY <1>5, ListenFrame DEF InHand
  <2>2. /\ \A u \in Thread : Elems(buffers'[u]) \subseteq Elems(buffers[u])
        /\ \A u \in Thread : u # t => buffers'[u] = buffers[u] /\ leaving'[u] = leaving[u]
    BY <1>5, ListenHolds
  <2>3. \A u \in Thread : Elems(buffers[u])' = Elems(buffers'[u])
    BY DEF Elems
  <2>4. ASSUME NEW d \in Client, Departs(t, d) PROVE HolderInv'
    <3>1. /\ db' = Without(db, d) /\ buffers' = buffers /\ pc[t] = "scan"
          /\ notified' = [notified EXCEPT ![d] = IF @ < 2 THEN @ + 1 ELSE @]
          /\ leaving' = [leaving EXCEPT ![t] = d] /\ d \in Elems(buffers[t])
      BY <2>4 DEF Departs
    <3>2. leaving[t] = None
      BY <3>1 DEF ControlInv, ThreadInv, Stands
    <3>3. notified'[d] > 0 /\ \A c \in Client : c # d => notified'[c] = notified[c]
      BY <1>0, <3>1
    <3>4. leaving'[t] = d /\ \A u \in Thread : u # t => leaving'[u] = leaving[u]
      BY <1>0, <3>1
    <3>5. \A u \in Thread : leaving'[u] # None => notified'[leaving'[u]] > 0
      BY <1>0, <1>a, <3>3, <3>4
    <3>6. \A c \in Client : notified'[c] > 0 => c \notin Elems(db')
      BY <1>0, <1>a, <3>1, <3>3, WithoutFacts
    <3>7. \A c \in Client \ relisted' : Alone(c)'
      <4> TAKE c \in Client \ relisted'
      <4>1. Alone(c)
        BY <1>a, <2>1
      <4>2. CASE c = d
        <5>1. notified[c] = 0
          BY <1>0, <3>1, <3>2, <4>1, <4>2 DEF Alone
        <5>2. notified'[c] = 1 /\ ~InHand(c)
          BY <1>0, <3>1, <4>1, <4>2, <5>1 DEF Alone
        <5>3. \A u \in Thread : c \in Elems(buffers[u]) => u = t
          BY <3>1, <4>1, <4>2 DEF Alone
        <5>4. QED
          BY <2>1, <3>1, <3>4, <4>1, <4>2, <5>2, <5>3 DEF Alone
      <4>3. CASE c # d
        <5>1. notified[c] > 0 => c \notin Elems(buffers[t])
          BY <1>0, <3>2, <4>1 DEF Alone
        <5>2. QED
          BY <2>1, <3>1, <3>3, <3>4, <4>1, <4>3, <5>1 DEF Alone
      <4>4. QED
        BY <4>2, <4>3
    <3>8. QED
      BY <3>5, <3>6, <3>7 DEF HolderInv
  <2>5. CASE /\ db' = db /\ notified' = notified
             /\ \/ leaving'[t] = leaving[t]
                \/ leaving'[t] = None /\ leaving[t] \notin Elems(buffers'[t])
    <3>1. \A u \in Thread : leaving'[u] \in {leaving[u], None}
      BY <2>2, <2>5
    <3>2. \A u \in Thread, c \in Client : c \in Elems(buffers'[u]) /\ leaving[u] = c
                                            => leaving'[u] = c
      BY <2>2, <2>5
    <3>3. \A c \in Client \ relisted' : Alone(c)'
      BY <1>a, <2>1, <2>2, <2>3, <2>5, <3>2 DEF Alone
    <3>4. QED
      BY <1>a, <2>5, <3>1, <3>3 DEF HolderInv
  <2>6. QED
    BY <1>5, <2>4, <2>5, ListenHolds
<1>6. QED
  BY <1>1, <1>2, <1>3, <1>4, <1>5 DEF Next, Accepter, Ctl

\* A thread gets clients from the acceptor only when it is in the vector, with both its

\* callbacks.
LEMMA StepMade == Types /\ ControlInv /\ MadeInv /\ Next => MadeInv'
<1> SUFFICES ASSUME Types, ControlInv, MadeInv, Next PROVE MadeInv'
  OBVIOUS
<1>0. /\ buffers \in [Thread -> Seq(Client)] /\ bound \in [Thread -> 0..2]
      /\ born \in [Thread -> Seq(Client)] /\ threads \in Seq(Thread)
      /\ LockInv /\ \A u \in Thread : Stands(u)
  BY DEF Types, ThreadTypes, ManagerTypes, ControlInv, ThreadInv
<1>1. CASE \/ \E c \in Client : Accept(c) \/ Peer(c)
           \/ AccepterLocks \/ AddTcpClientFull \/ AddTcpClientWrites
           \/ StartBegins \/ StartFails \/ StopBegins \/ StopWrites \/ StopEnds
  <2>1. UNCHANGED <<buffers, bound, born>>
    BY <1>1 DEF Accept, Peer, Move, AccepterLocks, AddTcpClientFull, AddTcpClientWrites,
       StartBegins, StartFails, StopBegins, StopWrites, StopEnds, shared, history
  <2>2. QED
    BY <2>1 DEF MadeInv
<1>2. CASE AddTcpClientTakes
  <2> PICK t : t = threads[accepter.pos]
    OBVIOUS
  <2>1. t \in Thread /\ bound[t] = 2
    BY <1>2, TargetFacts DEF AddTcpClientTakes
  <2>2. /\ buffers' = [buffers EXCEPT ![t] = Append(@, accepter.client)]
        /\ UNCHANGED <<bound, born>>
    BY <1>2 DEF AddTcpClientTakes
  <2>3. \A u \in Thread : u # t => buffers'[u] = buffers[u]
    BY <1>0, <2>2
  <2>4. QED
    BY <2>1, <2>2, <2>3 DEF MadeInv, Elems
<1>3. CASE AccepterSpawns \/ StartSpawns
  <2>1. PICK t \in Thread : \E clients : NewThread(t, clients)
    BY <1>3, NewbornFacts DEF AccepterSpawns, StartSpawns
  <2>2. PICK clients : NewThread(t, clients)
    BY <2>1
  <2>3. /\ buffers' = [buffers EXCEPT ![t] = clients] /\ bound' = bound
        /\ born' = [born EXCEPT ![t] = clients]
    BY <2>2 DEF NewThread
  <2>4. buffers'[t] = born'[t]
        /\ \A u \in Thread : u # t => buffers'[u] = buffers[u] /\ born'[u] = born[u]
    BY <1>0, <2>3
  <2>5. QED
    BY <2>3, <2>4 DEF MadeInv, Elems
<1>4. CASE AccepterBinds \/ StartBinds
  <2>1. PICK t \in Unbound : BindCallback(t)
    BY <1>4 DEF AccepterBinds, StartBinds
  <2>2. /\ bound' = [bound EXCEPT ![t] = @ + 1] /\ UNCHANGED <<buffers, born>>
        /\ t \in Thread /\ bound[t] < 2
    BY <2>1 DEF BindCallback, history, Unbound
  <2>3. \A u \in Thread : bound'[u] < 2 => bound[u] < 2
    <3>1. \A u \in Thread : u # t => bound'[u] = bound[u]
      BY <1>0, <2>2
    <3>2. QED
      BY <2>2, <3>1
  <2>4. QED
    BY <2>2, <2>3 DEF MadeInv
<1>5. CASE StopJoins
  <2> PICK t : t = threads[ctl.pos]
    OBVIOUS
  <2>1. t \in Thread /\ pc[t] = "exited"
    <3>1. ctl.pc = "join" /\ ctl.pos <= Len(threads) /\ pc[t] = "exited"
      BY <1>0, <1>5 DEF StopJoins, LockInv
    <3>2. QED
      BY <3>1, StopFacts
  <2>2. /\ bound' = [bound EXCEPT ![t] = 0] /\ buffers' = buffers
        /\ born' = [born EXCEPT ![t] = <<>>]
    BY <1>5 DEF StopJoins
  <2>3. Elems(buffers'[t]) = {}
    BY <1>0, <2>1, <2>2, SmallLists DEF Stands
  <2>4. \A u \in Thread : u # t => bound'[u] = bound[u] /\ born'[u] = born[u]
    BY <1>0, <2>2
  <2>5. \A u \in Thread : Elems(buffers[u])' = Elems(buffers'[u])
                         /\ Elems(born[u])' = Elems(born'[u])
    BY DEF Elems
  <2>6. \A u \in Thread : bound'[u] < 2 => Elems(buffers'[u]) \subseteq Elems(born'[u])
    BY <2>2, <2>3, <2>4 DEF MadeInv
  <2>7. QED
    BY <2>5, <2>6 DEF MadeInv
<1>6. ASSUME NEW t \in Thread, Listen(t) PROVE MadeInv'
  <2>1. UNCHANGED <<bound, born>>
    BY <1>6, ListenFrame
  <2>2. \A u \in Thread : Elems(buffers'[u]) \subseteq Elems(buffers[u])
    BY <1>6, ListenHolds
  <2>3. QED
    BY <2>1, <2>2 DEF MadeInv, Elems
<1>7. QED
  BY <1>1, <1>2, <1>3, <1>4, <1>5, <1>6 DEF Next, Accepter, Ctl

\* The database lists nobody twice.
LEMMA StepList == Types /\ BornInv /\ ListInv /\ Next => ListInv'
<1> SUFFICES ASSUME Types, BornInv, ListInv, Next PROVE ListInv'
  OBVIOUS
<1>0. /\ db \in Seq(Client) /\ start \in StartState
      /\ Distinct(db) /\ Distinct(start.listed)
  BY DEF Types, WorldTypes, ManagerTypes, ListInv
<1>1. ASSUME NEW d \in Client, Accept(d) PROVE ListInv'
  <2>1. db' = Append(db, d) /\ start' = start /\ d \notin Elems(db)
    BY <1>1 DEF Accept, manager, BornInv, Untouched
  <2>2. Distinct(db')
    BY <1>0, <2>1, AppendFacts
  <2>3. QED
    BY <1>0, <2>1, <2>2 DEF ListInv, Distinct
<1>2. CASE \/ \E c \in Client : Peer(c)
           \/ Accepter \/ StartFails \/ StopBegins \/ StopWrites \/ StopJoins \/ StopEnds
  <2>1. UNCHANGED <<db, start>>
    BY <1>2 DEF Accepter, Peer, Move, AccepterLocks, AddTcpClientFull, AddTcpClientTakes,
       AddTcpClientWrites, AccepterSpawns, NewThread, AccepterBinds, BindCallback,
       StartFails, StopBegins, StopWrites, StopJoins, StopEnds, manager, world
  <2>2. QED
    BY <2>1 DEF ListInv, Distinct
<1>3. CASE StartBegins \/ StartBinds \/ StartSpawns
  <2>1. db' = db
    BY <1>3 DEF StartBegins, StartBinds, StartSpawns, NewThread, BindCallback, world
  <2>2. start'.listed \in {start.listed, db, <<>>}
    <3>1. CASE StartBegins
      BY <3>1 DEF StartBegins
    <3>2. CASE StartBinds
      BY <3>2 DEF StartBinds, NoStart
    <3>3. CASE StartSpawns
      BY <1>0, <3>3 DEF StartSpawns, StartState
    <3>4. QED
      BY <1>3, <3>1, <3>2, <3>3
  <2>3. Distinct(start'.listed)
    BY <1>0, <2>2, SmallLists
  <2>4. QED
    BY <1>0, <2>1, <2>3 DEF ListInv, Distinct
<1>4. ASSUME NEW t \in Thread, Listen(t) PROVE ListInv'
  <2>1. start' = start
    BY <1>4, ListenFrame
  <2>2. db' = db \/ \E c \in Client : db' = Without(db, c)
    BY <1>4, ListenHolds DEF Departs
  <2>3. Distinct(db')
    BY <1>0, <2>2, WithoutFacts
  <2>4. QED
    BY <1>0, <2>1, <2>3 DEF ListInv, Distinct
<1>5. QED
  BY <1>1, <1>2, <1>3, <1>4 DEF Next, Ctl

-----------------------------------------------------------------------------
\* A step that leaves a thread's clients where they are.
LEMMA AccountFrame ==
  ASSUME NEW u \in Thread, Account(u), buffers'[u] = buffers[u], slots'[u] = slots[u],
         pipe'[u] = pipe[u], leaving'[u] = leaving[u],
         TellingOf(u)' <=> TellingOf(u),
         TellingOf(u) => accepter'.client = accepter.client,
         pc'[u] = pc[u] \/ (Serves(u) /\ Serves(u)')
  PROVE  Account(u)'
<1>1. /\ Slotted(u)' = Slotted(u) /\ Commands(u)' = Commands(u) /\ Used(u)' = Used(u)
      /\ Elems(buffers[u])' = Elems(buffers[u])
      /\ Distinct(buffers[u])' = Distinct(buffers[u])
      /\ Distinct(pipe[u])' = Distinct(pipe[u])
  BY DEF Slotted, Commands, Used, Elems, Distinct
<1>2. Told(u)' = Told(u)
  BY DEF Told
<1>3. Serves(u)' => Serves(u)
  BY DEF Serves
<1>4. pc'[u] = "init" => pc[u] = "init"
  BY DEF Serves
<1>5. QED
  BY <1>1, <1>2, <1>3, <1>4 DEF Account

\* The capacity check of AddTcpClient is enough for the add command: a thread without

\* a free slot would hold one client more than its buffers have.
LEMMA FreeSlotExists ==
  ASSUME Types, ControlInv, NEW t \in Thread, Account(t), pc[t] = "command",
         Head(pipe[t]) # "s"
  PROVE  FreeSlots(t) # {}
<1> DEFINE c == Head(pipe[t])
<1>0. /\ pipe[t] \in Seq(Client \cup {"s"}) /\ buffers[t] \in Seq(Client)
      /\ slots[t] \in [Slot -> Client \cup {None}] /\ None \notin Client
      /\ Len(buffers[t]) <= MaxClients /\ MaxClients \in Nat
  BY ClientAssumption, MaxClientsAssumption DEF Types, ThreadTypes
<1>1. pipe[t] # <<>>
  BY DEF ControlInv, ThreadInv, Stands
<1>2. c \in Commands(t)
  BY <1>0, <1>1, TailFacts DEF Commands
<1>3. /\ Elems(buffers[t]) = Slotted(t) \cup Commands(t) \cup Told(t)
                               \cup ({leaving[t]} \ {None})
      /\ \A i, j \in Used(t) : slots[t][i] = slots[t][j] => i = j
      /\ c \notin Slotted(t)
  BY <1>2 DEF Account, Serves
<1> SUFFICES ASSUME FreeSlots(t) = {} PROVE FALSE
  OBVIOUS
<1>4. \A i \in Slot : slots[t][i] # None
  BY DEF FreeSlots
<1> DEFINE B == Elems(buffers[t])
           f == [i \in Slot |-> slots[t][i]]
<1>5. IsFiniteSet(B) /\ Cardinality(B) <= MaxClients /\ Cardinality(B) \in Nat
  <2>1. IsFiniteSet(1..Len(buffers[t])) /\ Cardinality(1..Len(buffers[t])) = Len(buffers[t])
    <3>1. Len(buffers[t]) \in Nat
      BY <1>0
    <3>2. QED
      BY <3>1, FS_Interval
  <2> DEFINE g == [i \in 1..Len(buffers[t]) |-> buffers[t][i]]
  <2>2. g \in Surjection(1..Len(buffers[t]), B)
    <3>1. \A i \in 1..Len(buffers[t]) : i \in DOMAIN buffers[t] /\ g[i] = buffers[t][i]
      BY <1>0
    <3>2. DOMAIN buffers[t] = 1..Len(buffers[t])
      BY <1>0
    <3>3. g \in [1..Len(buffers[t]) -> B]
      BY <3>1 DEF Elems
    <3>4. \A b \in B : \E i \in 1..Len(buffers[t]) : g[i] = b
      BY <3>1, <3>2 DEF Elems
    <3> HIDE DEF g, B
    <3>5. QED
      BY <3>3, <3>4 DEF Surjection
  <2> HIDE DEF g, B
  <2>3. IsFiniteSet(B) /\ Cardinality(B) <= Len(buffers[t])
    BY <2>1, <2>2, FS_Surjection
  <2>4. QED
    BY <1>0, <2>1, <2>3, FS_CardinalityType
<1>6. f \in Injection(Slot, B \ {c})
  <2>1. \A i \in Slot : slots[t][i] \in Slotted(t)
    BY <1>4 DEF Slotted
  <2>2. \A i \in Slot : slots[t][i] \in B \ {c}
    BY <1>3, <2>1
  <2>3. \A i, j \in Slot : slots[t][i] = slots[t][j] => i = j
    BY <1>3, <1>4 DEF Used
  <2> HIDE DEF B, c
  <2>4. f \in [Slot -> B \ {c}]
    BY <2>2
  <2>5. \A i, j \in Slot : f[i] = f[j] => i = j
    BY <2>3
  <2> HIDE DEF f
  <2>6. QED
    BY <2>4, <2>5 DEF Injection, IsInjective
<1>7. c \in B
  BY <1>2, <1>3
<1> HIDE DEF B, f, c
<1>8. IsFiniteSet(B \ {c}) /\ Cardinality(B \ {c}) = Cardinality(B) - 1
  BY <1>5, <1>7, FS_RemoveElement
<1>9. Cardinality(Slot) <= Cardinality(B \ {c})
  BY <1>6, <1>8, FS_Injection
<1>10. Cardinality(Slot) = MaxClients
  BY <1>0, FS_Interval DEF Slot
<1>11. QED
  BY <1>0, <1>5, <1>8, <1>9, <1>10

\* A listening thread moves its clients from place to place, and loses none.
LEMMA ListenAccount ==
  ASSUME Types, ControlInv, NEW t \in Thread, Account(t), Listen(t)
  PROVE  Account(t)'
<1>0. /\ pc \in [Thread -> Place_] /\ buffers \in [Thread -> Seq(Client)]
      /\ slots \in [Thread -> [Slot -> Client \cup {None}]]
      /\ leaving \in [Thread -> Client \cup {None}]
      /\ pipe \in [Thread -> Seq(Client \cup {"s"})]
      /\ None \notin Client /\ Len(buffers[t]) <= MaxClients
      /\ Stands(t) /\ Heeds(t)
  BY ClientAssumption DEF Types, ThreadTypes, ControlInv, ThreadInv, StopInv
<1>a. UNCHANGED <<accepter, threads>>
  BY ListenFrame
<1>b. (TellingOf(t)' <=> TellingOf(t)) /\ Told(t)' = Told(t)
  BY <1>a DEF TellingOf, Told
<1>c. /\ Elems(buffers[t])' = Elems(buffers'[t]) /\ Distinct(buffers[t])' = Distinct(buffers'[t])
      /\ Distinct(pipe[t])' = Distinct(pipe'[t])
      /\ Commands(t)' = Elems(pipe'[t]) \ {"s"}
      /\ Slotted(t)' = {slots'[t][i] : i \in Slot} \ {None}
      /\ Used(t)' = {i \in Slot : slots'[t][i] # None}
  BY DEF Elems, Distinct, Commands, Slotted, Used
<1>1. CASE InitialSlots(t)
  <2> DEFINE b == buffers[t]
             n == Len(b)
  <2>1. /\ pc[t] = "init" /\ pc'[t] = "poll" /\ UNCHANGED <<buffers, pipe, leaving>>
        /\ slots'[t] = [i \in Slot |-> IF i <= n THEN b[i] ELSE None]
    BY <1>0, <1>1 DEF InitialSlots, shared
  <2>2. /\ b \in Seq(Client) /\ n <= MaxClients /\ DOMAIN b = 1..n /\ n \in Nat
        /\ \A i \in 1..n : b[i] \in Client /\ i \in Slot
    BY <1>0, MaxClientsAssumption DEF Slot
  <2>3. Distinct(b) /\ Commands(t) = {} /\ ~TellingOf(t) /\ leaving[t] = None
    BY <1>0, <2>1 DEF Account, Stands
  <2> HIDE DEF b, n
  <2>4. Used(t)' = 1..n
    BY <1>0, <1>c, <2>1, <2>2 DEF Slot
  <2>5. \A i \in Slot : slots'[t][i] = IF i <= n THEN b[i] ELSE None
    BY <2>1
  <2>6. Slotted(t)' = Elems(b)
    <3>0. \A i \in 1..n : i \in Slot /\ slots'[t][i] = b[i] /\ b[i] # None
      <4>1. \A i \in 1..n : i \in Slot /\ i <= n /\ b[i] # None
        BY <1>0, <2>2
      <4>2. QED
        BY <2>5, <4>1
    <3>1. \A x \in Elems(b) : \E i \in Slot : slots'[t][i] = x /\ x # None
      BY <2>2, <3>0 DEF Elems
    <3>2. \A i \in Slot : slots'[t][i] # None => slots'[t][i] \in Elems(b)
      BY <2>2, <2>5 DEF Elems, Slot
    <3>3. QED
      BY <1>c, <3>1, <3>2
  <2>7. \A i, j \in Used(t)' : slots'[t][i] = slots'[t][j] => i = j
    BY <2>2, <2>3, <2>4, <2>5 DEF Distinct
  <2>8. Distinct(pipe[t])
    <3>1. \A i \in DOMAIN pipe[t] : i = Len(pipe[t])
      BY <1>0, <2>3 DEF Commands, Elems, Heeds
    <3>2. QED
      BY <3>1 DEF Distinct
  <2>9. Elems(b)' = Elems(b) /\ Distinct(b)' = Distinct(b)
    BY <2>1 DEF Elems, Distinct, b
  <2>10. Told(t)' = {} /\ Commands(t)' = {}
    BY <1>b, <1>c, <2>1, <2>3 DEF Told, Commands
  <2>11. Distinct(pipe[t])'
    BY <1>c, <2>1, <2>8
  <2>12. leaving'[t] = None
    BY <2>1, <2>3
  <2>13. Elems(buffers[t])' = Slotted(t)' /\ Distinct(buffers[t])'
    BY <1>c, <2>1, <2>3, <2>6 DEF b
  <2>14. None \notin Slotted(t)'
    BY <1>c
  <2>15. QED
    BY <2>1, <2>7, <2>10, <2>11, <2>12, <2>13, <2>14 DEF Account
<1>2. CASE Poll(t) \/ ScanEnds(t)
  <2>1. /\ UNCHANGED <<buffers, slots, pipe, leaving>>
        /\ pc[t] \in {"poll", "scan"} /\ pc'[t] \in {"poll", "scan", "command"}
    BY <1>0, <1>2 DEF Poll, ScanEnds, shared
  <2>2. QED
    BY <1>a, <1>b, <2>1, AccountFrame DEF Serves
<1>3. CASE StopCommand(t)
  <2>1. pc'[t] = "exited" /\ buffers'[t] = <<>>
    BY <1>0, <1>3 DEF StopCommand
  <2>2. QED
    BY <1>c, <2>1, SmallLists DEF Account, Serves
<1>4. CASE AddCommand(t)
  <2> DEFINE q == pipe[t]
             c == Head(q)
             k == Least(FreeSlots(t))
  <2>1. pc[t] = "command" /\ pc'[t] = "scan" /\ c # "s" /\ UNCHANGED <<buffers, leaving>>
        /\ pipe'[t] = Tail(q)
    BY <1>0, <1>4 DEF AddCommand
  <2>2. q \in Seq(Client \cup {"s"}) /\ q # <<>>
    BY <1>0, <2>1 DEF Stands
  <2>3. FreeSlots(t) # {}
    BY <2>1, FreeSlotExists
  <2>4. slots' = [slots EXCEPT ![t][k] = c]
    BY <1>4, <2>3 DEF AddCommand
  <2>5. k \in Slot /\ slots[t][k] = None
    <3>1. FreeSlots(t) \in SUBSET Nat
      BY DEF FreeSlots, Slot
    <3>2. k \in FreeSlots(t)
      BY <2>3, <3>1, LeastExists
    <3>3. QED
      BY <3>2 DEF FreeSlots
  <2>6. /\ Elems(buffers[t]) = Slotted(t) \cup Commands(t) \cup Told(t)
                                \cup ({leaving[t]} \ {None})
        /\ \A i, j \in Used(t) : slots[t][i] = slots[t][j] => i = j
        /\ Distinct(q) /\ Distinct(buffers[t])
        /\ Slotted(t) \cap Commands(t) = {}
        /\ Told(t) \cap (Slotted(t) \cup Commands(t)) = {}
        /\ leaving[t] \notin Slotted(t) \cup Commands(t) \cup Told(t)
    BY <2>1 DEF Account, Serves
  <2>7. /\ Elems(q) = Elems(Tail(q)) \cup {c} /\ c \notin Elems(Tail(q))
        /\ Distinct(Tail(q)) /\ c \in Elems(q)
    BY <2>2, <2>6, TailFacts
  <2>8. Commands(t) = Commands(t)' \cup {c} /\ c \notin Commands(t)'
    BY <1>c, <2>1, <2>7 DEF Commands
  <2>9. Distinct(pipe[t])'
    BY <1>c, <2>1, <2>7
  <2>10. c # None
    <3>1. c \in Client \cup {"s"}
      BY <2>2
    <3>2. QED
      BY <1>0, <2>1, <3>1
  <2> HIDE DEF k, q, c
  <2>11. \A i \in Slot : slots'[t][i] = IF i = k THEN c ELSE slots[t][i]
    BY <1>0, <2>4, <2>5
  <2>12. Used(t)' = Used(t) \cup {k} /\ k \notin Used(t)
    BY <1>c, <2>5, <2>10, <2>11 DEF Used
  <2>13. Slotted(t)' = Slotted(t) \cup {c}
    <3>1. \A x \in Slotted(t) : \E i \in Slot : i # k /\ slots[t][i] = x /\ x # None
      BY <2>5 DEF Slotted
    <3>2. \A x \in Slotted(t) : x \in Slotted(t)'
      BY <1>c, <2>11, <3>1
    <3>3. c \in Slotted(t)'
      BY <1>c, <2>5, <2>10, <2>11
    <3>4. \A x \in Slotted(t)' : x \in Slotted(t) \cup {c}
      BY <1>c, <2>11 DEF Slotted
    <3>5. QED
      BY <3>2, <3>3, <3>4
  <2>14. \A i, j \in Used(t)' : slots'[t][i] = slots'[t][j] => i = j
    <3>1. \A i \in Used(t) : slots[t][i] \in Slotted(t) /\ slots'[t][i] = slots[t][i] /\ i \in Slot
      BY <2>11, <2>12 DEF Used, Slotted
    <3>2. c \notin Slotted(t) /\ slots'[t][k] = c
      BY <2>5, <2>6, <2>8, <2>11
    <3>3. QED
      BY <2>6, <2>12, <3>1, <3>2
  <2>15. /\ Elems(buffers[t])' = Elems(buffers[t]) /\ Distinct(buffers[t])'
         /\ leaving'[t] = leaving[t]
    BY <1>c, <2>1, <2>6
  <2>16. Distinct(buffers[t])' /\ pc'[t] # "init"
    BY <2>1, <2>15
  <2>17. /\ Elems(buffers[t])' = Slotted(t)' \cup Commands(t)' \cup Told(t)'
                                \cup ({leaving'[t]} \ {None})
         /\ Slotted(t)' \cap Commands(t)' = {}
         /\ Told(t)' \cap (Slotted(t)' \cup Commands(t)') = {}
         /\ leaving'[t] \notin Slotted(t)' \cup Commands(t)' \cup Told(t)'
    BY <1>b, <2>6, <2>8, <2>13, <2>15
  <2>18. QED
    BY <2>9, <2>14, <2>16, <2>17 DEF Account
<1>5. CASE Remove(t)
  <2> DEFINE l == leaving[t]
  <2>1. /\ buffers'[t] = Without(buffers[t], l) /\ leaving'[t] = None /\ pc'[t] = "scan"
        /\ UNCHANGED <<slots, pipe>> /\ pc[t] \in {"remove", "removeclosed"}
    BY <1>0, <1>5 DEF Remove
  <2>2. l # None
    BY <1>0, <2>1 DEF Stands
  <2>3. /\ Elems(buffers[t]) = Slotted(t) \cup Commands(t) \cup Told(t) \cup ({l} \ {None})
        /\ \A i, j \in Used(t) : slots[t][i] = slots[t][j] => i = j
        /\ Distinct(pipe[t]) /\ Distinct(buffers[t])
        /\ Slotted(t) \cap Commands(t) = {}
        /\ Told(t) \cap (Slotted(t) \cup Commands(t)) = {}
        /\ l \notin Slotted(t) \cup Commands(t) \cup Told(t)
    BY <2>1 DEF Account, Serves
  <2>4. Elems(buffers[t])' = Elems(buffers[t]) \ {l} /\ Distinct(buffers[t])'
    BY <1>0, <1>c, <2>1, <2>3, WithoutFacts
  <2>5. Slotted(t)' = Slotted(t) /\ Commands(t)' = Commands(t) /\ Used(t)' = Used(t)
        /\ Distinct(pipe[t])'
    BY <1>c, <2>1, <2>3 DEF Slotted, Commands, Used
  <2>6. None \notin Slotted(t) \cup Commands(t) \cup Told(t)
    <3>1. Elems(pipe[t]) \subseteq Client \cup {"s"}
      BY <1>0 DEF Elems
    <3>2. None \notin Commands(t)
      BY <1>0, <3>1 DEF Commands
    <3>3. None \notin Slotted(t)
      BY DEF Slotted
    <3>4. None \notin Told(t)
      <4>1. Told(t) \subseteq Elems(buffers[t])
        BY <2>3
      <4>2. Elems(buffers[t]) \subseteq Client
        BY <1>0 DEF Elems
      <4>3. QED
        BY <1>0, <4>1, <4>2
    <3>5. QED
      BY <3>2, <3>3, <3>4
  <2> HIDE DEF l
  <2>7. Elems(buffers[t])' = Slotted(t)' \cup Commands(t)' \cup Told(t)'
    BY <1>b, <2>2, <2>3, <2>4, <2>5
  <2>8. \A i, j \in Used(t)' : slots'[t][i] = slots'[t][j] => i = j
    BY <2>1, <2>3, <2>5
  <2>9. QED
    BY <1>b, <2>1, <2>3, <2>4, <2>5, <2>6, <2>7, <2>8 DEF Account
<1>6. CASE HangUp(t) \/ ReceiveData(t) \/ ReceiveEnd(t)
  <2>1. PICK i \in Slot : Handles(t, i)
    BY <1>6, LookFacts
  <2>2. pc[t] = "scan" /\ UNCHANGED <<buffers, pipe>> /\ revents[t][i] # "none"
    BY <2>1 DEF Handles, shared
  <2>3. CASE Stays
    <3>1. /\ buffers'[t] = buffers[t] /\ slots'[t] = slots[t] /\ pipe'[t] = pipe[t]
          /\ leaving'[t] = leaving[t] /\ pc'[t] = pc[t]
          /\ accepter'.client = accepter.client
      BY <1>a, <2>2, <2>3 DEF Stays
    <3>2. TellingOf(t)' <=> TellingOf(t)
      BY <1>b
    <3>3. QED
      BY <3>1, <3>2, AccountFrame
  <2>4. CASE TakesOut(t, i)
    <3> DEFINE c == slots[t][i]
    <3>1. c # None /\ leaving[t] = None
      BY <1>0, <2>2 DEF Stands
    <3>2. /\ slots' = [slots EXCEPT ![t] = [slots[t] EXCEPT ![i] = None]]
          /\ leaving'[t] = c /\ pc'[t] \in {"remove", "removeclosed"}
      BY <1>0, <2>4 DEF TakesOut, TakeOut
    <3>3. \A j \in Slot : slots'[t][j] = IF j = i THEN None ELSE slots[t][j]
      BY <1>0, <3>2
    <3>4. /\ Elems(buffers[t]) = Slotted(t) \cup Commands(t) \cup Told(t)
          /\ \A j, k \in Used(t) : slots[t][j] = slots[t][k] => j = k
          /\ Distinct(pipe[t]) /\ Distinct(buffers[t])
          /\ Slotted(t) \cap Commands(t) = {}
          /\ Told(t) \cap (Slotted(t) \cup Commands(t)) = {}
      BY <2>2, <3>1 DEF Account, Serves
    <3>5. i \in Used(t) /\ c \in Slotted(t)
      BY <3>1 DEF Used, Slotted
    <3>6. Used(t)' = Used(t) \ {i}
      BY <1>c, <3>3 DEF Used
    <3>7. Slotted(t)' = Slotted(t) \ {c}
      <4>1. \A j \in Slot : j # i /\ slots[t][j] # None => slots[t][j] # c
        BY <3>4, <3>5 DEF Used
      <4> HIDE DEF c
      <4>2. \A x \in Slotted(t)' : x \in Slotted(t) \ {c}
        BY <1>c, <3>3, <4>1 DEF Slotted
      <4>3. \A x \in Slotted(t) \ {c} : \E j \in Slot : j # i /\ slots[t][j] = x /\ x # None
        BY DEF Slotted, c
      <4>4. \A x \in Slotted(t) \ {c} : x \in Slotted(t)'
        BY <1>c, <3>3, <4>3
      <4>5. QED
        BY <4>2, <4>4
    <3> HIDE DEF c
    <3>8. \A j, k \in Used(t)' : slots'[t][j] = slots'[t][k] => j = k
      <4>1. \A j \in Used(t)' : j \in Used(t) /\ j \in Slot /\ j # i
        BY <3>6 DEF Used
      <4>2. QED
        BY <3>3, <3>4, <4>1
    <3>9. /\ Elems(buffers[t])' = Elems(buffers[t]) /\ Distinct(buffers[t])'
          /\ Commands(t)' = Commands(t) /\ Distinct(pipe[t])'
      BY <1>c, <2>2, <3>4 DEF Commands
    <3>10. /\ Elems(buffers[t])' = Slotted(t)' \cup Commands(t)' \cup Told(t)'
                                     \cup ({leaving'[t]} \ {None})
           /\ Slotted(t)' \cap Commands(t)' = {}
           /\ Told(t)' \cap (Slotted(t)' \cup Commands(t)') = {}
           /\ leaving'[t] \notin Slotted(t)' \cup Commands(t)' \cup Told(t)'
      BY <1>b, <3>1, <3>2, <3>4, <3>5, <3>7, <3>9
    <3>11. QED
      BY <3>2, <3>8, <3>9, <3>10 DEF Account
  <2>5. QED
    BY <2>1, <2>3, <2>4 DEF Handles
<1>7. QED
  BY <1>1, <1>2, <1>3, <1>4, <1>5, <1>6 DEF Listen

\* Who tells a thread of a client changes only when the acceptor does.
LEMMA TellingFrame ==
  ASSUME accepter' = accepter, threads' = threads \/ accepter.pc # "write"
  PROVE  \A u : (TellingOf(u)' <=> TellingOf(u)) /\ accepter'.client = accepter.client
BY DEF TellingOf

LEMMA NewAccount ==
  ASSUME Types, ControlInv, NEW t \in Thread, pc[t] = "unborn", NEW clients,
         Distinct(clients), NewThread(t, clients), accepter'.pc # "write",
         accepter.pc # "write"
  PROVE  /\ Account(t)' /\ raced' = raced
         /\ \A u \in Thread : u # t /\ Account(u) => Account(u)'
<1>1. /\ ThreadInv' /\ pc'[t] = "init" /\ buffers'[t] = clients /\ born'[t] = clients
      /\ UNCHANGED <<slots, poll_fds_num, revents, leaving, pipe, bound, raced>>
      /\ \A u \in Thread \ {t} : Same(u)
  BY MakesStands
<1>2. pipe'[t] = <<>>
  BY <1>1 DEF ControlInv, ThreadInv, Stands
<1>3. Commands(t)' = {} /\ \A u : ~TellingOf(u)' /\ ~TellingOf(u)
  BY <1>2, SmallLists DEF Commands, TellingOf
<1>4. Distinct(buffers[t])'
  BY <1>1 DEF Distinct
<1>5. Account(t)'
  BY <1>1, <1>3, <1>4 DEF Account, Serves
<1>6. ASSUME NEW u \in Thread, u # t, Account(u) PROVE Account(u)'
  BY <1>1, <1>3, <1>6, AccountFrame DEF Same
<1>7. QED
  BY <1>1, <1>5, <1>6

\* A new client is in the thread's buffers first, in nobody's command until the acceptor

\* has written it, and in the pipe then.
LEMMA StepAccount ==
  Types /\ ControlInv /\ ListInv /\ AccountInv /\ Next => AccountInv'
<1> SUFFICES ASSUME Types, ControlInv, ListInv, AccountInv, Next PROVE AccountInv'
  OBVIOUS
<1>0. /\ pc \in [Thread -> Place_] /\ buffers \in [Thread -> Seq(Client)]
      /\ pipe \in [Thread -> Seq(Client \cup {"s"})] /\ leaving \in [Thread -> Client \cup {None}]
      /\ threads \in Seq(Thread) /\ ctl \in CtlState /\ accepter \in AccepterState
      /\ LockInv /\ None \notin Client /\ "s" \notin Client
  BY ClientAssumption DEF Types, ManagerTypes, ThreadTypes, ControlInv
<1>1. CASE \/ \E c \in Client : Accept(c) \/ Peer(c)
           \/ AccepterLocks \/ AddTcpClientFull
           \/ StartBegins \/ StopBegins \/ StartFails \/ StopEnds
  <2>1. raced' = raced /\ \A u \in Thread : Same(u)
    BY <1>1 DEF Accept, Peer, Move, AccepterLocks, AddTcpClientFull, StartBegins,
       StopBegins, StartFails, StopEnds, listener, shared, history, Same
  <2>2. \A u \in Thread : (TellingOf(u)' <=> TellingOf(u))
                          /\ (TellingOf(u) => accepter'.client = accepter.client)
    <3>1. CASE \E c \in Client : Accept(c)
      <4>1. accepter.pc # "write" /\ accepter'.pc # "write"
        BY <1>0, <3>1 DEF Accept, AccepterLocks, AddTcpClientFull, AccepterState
      <4>2. QED
        BY <4>1 DEF TellingOf
    <3>2. CASE \/ \E c \in Client : Peer(c)
               \/ StartBegins \/ StopBegins \/ StartFails \/ StopEnds
      <4>1. accepter' = accepter /\ (threads' = threads \/ accepter.pc # "write")
        BY <1>0, <3>2 DEF Peer, Move, StartBegins, StopBegins, StartFails, StopEnds,
           manager, LockInv
      <4>2. QED
        BY <4>1, TellingFrame
    <3>3. CASE AccepterLocks \/ AddTcpClientFull
      <4>1. accepter.pc # "write" /\ accepter'.pc # "write"
        BY <1>0, <3>3 DEF AccepterLocks, AddTcpClientFull, AccepterState
      <4>2. QED
        BY <4>1 DEF TellingOf
    <3>4. QED
      BY <1>1, <3>1, <3>2, <3>3
  <2>3. QED
    BY <2>1, <2>2, AccountFrame DEF AccountInv, Same
<1>2. CASE AddTcpClientTakes
  <2> DEFINE a == accepter.client
  <2> PICK t : t = threads[accepter.pos]
    OBVIOUS
  <2>1. /\ t \in Thread /\ pc[t] \notin {"unborn", "exited"} /\ a \in Client
        /\ accepter.pc = "try" /\ accepter'.pc = "write" /\ accepter'.client = a
        /\ accepter'.pos = accepter.pos /\ threads' = threads
    BY <1>0, <1>2, TargetFacts DEF AddTcpClientTakes, AccepterState, manager
  <2>2. /\ buffers' = [buffers EXCEPT ![t] = Append(@, a)]
        /\ raced' = IF pc[t] = "init" \/ a \in Elems(buffers[t]) THEN raced \cup {t} ELSE raced
        /\ UNCHANGED <<pc, slots, pipe, leaving>>
    BY <1>2 DEF AddTcpClientTakes, listener
  <2>3. \A u : ~TellingOf(u) /\ (TellingOf(u)' <=> u = t)
    BY <2>1 DEF TellingOf
  <2>4. \A u \in Thread \ raced' : u # t => Account(u)'
    <3> TAKE u \in Thread \ raced'
    <3> HAVE u # t
    <3>1. Account(u) /\ buffers'[u] = buffers[u]
      BY <1>0, <2>2 DEF AccountInv
    <3>2. ~TellingOf(u) /\ ~TellingOf(u)'
      BY <2>3
    <3>3. QED
      BY <2>2, <3>1, <3>2, AccountFrame
  <2>5. ASSUME t \notin raced' PROVE Account(t)'
    <3>1. t \notin raced /\ pc[t] # "init" /\ a \notin Elems(buffers[t])
      BY <2>2, <2>5
    <3>2. Serves(t) /\ Account(t)
      BY <1>0, <2>1, <3>1 DEF AccountInv, Serves, Place_
    <3>3. /\ Elems(buffers[t]) = Slotted(t) \cup Commands(t) \cup ({leaving[t]} \ {None})
          /\ \A i, j \in Used(t) : slots[t][i] = slots[t][j] => i = j
          /\ Distinct(pipe[t]) /\ Distinct(buffers[t])
          /\ Slotted(t) \cap Commands(t) = {}
          /\ leaving[t] \notin Slotted(t) \cup Commands(t)
      BY <2>3, <3>2 DEF Account, Told
    <3>4. Told(t)' = {a}
      BY <2>1, <2>3 DEF Told
    <3>5. /\ Slotted(t)' = Slotted(t) /\ Commands(t)' = Commands(t) /\ Used(t)' = Used(t)
          /\ Distinct(pipe[t])' /\ leaving' = leaving /\ slots' = slots
      BY <2>2, <3>3 DEF Slotted, Commands, Used, Distinct
    <3>6. buffers'[t] = Append(buffers[t], a)
      BY <1>0, <2>1, <2>2
    <3>7. Elems(buffers'[t]) = Elems(buffers[t]) \cup {a} /\ Distinct(buffers'[t])
      <4> DEFINE b == buffers[t]
      <4>1. b \in Seq(Client) /\ a \in Client /\ Distinct(b) /\ a \notin Elems(b)
        BY <1>0, <2>1, <3>1, <3>3
      <4> HIDE DEF a, b
      <4>2. Elems(Append(b, a)) = Elems(b) \cup {a} /\ Distinct(Append(b, a))
        BY <4>1, AppendFacts
      <4>3. QED
        BY <3>6, <4>2 DEF b
    <3>8. Elems(buffers[t])' = Elems(buffers[t]) \cup {a} /\ Distinct(buffers[t])'
      BY <3>7 DEF Elems, Distinct
    <3>9. a # None
      BY <1>0, <2>1
    <3> HIDE DEF a
    <3>10. /\ Elems(buffers[t])' = Slotted(t)' \cup Commands(t)' \cup Told(t)'
                                    \cup ({leaving'[t]} \ {None})
           /\ Slotted(t)' \cap Commands(t)' = {}
           /\ Told(t)' \cap (Slotted(t)' \cup Commands(t)') = {}
           /\ leaving'[t] \notin Slotted(t)' \cup Commands(t)' \cup Told(t)'
      BY <3>1, <3>3, <3>4, <3>5, <3>8, <3>9
    <3>11. pc'[t] # "init"
      BY <2>2, <3>1
    <3>12. \A i, j \in Used(t)' : slots'[t][i] = slots'[t][j] => i = j
      BY <3>3, <3>5
    <3>13. QED
      BY <3>5, <3>8, <3>10, <3>11, <3>12 DEF Account
  <2>6. QED
    BY <2>4, <2>5 DEF AccountInv
<1>3. CASE AddTcpClientWrites
  <2> DEFINE a == accepter.client
  <2> PICK t : t = threads[accepter.pos]
    OBVIOUS
  <2>0. accepter.pos <= Len(threads) /\ accepter.pc = "write"
    BY <1>0, <1>3 DEF AddTcpClientWrites, LockInv
  <2>1. /\ t \in Thread /\ a \in Client /\ pc[t] \notin {"unborn", "exited"}
        /\ \A i \in DOMAIN pipe[t] : pipe[t][i] # "s"
    BY <2>0, TargetFacts
  <2>2. /\ pipe' = [pipe EXCEPT ![t] = Append(@, a)] /\ accepter'.pc = "idle"
        /\ UNCHANGED <<pc, slots, buffers, leaving, raced>>
    BY <1>3 DEF AddTcpClientWrites, listener, history
  <2>3. \A u : ~TellingOf(u)' /\ (TellingOf(u) <=> u = t)
    BY <2>0, <2>2 DEF TellingOf
  <2>4. \A u \in Thread \ raced' : u # t => Account(u)'
    <3> TAKE u \in Thread \ raced'
    <3> HAVE u # t
    <3>1. Account(u) /\ pipe'[u] = pipe[u]
      BY <1>0, <2>2 DEF AccountInv
    <3>2. ~TellingOf(u) /\ ~TellingOf(u)'
      BY <2>3
    <3>3. QED
      BY <2>2, <3>1, <3>2, AccountFrame
  <2>5. ASSUME t \notin raced' PROVE Account(t)'
    <3>1. Account(t) /\ pc[t] # "init"
      BY <2>1, <2>2, <2>3, <2>5 DEF AccountInv, Account
    <3>2. Serves(t) /\ Told(t) = {a}
      BY <1>0, <2>1, <2>3, <3>1 DEF Serves, Place_, Told
    <3>3. /\ Elems(buffers[t]) = Slotted(t) \cup Commands(t) \cup {a}
                                  \cup ({leaving[t]} \ {None})
          /\ \A i, j \in Used(t) : slots[t][i] = slots[t][j] => i = j
          /\ Distinct(pipe[t]) /\ Distinct(buffers[t])
          /\ Slotted(t) \cap Commands(t) = {}
          /\ a \notin Slotted(t) \cup Commands(t)
          /\ leaving[t] \notin Slotted(t) \cup Commands(t) \cup {a}
      BY <3>1, <3>2 DEF Account
    <3>4. Told(t)' = {}
      BY <2>3 DEF Told
    <3>5. /\ Slotted(t)' = Slotted(t) /\ Used(t)' = Used(t)
          /\ Elems(buffers[t])' = Elems(buffers[t]) /\ Distinct(buffers[t])'
          /\ leaving' = leaving /\ slots' = slots /\ pc' = pc
      BY <2>2, <3>3 DEF Slotted, Used, Elems, Distinct
    <3>6. pipe'[t] = Append(pipe[t], a) /\ a # "s"
      BY <1>0, <2>1, <2>2
    <3>7. a \notin Elems(pipe[t]) /\ a \in Client \cup {"s"}
      BY <2>1, <3>3, <3>6 DEF Commands
    <3>8. Elems(pipe'[t]) = Elems(pipe[t]) \cup {a} /\ Distinct(pipe'[t])
      BY <1>0, <2>1, <3>3, <3>6, <3>7, AppendFacts
    <3>9. Distinct(pipe[t])' /\ Commands(t)' = Elems(pipe'[t]) \ {"s"}
      BY <3>8 DEF Distinct, Commands, Elems
    <3>10. Commands(t)' = Commands(t) \cup {a}
      BY <3>6, <3>8, <3>9 DEF Commands
    <3> HIDE DEF a
    <3>11. /\ Elems(buffers[t])' = Slotted(t)' \cup Commands(t)' \cup Told(t)'
                                    \cup ({leaving'[t]} \ {None})
           /\ Slotted(t)' \cap Commands(t)' = {}
           /\ Told(t)' \cap (Slotted(t)' \cup Commands(t)') = {}
           /\ leaving'[t] \notin Slotted(t)' \cup Commands(t)' \cup Told(t)'
      BY <3>3, <3>4, <3>5, <3>10
    <3>12. \A i, j \in Used(t)' : slots'[t][i] = slots'[t][j] => i = j
      BY <3>3, <3>5
    <3>13. QED
      BY <3>1, <3>5, <3>9, <3>11, <3>12 DEF Account
  <2>6. QED
    BY <2>4, <2>5 DEF AccountInv
<1>4. CASE AccepterSpawns
  <2> PICK t : t = Least(Unborn)
    OBVIOUS
  <2>1. /\ t \in Thread /\ pc[t] = "unborn" /\ NewThread(t, <<accepter.client>>)
        /\ accepter.pc = "try" /\ accepter'.pc = "bind"
    BY <1>0, <1>4, NewbornFacts DEF AccepterSpawns, AccepterState
  <2>2. QED
    BY <2>1, NewAccount, SmallLists DEF AccountInv
<1>5. CASE StartSpawns
  <2> PICK t : t = Least(Unborn)
    OBVIOUS
  <2>1. /\ t \in Thread /\ pc[t] = "unborn" /\ NewThread(t, Stretch)
        /\ accepter' = accepter /\ accepter.pc # "write" /\ ~WalkFails
    BY <1>0, <1>5, NewbornFacts DEF StartSpawns, LockInv
  <2>2. Distinct(List)
    BY SmallLists DEF List, ListInv
  <2>3. Distinct(Stretch)
    BY <2>1, <2>2, StretchFacts
  <2>4. QED
    BY <2>1, <2>3, NewAccount DEF AccountInv
<1>6. CASE AccepterBinds \/ StartBinds
  <2>1. UNCHANGED <<pc, buffers, slots, pipe, leaving, raced>>
    BY <1>6 DEF AccepterBinds, StartBinds, BindCallback, listener, history
  <2>2. accepter.pc # "write" /\ accepter'.pc # "write"
    BY <1>0, <1>6 DEF AccepterBinds, StartBinds, LockInv
  <2>3. \A u : ~TellingOf(u) /\ ~TellingOf(u)'
    BY <2>2 DEF TellingOf
  <2>4. QED
    BY <2>1, <2>3, AccountFrame DEF AccountInv
<1>7. CASE StopWrites
  <2> PICK t : t = threads[ctl.pos]
    OBVIOUS
  <2>1. /\ t \in Thread /\ \A i \in DOMAIN pipe[t] : pipe[t][i] # "s"
        /\ accepter.pc # "write"
    BY <1>7, StopFacts DEF StopWrites
  <2>2. /\ pipe' = [pipe EXCEPT ![t] = Append(@, "s")]
        /\ UNCHANGED <<pc, slots, buffers, leaving, raced, accepter>>
    BY <1>7 DEF StopWrites, listener, history
  <2>3. \A u : ~TellingOf(u) /\ ~TellingOf(u)'
    BY <2>1, <2>2 DEF TellingOf
  <2>4. \A u \in Thread \ raced' : u # t => Account(u)'
    <3>1. \A u \in Thread : u # t => pipe'[u] = pipe[u]
      BY <1>0, <2>2
    <3>2. QED
      BY <2>2, <2>3, <3>1, AccountFrame DEF AccountInv
  <2>5. ASSUME t \notin raced' PROVE Account(t)'
    <3>1. Account(t)
      BY <2>1, <2>2, <2>5 DEF AccountInv
    <3>2. pipe'[t] = Append(pipe[t], "s") /\ "s" \notin Elems(pipe[t])
      BY <1>0, <2>1, <2>2 DEF Elems
    <3>3. /\ Elems(pipe'[t]) = Elems(pipe[t]) \cup {"s"}
          /\ Distinct(pipe[t]) => Distinct(pipe'[t])
      BY <1>0, <2>1, <3>2, AppendFacts
    <3>4. Commands(t)' = Commands(t) /\ (Distinct(pipe[t]) => Distinct(pipe[t])')
      BY <3>3 DEF Commands, Elems, Distinct
    <3>5. /\ Slotted(t)' = Slotted(t) /\ Used(t)' = Used(t) /\ Told(t)' = Told(t)
          /\ Elems(buffers[t])' = Elems(buffers[t])
          /\ Distinct(buffers[t])' = Distinct(buffers[t])
          /\ (Serves(t)' <=> Serves(t))
      BY <2>2, <2>3 DEF Slotted, Used, Elems, Distinct, Told, Serves
    <3>6. QED
      BY <2>2, <2>3, <3>1, <3>4, <3>5 DEF Account
  <2>6. QED
    BY <2>4, <2>5 DEF AccountInv
<1>8. CASE StopJoins
  <2> PICK t : t = threads[ctl.pos]
    OBVIOUS
  <2>1. t \in Thread /\ pc[t] = "exited" /\ accepter.pc # "write"
    <3>1. ctl.pc = "join" /\ ctl.pos <= Len(threads) /\ pc[t] = "exited"
      BY <1>0, <1>8 DEF StopJoins, LockInv
    <3>2. QED
      BY <3>1, StopFacts
  <2>2. /\ pc' = [pc EXCEPT ![t] = "unborn"] /\ pipe' = [pipe EXCEPT ![t] = <<>>]
        /\ raced' = raced \ {t} /\ UNCHANGED <<slots, buffers, leaving, accepter>>
    BY <1>8 DEF StopJoins
  <2>3. \A u : ~TellingOf(u) /\ ~TellingOf(u)'
    BY <2>1, <2>2 DEF TellingOf
  <2>4. \A u \in Thread \ raced' : u # t => Account(u)'
    <3>1. \A u \in Thread : u # t => pipe'[u] = pipe[u] /\ pc'[u] = pc[u]
      BY <1>0, <2>2
    <3>2. QED
      BY <2>2, <2>3, <3>1, AccountFrame DEF AccountInv
  <2>5. Account(t)'
    <3>1. pc'[t] = "unborn" /\ buffers'[t] = <<>>
      BY <1>0, <2>1, <2>2 DEF ControlInv, ThreadInv, Stands
    <3>2. Distinct(buffers[t])'
      BY <3>1, SmallLists DEF Distinct
    <3>3. QED
      BY <3>1, <3>2 DEF Account, Serves
  <2>6. QED
    BY <2>4, <2>5 DEF AccountInv
<1>9. ASSUME NEW t \in Thread, Listen(t) PROVE AccountInv'
  <2>1. UNCHANGED <<raced, accepter, threads>>
    BY <1>9, ListenFrame
  <2>2. t \notin raced => Account(t)'
    BY <1>9, ListenAccount DEF AccountInv
  <2>3. \A u \in Thread \ raced : u # t => Account(u)'
    <3>1. \A u : (TellingOf(u)' <=> TellingOf(u)) /\ accepter'.client = accepter.client
      BY <2>1, TellingFrame
    <3>2. QED
      BY <1>9, <3>1, ListenOthers, AccountFrame DEF AccountInv, Same
  <2>4. QED
    BY <2>1, <2>2, <2>3 DEF AccountInv
<1>10. QED
  BY <1>1, <1>2, <1>3, <1>4, <1>5, <1>6, <1>7, <1>8, <1>9 DEF Next, Accepter, Ctl

-----------------------------------------------------------------------------
\* Where the iterator stands when the list is the one Start began with, or has one
\* client more, and how far the pass goes.
LEMMA OnTrackFacts ==
  ASSUME Types, ListInv, ctl.pc = "spawn", ctl.pos < start.num, Walks,
         start.live, NobodyLeft, Passed < Len(start.listed)
  PROVE  /\ Place = Passed + 1 /\ Passed \in Nat /\ start.last \in Elems(List)
         /\ Advance = IF Len(List) - Passed < MaxClients THEN Len(List) - Passed
                                                         ELSE MaxClients
<1>0. /\ start.listed \in Seq(Client) /\ db \in Seq(Client) /\ ctl.pos \in Nat
      /\ Distinct(db) /\ None \notin Client
  BY ClientAssumption DEF Types, ManagerTypes, WorldTypes, StartState, CtlState, ListInv
<1>1. /\ List = db /\ (db = start.listed \/ Extended)
      /\ start.last = start.listed[Passed + 1] /\ Passed \in Nat
  BY <1>0, PassFacts DEF List, Walks, OnTrack, Passed
<1> DEFINE p == Passed + 1
           l == start.listed
<1>2. p \in Nat /\ p >= 1 /\ p <= Len(l) /\ l[p] \in Client /\ p \in DOMAIN l
  BY <1>0, <1>1
<1>3. p \in DOMAIN db /\ db[p] = l[p]
  <2>1. CASE db = l
    BY <1>2, <2>1
  <2>2. CASE Extended
    <3>1. db = Append(l, accepter.client)
      BY <2>2 DEF Extended
    <3> DEFINE a == accepter.client
    <3> HIDE DEF p, l, a
    <3>2. l \in Seq(Client)
      BY <1>0 DEF l
    <3>3. DOMAIN Append(l, a) = 1..(Len(l) + 1) /\ \A i \in 1..Len(l) : Append(l, a)[i] = l[i]
      BY <3>2
    <3>4. QED
      BY <1>2, <3>1, <3>2, <3>3 DEF a
  <2>3. QED
    BY <1>1, <2>1, <2>2
<1>4. start.last = db[p] /\ start.last # None
  BY <1>0, <1>1, <1>2, <1>3
<1>5. start.last \in Elems(db)
  BY <1>3, <1>4 DEF Elems
<1> HIDE DEF p
<1>6. PlaceOf(start.last, db) = p
  <2>1. /\ PlaceOf(start.last, db) \in DOMAIN db
        /\ db[PlaceOf(start.last, db)] = start.last
    BY <1>0, <1>5, PlaceFacts
  <2>2. QED
    BY <1>0, <1>3, <1>4, <2>1 DEF Distinct
<1>7. Place = p
  BY <1>1, <1>4, <1>6 DEF Place
<1>8. QED
  BY <1>1, <1>5, <1>7 DEF p, Advance, Passed

\* Past the end the iterator stands at the end.
LEMMA AtEndFacts ==
  ASSUME Types, WalkInv, ctl.pc = "spawn", List = start.listed,
         Passed >= Len(start.listed)
  PROVE  start.last = None /\ Passed = Len(start.listed) /\ Place = Len(List) + 1
         /\ Advance = 0
<1>0. /\ start.listed \in Seq(Client) /\ db \in Seq(Client) /\ ctl.pos \in Nat
      /\ Walks /\ ctl.pos < start.num /\ Len(start.listed) \in Nat /\ MaxClients \in Nat \ {0}
  BY MaxClientsAssumption DEF Types, ManagerTypes, WorldTypes, StartState, CtlState, WalkInv
<1>1. Passed \in Nat /\ Passed <= Len(start.listed)
  BY <1>0, PassFacts DEF Walks, Passed
<1>2. start.last = None
  <2>1. CASE ~start.live
    BY <1>0, <2>1 DEF Walks
  <2>2. CASE start.live
    <3>1. db = start.listed
      BY <2>2 DEF List
    <3>2. OnTrack
      BY <1>0, <2>2, <3>1 DEF Walks, NobodyLeft
    <3>3. ~Extended
      <4>1. ASSUME Extended PROVE FALSE
        <5> DEFINE l == start.listed
                   a == accepter.client
        <5>1. l = Append(l, a)
          BY <3>1, <4>1 DEF Extended
        <5> HIDE DEF a
        <5>2. Len(Append(l, a)) = Len(l) + 1
          BY <1>0
        <5>3. QED
          BY <1>0, <5>1, <5>2
      <4>2. QED
        BY <4>1
    <3>4. QED
      BY <1>0, <1>1, <3>2, <3>3 DEF OnTrack
  <2>3. QED
    BY <2>1, <2>2
<1>3. Passed = Len(List) /\ Place = Len(List) + 1
  BY <1>0, <1>1, <1>2 DEF Place
<1>4. Advance = 0
  BY <1>0, <1>1, <1>3 DEF Advance, Passed
<1>5. QED
  BY <1>0, <1>1, <1>2, <1>3, <1>4

\* The arithmetic of the walk agrees with the list it began with.
LEMMA WalkKeepsOn ==
  ASSUME Types, ListInv, WalkInv, ctl.pc = "spawn", WalkFails
  PROVE  db # start.listed
<1> SUFFICES ASSUME db = start.listed PROVE FALSE
  OBVIOUS
<1>0. /\ start.listed \in Seq(Client) /\ ctl.pos \in Nat
      /\ Walks /\ ctl.pos < start.num /\ Len(start.listed) \in Nat /\ MaxClients \in Nat \ {0}
  BY MaxClientsAssumption DEF Types, ManagerTypes, StartState, CtlState, WalkInv
<1>1. List = start.listed
  <2>1. ~start.live => start.listed = <<>>
    BY <1>0 DEF Walks
  <2>2. QED
    BY <2>1 DEF List
<1>2. CASE Passed < Len(start.listed)
  <2>1. start.live /\ NobodyLeft
    BY <1>0, <1>2, PassFacts DEF Walks, NobodyLeft, Passed
  <2>2. /\ Place = Passed + 1 /\ Passed \in Nat /\ start.last \in Elems(List)
        /\ Advance = IF Len(List) - Passed < MaxClients THEN Len(List) - Passed
                                                        ELSE MaxClients
    BY <1>0, <1>2, <2>1, OnTrackFacts
  <2> DEFINE n == Len(List)
             p == Passed
  <2>3. n \in Nat /\ p \in Nat /\ p < n
    BY <1>0, <1>1, <1>2, <2>2
  <2>4. Place = p + 1 /\ Advance = IF n - p < MaxClients THEN n - p ELSE MaxClients
    BY <2>2
  <2> HIDE DEF n, p
  <2>5. Advance \in Nat /\ Place \in Nat /\ Place + Advance <= n + 1
    BY <1>0, <2>3, <2>4
  <2>6. ~(Advance < 0) /\ ~(Place + Advance > Len(List) + 1)
    BY <2>3, <2>5 DEF n
  <2>7. QED
    BY <2>2, <2>6 DEF WalkFails, Dangling
<1>3. CASE ~(Passed < Len(start.listed))
  <2>1. Passed \in Nat
    BY <1>0, PassFacts DEF Passed
  <2>2. start.last = None /\ Place = Len(List) + 1 /\ Advance = 0
    BY <1>0, <1>1, <1>3, <2>1, AtEndFacts
  <2>3. QED
    BY <1>0, <1>1, <2>2 DEF WalkFails, Dangling
<1>4. QED
  BY <1>2, <1>3

\* A pass of Start's loop through a list that is as it was, or has one client more,
\* leaves the iterator at the first client it has not passed.
LEMMA SpawnWalks ==
  ASSUME Types, ControlInv, ListInv, WalkInv, StartSpawns
  PROVE  WalkInv'
<1>0. /\ start \in StartState /\ ctl \in CtlState /\ db \in Seq(Client)
      /\ ctl.pc = "spawn" /\ Walks /\ ctl.pos < start.num /\ ctl.pos \in Nat
      /\ start.listed \in Seq(Client) /\ start.num \in Nat
      /\ Distinct(db) /\ MaxClients \in Nat \ {0} /\ ~WalkFails
  BY MaxClientsAssumption DEF Types, ManagerTypes, WorldTypes, StartState, CtlState,
     WalkInv, StartSpawns, ListInv
<1>1. /\ ctl' = [pc |-> "bind", pos |-> ctl.pos + 1] /\ db' = db /\ accepter' = accepter
      /\ start' = [start EXCEPT !.last = IF PlaceAfter \in DOMAIN List THEN List[PlaceAfter]
                                                                       ELSE None]
  BY DEF StartSpawns, NewThread, world
<1> DEFINE last == IF PlaceAfter \in DOMAIN List THEN List[PlaceAfter] ELSE None
<1>2. /\ start'.live = start.live /\ start'.num = start.num /\ start'.listed = start.listed
      /\ start'.last = last
  BY <1>0, <1>1 DEF StartState
<1>3. /\ Passed' = (ctl.pos + 1) * MaxClients /\ Passed' = Passed + MaxClients
      /\ Passed \in Nat
  BY <1>0, <1>1, PassFacts DEF Passed
<1>a. Passed' = Passed + MaxClients /\ Passed \in Nat /\ MaxClients \in Nat \ {0}
  BY <1>0, <1>3
<1>4. ~start.live => last = None
  BY <1>0 DEF List
<1>5. ASSUME start.live, NobodyLeft', ctl'.pos < start'.num PROVE OnTrack'
  <2> DEFINE l == start.listed
             a == accepter.client
  <2>1. Passed' <= Len(l) /\ NobodyLeft
    <3>1. ctl.pos + 1 < start.num /\ ctl.pos + 1 \in Nat
      BY <1>0, <1>1, <1>2, <1>5
    <3>2. (ctl.pos + 1) * MaxClients <= Len(l)
      <4> DEFINE p == ctl.pos + 1
                 n == Len(l)
      <4>1. p \in Nat /\ n \in Nat /\ p < n \div MaxClients + 1
        <5>1. start.num = n \div MaxClients + 1
          BY <1>0 DEF Walks
        <5>2. n \in Nat
          BY <1>0
        <5> HIDE DEF n
        <5>3. QED
          BY <3>1, <5>1, <5>2
      <4> HIDE DEF p, n
      <4>2. p * MaxClients <= n
        BY <4>1, PassFacts
      <4>3. QED
        BY <4>2 DEF p, n
    <3>3. NobodyLeft
      BY <1>1, <1>2, <1>5 DEF NobodyLeft, Elems
    <3>4. QED
      BY <1>3, <3>2, <3>3
  <2>2. Len(l) \in Nat /\ Passed < Len(l)
    BY <1>0, <1>3, <2>1
  <2>3. /\ Place = Passed + 1 /\ OnTrack
        /\ Advance = IF Len(List) - Passed < MaxClients THEN Len(List) - Passed
                                                        ELSE MaxClients
    BY <1>0, <1>5, <2>1, <2>2, OnTrackFacts DEF Walks
  <2>4. List = db /\ (db = l \/ Extended)
    BY <1>5, <2>3 DEF List, OnTrack
  <2>5. Len(List) >= Len(l) /\ Len(List) \in Nat
    <3>1. db = l \/ db = Append(l, a)
      BY <2>4 DEF Extended
    <3> HIDE DEF a
    <3>2. Len(Append(l, a)) = Len(l) + 1
      BY <1>0
    <3>3. QED
      BY <1>0, <2>2, <2>4, <3>1, <3>2
  <2>6. PlaceAfter = Passed' + 1
    <3> DEFINE n == Len(List)
    <3>1. n \in Nat /\ Passed + MaxClients <= n
      BY <1>0, <1>3, <2>1, <2>2, <2>5
    <3>2. Advance = IF n - Passed < MaxClients THEN n - Passed ELSE MaxClients
      BY <2>3
    <3> HIDE DEF n
    <3>3. Advance = MaxClients
      BY <1>0, <1>3, <3>1, <3>2
    <3>4. QED
      <4>1. Place = Passed + 1
        BY <2>3
      <4>2. PlaceAfter = Place + Advance
        BY DEF PlaceAfter
      <4>3. QED
        BY <1>a, <3>3, <4>1, <4>2
  <2>7. Elems(Stretch) = {List[i] : i \in Place .. (Place + Advance - 1)}
    BY <1>0, StretchFacts
  <2>8. CASE db = l
    <3>1. last = IF Passed' < Len(l) THEN l[Passed' + 1] ELSE None
      <4>1. Passed' + 1 \in DOMAIN l <=> Passed' < Len(l)
        BY <1>0, <1>3
      <4>2. QED
        BY <2>4, <2>6, <2>8, <4>1
    <3> HIDE DEF last
    <3>2. QED
      BY <1>1, <1>2, <2>8, <3>1 DEF OnTrack
  <2>9. CASE Extended
    <3>1. db = Append(l, a) /\ accepter.pc = "lock"
          /\ \A t \in Thread : a \notin Elems(buffers[t])
      BY <2>9 DEF Extended
    <3>2. /\ Len(db) = Len(l) + 1 /\ DOMAIN db = 1..(Len(l) + 1)
          /\ \A i \in 1..Len(l) : db[i] = l[i]
          /\ db[Len(l) + 1] = a
      <4> HIDE DEF a
      <4>1. /\ Len(Append(l, a)) = Len(l) + 1 /\ DOMAIN Append(l, a) = 1..(Len(l) + 1)
            /\ \A i \in 1..Len(l) : Append(l, a)[i] = l[i]
            /\ Append(l, a)[Len(l) + 1] = a
        BY <1>0
      <4>2. QED
        BY <3>1, <4>1
    <3>3. a \notin Elems(Stretch)
      <4>1. Place \in Nat /\ Place >= 1 /\ Place + Advance - 1 <= Len(l)
            /\ Place + Advance - 1 \in Nat
        <5>1. Place = Passed + 1 /\ Place + Advance = Passed' + 1
          BY <2>3, <2>6 DEF PlaceAfter
        <5> DEFINE n == Len(l)
                   p == Place
                   d == Advance
                   w == Passed
                   e == Passed'
        <5>2. p = w + 1 /\ p + d = e + 1 /\ w \in Nat /\ e = w + MaxClients
              /\ MaxClients \in Nat \ {0} /\ e <= n /\ n \in Nat /\ d \in Int
          BY <1>0, <1>a, <2>1, <2>2, <5>1, StretchFacts
        <5> HIDE DEF n, p, d, w, e
        <5>3. p \in Nat /\ p >= 1 /\ p + d - 1 <= n /\ p + d - 1 \in Nat
          BY <5>2
        <5>4. QED
          BY <5>3 DEF n, p, d
      <4>2. \A i \in Place .. (Place + Advance - 1) : i \in DOMAIN db /\ i # Len(l) + 1
        BY <2>2, <3>2, <4>1
      <4>3. \A i \in Place .. (Place + Advance - 1) : db[i] # a
        BY <1>0, <2>2, <3>2, <4>2 DEF Distinct
      <4>4. QED
        BY <2>4, <2>7, <4>3
    <3>4. \A t \in Thread : a \notin Elems(buffers'[t])
      <4>1. \A t \in Thread : buffers'[t] = Stretch \/ buffers'[t] = buffers[t]
        BY SpawnsBuffers
      <4>2. QED
        BY <3>1, <3>3, <4>1
    <3>5. Extended'
      <4>1. \A t \in Thread : Elems(buffers[t])' = Elems(buffers'[t])
        BY DEF Elems
      <4>2. QED
        BY <1>1, <1>2, <1>5, <3>1, <3>4, <4>1 DEF Extended
    <3>6. last = IF Passed' < Len(l) THEN l[Passed' + 1] ELSE a
      <4>1. Passed' + 1 \in 1..(Len(l) + 1) /\ (Passed' < Len(l) => Passed' + 1 \in 1..Len(l))
            /\ (~(Passed' < Len(l)) => Passed' = Len(l))
        BY <1>a, <2>1, <2>2
      <4>2. QED
        BY <2>4, <2>6, <3>2, <4>1
    <3> HIDE DEF last
    <3>7. QED
      BY <1>1, <1>2, <3>5, <3>6 DEF OnTrack
  <2>10. QED
    BY <2>4, <2>8, <2>9
<1> HIDE DEF last
<1>6. Walks'
  BY <1>0, <1>1, <1>2, <1>4, <1>5 DEF Walks
<1>7. ctl'.pos \in 1..start'.num
  BY <1>0, <1>1, <1>2
<1>8. QED
  BY <1>1, <1>6, <1>7 DEF WalkInv

\* Start's walk keeps its place as long as nobody leaves the list: a client that connects
\* comes to the list's end, and one that left cannot come back.
LEMMA StepWalk ==
  Types /\ ControlInv /\ BornInv /\ ListInv /\ WalkInv /\ Next => WalkInv'
<1> SUFFICES ASSUME Types, ControlInv, BornInv, ListInv, WalkInv, Next PROVE WalkInv'
  OBVIOUS
<1>0. /\ start \in StartState /\ ctl \in CtlState /\ accepter \in AccepterState
      /\ db \in Seq(Client) /\ start.listed \in Seq(Client) /\ LockInv
  BY DEF Types, ManagerTypes, WorldTypes, StartState, ControlInv
<1>1. ASSUME NEW c \in Client, Accept(c) PROVE WalkInv'
  <2>1. /\ accepter.pc = "idle" /\ db' = Append(db, c) /\ UNCHANGED <<ctl, start, buffers>>
        /\ accepter' = [pc |-> "lock", client |-> c, pos |-> 1] /\ Untouched(c)
    BY <1>1 DEF Accept, manager, shared, BornInv
  <2>2. Elems(db') = Elems(db) \cup {c}
    BY <1>0, <2>1, AppendFacts
  <2>3. NobodyLeft' => NobodyLeft
    <3>1. NobodyLeft' => Elems(start.listed) \subseteq Elems(db')
      BY <2>1 DEF NobodyLeft, Elems
    <3>2. QED
      BY <2>1, <2>2, <3>1 DEF NobodyLeft, Untouched
  <2>4. ASSUME start.live, OnTrack PROVE OnTrack'
    <3>1. ~Extended
      BY <2>1 DEF Extended
    <3>2. db = start.listed
      BY <2>4, <3>1 DEF OnTrack
    <3>3. Extended'
      <4>1. \A t \in Thread : Elems(buffers[t])' = Elems(buffers[t])
        BY <2>1 DEF Elems
      <4>2. QED
        BY <2>1, <2>4, <3>2, <4>1 DEF Extended, Untouched
    <3>4. Passed' = Passed
      BY <2>1 DEF Passed
    <3>5. QED
      BY <2>1, <2>4, <3>1, <3>3, <3>4 DEF OnTrack
  <2>5. Walks => Walks'
    BY <2>1, <2>3, <2>4 DEF Walks
  <2>6. QED
    BY <2>1, <2>5 DEF WalkInv
<1>2. CASE \/ \E c \in Client : Peer(c)
           \/ StartFails \/ StartBinds
  <2>1. UNCHANGED <<db, accepter, buffers>>
    BY <1>2 DEF Peer, Move, StartFails, StartBinds, BindCallback, manager, shared, world
  <2>2. \/ UNCHANGED <<ctl, start>>
        \/ /\ ctl.pc = "bind" /\ ctl' = [ctl EXCEPT !.pc = "spawn"] /\ start' = start
           /\ ctl.pos # start.num
        \/ ctl'.pc = "idle"
    <3>1. CASE \E c \in Client : Peer(c)
      BY <3>1 DEF Peer, Move, manager
    <3>2. CASE StartBinds
      <4>1. PICK t \in Unbound : BindCallback(t) /\
              IF bound[t] = 0 THEN UNCHANGED <<threads_mtx, is_running, ctl, start>>
              ELSE IF ctl.pos = start.num
              THEN /\ threads_mtx' = "free" /\ is_running' = TRUE
                   /\ ctl' = [pc |-> "idle", pos |-> 0] /\ start' = NoStart
              ELSE /\ ctl' = [ctl EXCEPT !.pc = "spawn"]
                   /\ UNCHANGED <<threads_mtx, is_running, start>>
        BY <3>2 DEF StartBinds
      <4>2. ctl.pc = "bind"
        BY <3>2 DEF StartBinds
      <4>3. QED
        BY <4>1, <4>2
    <3>3. CASE StartFails
      BY <3>3 DEF StartFails, manager
    <3>4. QED
      BY <1>2, <3>1, <3>2, <3>3
  <2>3. ASSUME start' = start, ctl'.pos = ctl.pos, Walks PROVE Walks'
    BY <2>1, <2>3 DEF Walks, OnTrack, NobodyLeft, Extended, Passed
  <2>4. CASE UNCHANGED <<ctl, start>>
    BY <2>3, <2>4 DEF WalkInv
  <2>5. CASE /\ ctl.pc = "bind" /\ ctl' = [ctl EXCEPT !.pc = "spawn"] /\ start' = start
             /\ ctl.pos # start.num
    <3>1. ctl'.pc = "spawn" /\ ctl'.pos = ctl.pos /\ ctl.pos \in Nat /\ start.num \in Nat
      BY <1>0, <2>5 DEF CtlState, StartState
    <3>2. ctl'.pos < start'.num
      BY <2>5, <3>1 DEF WalkInv
    <3>3. QED
      BY <2>3, <2>5, <3>1, <3>2 DEF WalkInv
  <2>6. CASE ctl'.pc = "idle"
    BY <2>6 DEF WalkInv
  <2>7. QED
    BY <2>2, <2>4, <2>5, <2>6
<1>3. CASE \/ Accepter \/ StopBegins \/ StopWrites \/ StopJoins \/ StopEnds
  <2>1. ctl'.pc \notin {"spawn", "bind"}
    <3>1. CASE Accepter
      <4>1. ctl' = ctl
        BY <3>1 DEF Accepter, AccepterLocks, AddTcpClientFull, AddTcpClientTakes,
           AddTcpClientWrites, AccepterSpawns, AccepterBinds, manager
      <4>2. ctl.pc = "idle"
        BY <1>0, <3>1 DEF Accepter, AccepterLocks, AddTcpClientFull, AddTcpClientTakes,
           AddTcpClientWrites, AccepterSpawns, AccepterBinds, LockInv
      <4>3. QED
        BY <4>1, <4>2
    <3>2. CASE StopBegins \/ StopWrites \/ StopJoins \/ StopEnds
      BY <1>0, <3>2 DEF StopBegins, StopWrites, StopJoins, StopEnds, CtlState
    <3>3. QED
      BY <1>3, <3>1, <3>2
  <2>2. QED
    BY <2>1 DEF WalkInv
<1>4. CASE StartBegins
  <2>1. PICK live \in BOOLEAN :
          LET list == IF live THEN db ELSE <<>> IN
            /\ start' = [live |-> live, num |-> Len(list) \div MaxClients + 1,
                         last |-> IF list = <<>> THEN None ELSE list[1],
                         listed |-> list]
            /\ skipped' = skipped \cup ((Elems(db) \ Elems(list)) \ HandedOver)
    BY <1>4 DEF StartBegins
  <2> DEFINE list == IF live THEN db ELSE <<>>
  <2>2. /\ start'.live = live /\ start'.num = Len(list) \div MaxClients + 1
        /\ start'.last = IF list = <<>> THEN None ELSE list[1]
        /\ start'.listed = list
    BY <2>1
  <2>3. ctl' = [pc |-> "spawn", pos |-> 0] /\ db' = db
    BY <1>4 DEF StartBegins, world
  <2>4. list \in Seq(Client) /\ Len(list) \in Nat /\ (~live => list = <<>>)
        /\ (live => list = db)
    BY <1>0
  <2> HIDE DEF list
  <2>5. start'.num \in Nat /\ start'.num > 0
    BY <2>2, <2>4, MaxClientsAssumption
  <2>6. Passed' = 0
    <3>1. 0 * MaxClients = 0
      BY MaxClientsAssumption
    <3>2. QED
      BY <2>3, <3>1 DEF Passed
  <2>7. live => OnTrack'
    <3>1. (list = <<>> => Len(list) = 0) /\ (list # <<>> => Len(list) > 0)
      BY <2>4, EmptySeq
    <3>2. IF Passed' < Len(list) THEN start'.last = list[Passed' + 1] ELSE start'.last = None
      BY <2>2, <2>4, <2>6, <3>1
    <3>3. QED
      BY <2>2, <2>3, <2>4, <3>2 DEF OnTrack
  <2>8. Walks'
    BY <2>2, <2>4, <2>7 DEF Walks
  <2>9. QED
    BY <2>3, <2>5, <2>8 DEF WalkInv
<1>5. CASE StartSpawns
  BY <1>5, SpawnWalks
<1>6. ASSUME NEW t \in Thread, Listen(t) PROVE WalkInv'
  <2>1. UNCHANGED <<ctl, start, accepter>>
    BY <1>6, ListenFrame
  <2>2. /\ \A u \in Thread : Elems(buffers'[u]) \subseteq Elems(buffers[u])
        /\ (db' = db \/ \E c \in Client : Departs(t, c))
    BY <1>6, ListenHolds
  <2>3. \A u \in Thread : Elems(buffers[u])' = Elems(buffers'[u])
    BY DEF Elems
  <2>4. Passed' = Passed
    BY <2>1 DEF Passed
  <2>5. ASSUME db' = db, Walks PROVE Walks'
    <3>1. Extended => Extended'
      BY <2>1, <2>2, <2>3, <2>5 DEF Extended
    <3>2. QED
      BY <2>1, <2>4, <2>5, <3>1 DEF Walks, OnTrack, NobodyLeft
  <2>6. ASSUME NEW c \in Client, Departs(t, c), Walks PROVE Walks'
    <3>1. db' = Without(db, c) /\ c \in Elems(buffers[t])
      BY <2>6 DEF Departs
    <3>2. Elems(db') = Elems(db) \ {c}
      BY <1>0, <3>1, WithoutFacts
    <3>3. ASSUME start'.live, NobodyLeft', ctl'.pos < start'.num PROVE db' = db
      <4>1. Elems(start.listed) \subseteq Elems(db')
        BY <2>1, <3>3 DEF NobodyLeft, Elems
      <4>2. NobodyLeft /\ c \notin Elems(start.listed)
        BY <3>2, <4>1 DEF NobodyLeft
      <4>3. OnTrack
        BY <2>1, <2>6, <3>3, <4>2 DEF Walks
      <4>4. c \notin Elems(db)
        <5>1. CASE db = start.listed
          BY <4>2, <5>1
        <5>2. CASE Extended
          <6>1. c # accepter.client /\ db = Append(start.listed, accepter.client)
            BY <3>1, <5>2 DEF Extended
          <6>2. accepter.client \in Client
            BY <1>0, <5>2 DEF Extended, LockInv, AccepterState
          <6>3. Elems(db) = Elems(start.listed) \cup {accepter.client}
            BY <1>0, <6>1, <6>2, AppendFacts
          <6>4. QED
            BY <4>2, <6>1, <6>3
        <5>3. QED
          BY <4>3, <5>1, <5>2 DEF OnTrack
      <4>5. QED
        BY <1>0, <3>1, <4>4, WithoutNothing
    <3>4. CASE db' = db
      BY <2>5, <2>6, <3>4
    <3>5. CASE db' # db
      BY <2>1, <2>6, <3>3, <3>5 DEF Walks
    <3>6. QED
      BY <3>4, <3>5
  <2>7. QED
    BY <2>1, <2>2, <2>5, <2>6 DEF WalkInv
<1>7. QED
  BY <1>1, <1>2, <1>3, <1>4, <1>5, <1>6 DEF Next, Ctl

-----------------------------------------------------------------------------
LEMMA HeldNext ==
  \A c : c \in Held' <=>
    (\E t \in Thread : c \in Elems(buffers'[t])) \/ (c \in Client /\ InHand(c)')
<1> DEFINE B == UNION {Elems(buffers'[t]) : t \in Thread}
<1>1. \A c : c \in B <=> \E t \in Thread : c \in Elems(buffers'[t])
  OBVIOUS
<1>2. B = UNION {Elems(buffers[t])' : t \in Thread}
  BY DEF Elems
<1>3. Held' = (UNION {Elems(buffers[t])' : t \in Thread}) \cup {c \in Client : InHand(c)'}
  BY DEF Held
<1> HIDE DEF B
<1>4. QED
  BY <1>1, <1>2, <1>3

\* Outside Start and Stop a listed client stays held as long as who has it keeps it.
LEMMA HeldFrame ==
  ASSUME HeldInv, UNCHANGED <<ctl, start, is_running>>, skipped' = skipped,
         \A c \in Elems(db') : c \in Held' \/ (c \in Elems(db) /\ c \notin Held)
  PROVE  HeldInv'
<1>1. Remaining' = Remaining
  BY DEF Remaining, Passed
<1>2. Elems(db)' = Elems(db')
  BY DEF Elems
<1>3. ASSUME NEW X, Elems(db) \subseteq Held \cup X PROVE Elems(db') \subseteq Held' \cup X
  BY <1>3
<1>4. ctl.pc = "idle" /\ is_running => Elems(db') \subseteq Held' \cup skipped
  BY <1>3 DEF HeldInv
<1>5. ctl.pc \in {"spawn", "bind"} => Elems(db') \subseteq Held' \cup (skipped \cup Remaining)
  <2>1. ctl.pc \in {"spawn", "bind"} => Elems(db) \subseteq Held \cup (skipped \cup Remaining)
    BY DEF HeldInv
  <2>2. QED
    BY <1>3, <2>1
<1>6. QED
  BY <1>1, <1>2, <1>4, <1>5 DEF HeldInv

\* When the list is the one Start began with, a pass gives out the next clients of it.
LEMMA PassGivesOut ==
  ASSUME Types, ListInv, WalkInv, ctl.pc = "spawn", ~WalkFails, List = start.listed
  PROVE  \A j \in DOMAIN start.listed :
           j > Passed => j > Passed + MaxClients \/ start.listed[j] \in Elems(Stretch)
<1>0. /\ start.listed \in Seq(Client) /\ start \in StartState /\ Passed \in Nat
      /\ Walks /\ ctl.pos < start.num /\ MaxClients \in Nat
  <2>1. ctl.pos \in Nat
    BY DEF Types, ManagerTypes, CtlState
  <2>2. Passed \in Nat
    BY <2>1, PassFacts DEF Passed
  <2>3. QED
    BY <2>2, MaxClientsAssumption DEF Types, ManagerTypes, StartState, WalkInv
<1>1. CASE Passed >= Len(start.listed)
  BY <1>0, <1>1
<1>2. CASE Passed < Len(start.listed)
  <2>1. start.live
    <3>1. start.listed # <<>>
      BY <1>0, <1>2
    <3>2. QED
      BY <1>0, <3>1 DEF Walks, StartState
  <2>2. NobodyLeft
    BY <2>1 DEF List, NobodyLeft
  <2>3. Place = Passed + 1 /\ Advance = IF Len(List) - Passed < MaxClients
                                       THEN Len(List) - Passed ELSE MaxClients
    BY <1>0, <1>2, <2>1, <2>2, OnTrackFacts
  <2>4. Elems(Stretch) = {List[i] : i \in Place .. (Place + Advance - 1)}
    BY StretchFacts
  <2>5. ASSUME NEW j \in DOMAIN start.listed, j > Passed, ~(j > Passed + MaxClients)
        PROVE  j \in Place .. (Place + Advance - 1)
    <3>1. j \in 1..Len(List) /\ Len(List) \in Nat
      BY <1>0, <2>5
    <3>2. Place + Advance - 1 = IF Len(List) - Passed < MaxClients THEN Len(List)
                                                                  ELSE Passed + MaxClients
      <4> DEFINE n == Len(List)
      <4>1. n \in Nat /\ Passed \in Nat /\ MaxClients \in Nat /\ Place = Passed + 1
            /\ Advance = IF n - Passed < MaxClients THEN n - Passed ELSE MaxClients
        BY <1>0, <2>3, <3>1
      <4> HIDE DEF n
      <4>2. Place + Advance - 1 = IF n - Passed < MaxClients THEN n ELSE Passed + MaxClients
        BY <4>1
      <4>3. QED
        BY <4>2 DEF n
    <3>3. j <= Place + Advance - 1
      BY <1>0, <2>5, <3>1, <3>2
    <3>4. Place \in Int /\ Place <= j /\ Place + Advance - 1 \in Int
      BY <1>0, <2>3, <2>5, <3>1, <3>2
    <3>5. QED
      BY <3>1, <3>3, <3>4
  <2>6. QED
    BY <2>4, <2>5
<1>3. Len(start.listed) \in Nat
  BY <1>0
<1>4. QED
  BY <1>0, <1>1, <1>2, <1>3

\* Nobody who is listed is lost: a thread drops only whom it has taken out of the

\* database, the acceptor hands on whom it has in hand, and Start passes everybody.
LEMMA StepHeld ==
  Types /\ ControlInv /\ HolderInv /\ ListInv /\ WalkInv /\ HeldInv /\ Next => HeldInv'
<1> SUFFICES ASSUME Types, ControlInv, HolderInv, ListInv, WalkInv, HeldInv, Next
             PROVE  HeldInv'
  OBVIOUS
<1>0. /\ start \in StartState /\ ctl \in CtlState /\ accepter \in AccepterState
      /\ db \in Seq(Client) /\ LockInv /\ leaving \in [Thread -> Client \cup {None}]
      /\ buffers \in [Thread -> Seq(Client)] /\ start.listed \in Seq(Client)
  BY DEF Types, ManagerTypes, WorldTypes, ThreadTypes, ControlInv, StartState
<1>a. \A c \in Elems(db) : c \in Client
  BY <1>0 DEF Elems
<1>1. ASSUME NEW c \in Client, Accept(c) PROVE HeldInv'
  <2>1. /\ accepter.pc = "idle" /\ db' = Append(db, c) /\ buffers' = buffers
        /\ accepter' = [pc |-> "lock", client |-> c, pos |-> 1]
        /\ UNCHANGED <<ctl, start, is_running, skipped>>
    BY <1>1 DEF Accept, manager, shared, history
  <2>2. Elems(db') = Elems(db) \cup {c}
    BY <1>0, <2>1, AppendFacts
  <2>3. InHand(c)' /\ \A d : ~InHand(d)
    BY <2>1 DEF InHand
  <2>4. c \in Held'
    BY <2>3, HeldNext
  <2>5. Held \subseteq Held'
    BY <2>1, <2>3, HeldNext, HolderFacts
  <2>6. QED
    BY <2>1, <2>2, <2>4, <2>5, HeldFrame
<1>2. CASE \/ \E c \in Client : Peer(c)
           \/ AccepterLocks \/ AddTcpClientFull \/ AddTcpClientWrites \/ AccepterBinds
           \/ StartFails
  <2>1. /\ UNCHANGED <<db, buffers, ctl, start, is_running, skipped>>
    BY <1>2 DEF Peer, Move, AccepterLocks, AddTcpClientFull, AddTcpClientWrites,
       AccepterBinds, BindCallback, StartFails, manager, shared, world, history
  <2>2. \A c : InHand(c) => InHand(c)'
    BY <1>0, <1>2 DEF Peer, Move, AccepterLocks, AddTcpClientFull, AddTcpClientWrites,
       AccepterBinds, StartFails, InHand, AccepterState
  <2>3. Held \subseteq Held'
    BY <2>1, <2>2, HeldNext, HolderFacts
  <2>4. QED
    BY <2>1, <2>3, HeldFrame
<1>3. CASE AddTcpClientTakes \/ AccepterSpawns
  <2> DEFINE a == accepter.client
  <2>1. /\ InHand(a)
        /\ UNCHANGED <<manager, leaving, world, relisted, skipped, starts, bound>>
        /\ \E t \in Thread :
             /\ Elems(buffers[t]) \cup {a} \subseteq Elems(buffers'[t])
             /\ \A u \in Thread : u # t => buffers'[u] = buffers[u]
    BY <1>3, TakesBuffers
  <2>2. PICK t \in Thread : /\ Elems(buffers[t]) \cup {a} \subseteq Elems(buffers'[t])
                            /\ \A u \in Thread : u # t => buffers'[u] = buffers[u]
    BY <2>1
  <2>3. \A c : InHand(c) => c = a
    BY DEF InHand
  <2>4. UNCHANGED <<db, ctl, start, is_running>>
    BY <2>1 DEF world, manager
  <2> HIDE DEF a
  <2>5. \A u \in Thread : Elems(buffers[u]) \subseteq Elems(buffers'[u])
    BY <2>2
  <2>6. Held \subseteq Held'
    BY <2>2, <2>3, <2>5, HeldNext, HolderFacts
  <2>7. QED
    BY <2>1, <2>4, <2>6, HeldFrame
<1>4. CASE StartBegins
  <2>1. PICK live \in BOOLEAN :
          LET list == IF live THEN db ELSE <<>> IN
            /\ start' = [live |-> live, num |-> Len(list) \div MaxClients + 1,
                         last |-> IF list = <<>> THEN None ELSE list[1],
                         listed |-> list]
            /\ skipped' = skipped \cup ((Elems(db) \ Elems(list)) \ HandedOver)
    BY <1>4 DEF StartBegins
  <2> DEFINE list == IF live THEN db ELSE <<>>
  <2>2. start'.listed = list
        /\ skipped' = skipped \cup ((Elems(db) \ Elems(list)) \ HandedOver)
    BY <2>1
  <2>3. list \in Seq(Client) /\ Len(list) \in Nat
    BY <1>0
  <2> HIDE DEF list
  <2>4. /\ ctl' = [pc |-> "spawn", pos |-> 0] /\ UNCHANGED <<db, accepter, buffers>>
        /\ accepter.pc \in {"idle", "lock"}
    BY <1>0, <1>4 DEF StartBegins, world, shared, LockInv, AccepterState
  <2>5. Passed' = 0
    <3>1. 0 * MaxClients = 0
      BY MaxClientsAssumption
    <3>2. QED
      BY <2>4, <3>1 DEF Passed
  <2>6. Elems(list) \subseteq Remaining'
    <3>1. Remaining' = {list[j] : j \in {i \in DOMAIN list : i > 0}}
      BY <2>2, <2>5 DEF Remaining
    <3>2. \A i \in DOMAIN list : i > 0
      BY <2>3
    <3>3. QED
      BY <3>1, <3>2 DEF Elems
  <2>7. \A c \in Elems(db) : c \in HandedOver => c \in Held
    <3>1. ASSUME NEW c \in Client, c = accepter.client PROVE InHand(c)
      BY <1>0, <2>4, <3>1, ClientAssumption DEF InHand, LockInv
    <3>2. QED
      BY <1>a, <3>1, HolderFacts
  <2>8. Held' = Held
    BY <2>4 DEF Held, InHand
  <2>9. Elems(db') \subseteq Held' \cup skipped' \cup Remaining'
    BY <2>2, <2>4, <2>6, <2>7, <2>8
  <2>10. Elems(db)' = Elems(db')
    BY DEF Elems
  <2>11. QED
    BY <2>4, <2>9, <2>10 DEF HeldInv
<1>5. CASE StartSpawns
  <2>1. /\ ctl.pc = "spawn" /\ ~WalkFails /\ ctl'.pc = "bind" /\ ctl'.pos = ctl.pos + 1
        /\ start'.listed = start.listed
        /\ skipped' = IF List = start.listed THEN skipped
                      ELSE skipped \cup Elems(List) \cup Elems(start.listed)
    BY <1>0, <1>5 DEF StartSpawns, CtlState, StartState
  <2>2. /\ UNCHANGED <<accepter, world>>
        /\ \E t \in Thread : /\ buffers'[t] = Stretch /\ pc[t] = "unborn"
                             /\ \A u \in Thread : u # t => buffers'[u] = buffers[u]
    BY <1>5, SpawnsBuffers
  <2>3. PICK t \in Thread : /\ buffers'[t] = Stretch /\ pc[t] = "unborn"
                            /\ \A u \in Thread : u # t => buffers'[u] = buffers[u]
    BY <2>2
  <2>4. db' = db /\ \A c : InHand(c)' <=> InHand(c)
    BY <2>2 DEF world, InHand
  <2>5. Elems(buffers[t]) = {}
    BY <2>3, SmallLists DEF ControlInv, ThreadInv, Stands
  <2>6. Held \subseteq Held'
    BY <2>3, <2>4, <2>5, HeldNext, HolderFacts
  <2>7. Elems(Stretch) \subseteq Held'
    BY <2>3, HeldNext
  <2>8. Passed' = Passed + MaxClients
    <3>1. ctl.pos \in Nat
      BY <1>0 DEF CtlState
    <3>2. QED
      BY <2>1, <3>1, PassFacts DEF Passed
  <2>9. Elems(db) \subseteq Held' \cup skipped' \cup Remaining'
    <3>1. CASE List = start.listed
      <4>1. \A j \in DOMAIN start.listed :
              j > Passed => j > Passed' \/ start.listed[j] \in Elems(Stretch)
        BY <2>1, <2>8, <3>1, PassGivesOut
      <4>2. Remaining' = {start.listed[j] : j \in {i \in DOMAIN start.listed : i > Passed'}}
        BY <2>1 DEF Remaining
      <4>3. Remaining \subseteq Remaining' \cup Elems(Stretch)
        BY <4>1, <4>2 DEF Remaining
      <4>4. Elems(db) \subseteq Held \cup skipped \cup Remaining
        BY <2>1 DEF HeldInv
      <4>5. QED
        BY <2>1, <2>6, <2>7, <3>1, <4>3, <4>4
    <3>2. CASE List # start.listed
      <4>1. start.live
        BY <1>0, <2>1, <3>2 DEF List, WalkInv, Walks, StartState
      <4>2. QED
        BY <2>1, <3>2, <4>1 DEF List
    <3>3. QED
      BY <3>1, <3>2
  <2>10. Elems(db)' = Elems(db)
    BY <2>4 DEF Elems
  <2>11. QED
    BY <2>1, <2>9, <2>10 DEF HeldInv
<1>6. CASE StartBinds
  <2>1. ctl.pc = "bind" /\ UNCHANGED <<db, accepter, buffers, skipped>>
    BY <1>6 DEF StartBinds, BindCallback, world, history
  <2>2. \/ UNCHANGED <<ctl, start>>
        \/ ctl' = [ctl EXCEPT !.pc = "spawn"] /\ start' = start
        \/ ctl'.pc = "idle" /\ ctl.pos = start.num
    <3>1. PICK t \in Unbound : BindCallback(t) /\
            IF bound[t] = 0 THEN UNCHANGED <<threads_mtx, is_running, ctl, start>>
            ELSE IF ctl.pos = start.num
            THEN /\ threads_mtx' = "free" /\ is_running' = TRUE
                 /\ ctl' = [pc |-> "idle", pos |-> 0] /\ start' = NoStart
            ELSE /\ ctl' = [ctl EXCEPT !.pc = "spawn"]
                 /\ UNCHANGED <<threads_mtx, is_running, start>>
      BY <1>6 DEF StartBinds
    <3>2. QED
      BY <3>1
  <2>3. Held' = Held /\ Elems(db)' = Elems(db)
    BY <2>1 DEF Held, InHand, Elems
  <2>4. Elems(db) \subseteq Held \cup skipped \cup Remaining
    BY <2>1 DEF HeldInv
  <2>5. CASE ctl'.pc = "idle" /\ ctl.pos = start.num
    <3>1. /\ start.num = Len(start.listed) \div MaxClients + 1
          /\ ctl.pos \in Nat /\ Len(start.listed) \in Nat
      BY <1>0, <2>1 DEF WalkInv, Walks, CtlState
    <3>2. Passed \in Nat /\ start.num \in Nat
          /\ (ctl.pos < start.num <=> Passed <= Len(start.listed))
      BY <3>1, PassFacts DEF Passed
    <3>3. Passed > Len(start.listed)
      BY <2>5, <3>1, <3>2
    <3>4. Remaining = {}
      BY <1>0, <3>1, <3>2, <3>3 DEF Remaining
    <3>5. QED
      BY <2>1, <2>3, <2>4, <2>5, <3>4 DEF HeldInv
  <2>6. CASE start' = start /\ ctl'.pos = ctl.pos /\ ctl'.pc \in {"spawn", "bind"}
    <3>1. Remaining' = Remaining
      BY <2>6 DEF Remaining, Passed
    <3>2. QED
      BY <2>1, <2>3, <2>4, <2>6, <3>1 DEF HeldInv
  <2>7. QED
    BY <1>0, <2>1, <2>2, <2>5, <2>6 DEF CtlState
<1>7. CASE StopBegins \/ StopWrites \/ StopJoins \/ StopEnds
  <2>1. ctl'.pc \in {"stop", "join"} \/ (ctl'.pc = "idle" /\ is_running' = FALSE)
    BY <1>0, <1>7 DEF StopBegins, StopWrites, StopJoins, StopEnds, CtlState
  <2>2. QED
    BY <2>1 DEF HeldInv
<1>8. ASSUME NEW t \in Thread, Listen(t) PROVE HeldInv'
  <2>1. UNCHANGED <<ctl, start, is_running, accepter, skipped>>
    BY <1>8, ListenFrame
  <2>2. \A c : InHand(c)' <=> InHand(c)
    BY <2>1 DEF InHand
  <2>3. CASE ctl.pc \in {"stop", "join"}
    BY <2>1, <2>3 DEF HeldInv
  <2>4. CASE buffers' = buffers
    <3>1. Held' = Held
      BY <2>1, <2>4 DEF Held, InHand
    <3>2. Elems(db') \subseteq Elems(db)
      <4>1. db' = db \/ \E c \in Client : Departs(t, c)
        BY <1>8, ListenHolds
      <4>2. ASSUME NEW c \in Client, Departs(t, c) PROVE Elems(db') \subseteq Elems(db)
        <5>1. Elems(db') = Elems(db) \ {c}
          BY <1>0, <4>2, WithoutFacts DEF Departs
        <5>2. QED
          BY <5>1
      <4>3. QED
        BY <4>1, <4>2
    <3>3. QED
      BY <2>1, <3>1, <3>2, HeldFrame
  <2>5. CASE Remove(t)
    <3>1. /\ buffers' = [buffers EXCEPT ![t] = Without(buffers[t], leaving[t])]
          /\ db' = db /\ leaving[t] # None
      BY <1>0, <2>5 DEF Remove, ControlInv, ThreadInv, Stands
    <3>2. Elems(buffers'[t]) = Elems(buffers[t]) \ {leaving[t]}
          /\ \A u \in Thread : u # t => buffers'[u] = buffers[u]
      BY <1>0, <3>1, WithoutFacts
    <3>3. leaving[t] \notin Elems(db)
      BY <1>0, <3>1 DEF HolderInv
    <3>4. \A c \in Elems(db) : c \in Held => c \in Held'
      BY <2>2, <3>2, <3>3, HeldNext, HolderFacts
    <3>5. QED
      BY <2>1, <3>1, <3>4, HeldFrame
  <2>6. CASE StopCommand(t) /\ ctl.pc \notin {"stop", "join"}
    <3>1. Stands(t) /\ Heeds(t) /\ ~Joining(t) /\ pipe[t] \in Seq(Client \cup {"s"})
      BY <2>6 DEF ControlInv, ThreadInv, StopInv, Joining, Types, ThreadTypes
    <3>2. pipe[t] # <<>> /\ Head(pipe[t]) = "s"
      BY <2>6, <3>1 DEF StopCommand, Stands
    <3>3. 1 \in DOMAIN pipe[t] /\ pipe[t][1] = "s"
      BY <3>1, <3>2
    <3>4. QED
      BY <3>1, <3>3 DEF Heeds
  <2>7. CASE HangUp(t) \/ ReceiveData(t) \/ ReceiveEnd(t)
    <3>1. \E i \in Slot : Handles(t, i)
      BY <2>7, LookFacts
    <3>2. buffers' = buffers
      BY <3>1 DEF Handles, shared
    <3>3. QED
      BY <2>4, <3>2
  <2>8. CASE InitialSlots(t) \/ Poll(t) \/ AddCommand(t) \/ ScanEnds(t)
    <3>1. buffers' = buffers
      BY <2>8 DEF InitialSlots, Poll, AddCommand, ScanEnds, shared
    <3>2. QED
      BY <2>4, <3>1
  <2>9. QED
    BY <1>8, <2>3, <2>5, <2>6, <2>7, <2>8 DEF Listen
<1>9. QED
  BY <1>1, <1>2, <1>3, <1>4, <1>5, <1>6, <1>7, <1>8 DEF Next, Accepter, Ctl

-----------------------------------------------------------------------------
\* What a listening thread looks up is there, unless the thread was raced, and only a
\* thread that was made with clients meets a callback that is missing.
LEMMA ListenFails ==
  ASSUME Types, ControlInv, MadeInv, AccountInv, Running, NEW t \in Thread, Listen(t)
  PROVE  \/ failed' = None
         \/ failed' = <<"ub", t>> /\ t \in raced
         \/ failed' = <<"bad_function_call", t>> /\ born[t] # <<>>
         \/ failed' = <<"assert", t>>
<1>1. CASE InitialSlots(t) \/ Poll(t) \/ StopCommand(t) \/ AddCommand(t) \/ ScanEnds(t)
  BY <1>1 DEF InitialSlots, Poll, StopCommand, AddCommand, ScanEnds, world, Running
<1>2. CASE Remove(t)
  BY <1>2 DEF Remove, Running
<1>3. CASE HangUp(t) \/ ReceiveData(t) \/ ReceiveEnd(t)
  <2>1. PICK i \in Slot : Handles(t, i)
    BY <1>3, LookFacts
  <2>2. pc[t] = "scan" /\ revents[t][i] # "none" /\ slots[t][i] \in Client \cup {None}
    BY <2>1 DEF Handles, Types, ThreadTypes
  <2>3. failed' = failed \/ Refuses(t, i)
    BY <2>1 DEF Handles, TakesOut
  <2>4. CASE ~Buffered(t, slots[t][i])
    <3>1. slots[t][i] # None
      BY <2>2 DEF ControlInv, ThreadInv, Stands
    <3>2. slots[t][i] \in Slotted(t)
      BY <2>2, <3>1 DEF Slotted
    <3>3. ~Account(t)
      BY <2>2, <2>4, <3>2 DEF Account, Serves, Buffered
    <3>4. t \in raced
      BY <3>3 DEF AccountInv
    <3>5. QED
      BY <2>3, <2>4, <3>4 DEF Refuses, Running
  <2>5. CASE Buffered(t, slots[t][i]) /\ bound[t] < 2
    <3>1. slots[t][i] \in Elems(born[t])
      BY <2>5 DEF MadeInv, Buffered
    <3>2. born[t] # <<>>
      BY <3>1, SmallLists
    <3>3. QED
      BY <2>3, <2>5, <3>2 DEF Refuses, Running
  <2>6. CASE Buffered(t, slots[t][i]) /\ ~(bound[t] < 2)
    BY <2>3, <2>6 DEF Refuses, Running
  <2>7. QED
    BY <2>4, <2>5, <2>6
<1>4. QED
  BY <1>1, <1>2, <1>3 DEF Listen

LEMMA StepFailure ==
  Types /\ ControlInv /\ MadeInv /\ ListInv /\ AccountInv /\ WalkInv /\ Next
    => FailureExplained'
<1> SUFFICES ASSUME Types, ControlInv, MadeInv, ListInv, AccountInv, WalkInv, Next
             PROVE  FailureExplained'
  OBVIOUS
<1>0. failed = None
  BY DEF Next, Running
<1>1. CASE \/ \E c \in Client : Accept(c) \/ Peer(c)
           \/ Accepter \/ StartBegins \/ StartSpawns \/ StartBinds
           \/ StopBegins \/ StopWrites \/ StopJoins \/ StopEnds
  <2>1. failed' = failed
    BY <1>1 DEF Accept, Peer, Move, Accepter, AccepterLocks, AddTcpClientFull,
       AddTcpClientTakes, AddTcpClientWrites, AccepterSpawns, AccepterBinds, StartBegins,
       StartSpawns, StartBinds, StopBegins, StopWrites, StopJoins, StopEnds, NewThread,
       BindCallback, world
  <2>2. QED
    BY <1>0, <2>1 DEF FailureExplained
<1>2. CASE StartFails
  <2>1. failed' = <<"iterator", ctl.pos>> /\ UNCHANGED <<db, start>> /\ ctl.pc = "spawn"
        /\ WalkFails
    BY <1>2 DEF StartFails, manager
  <2>2. db # start.listed
    BY <2>1, WalkKeepsOn
  <2>3. QED
    BY <2>1, <2>2 DEF FailureExplained
<1>3. ASSUME NEW t \in Thread, Listen(t) PROVE FailureExplained'
  <2>1. UNCHANGED <<raced, born>>
    BY <1>3, ListenFrame
  <2>2. \/ failed' = None
        \/ failed' = <<"ub", t>> /\ t \in raced
        \/ failed' = <<"bad_function_call", t>> /\ born[t] # <<>>
        \/ failed' = <<"assert", t>>
    BY <1>0, <1>3, ListenFails DEF Running
  <2>3. QED
    BY <2>1, <2>2 DEF FailureExplained
<1>4. QED
  BY <1>1, <1>2, <1>3 DEF Next, Ctl

-----------------------------------------------------------------------------
\* The layers together are an invariant: each step keeps every one.
LEMMA StepIInv == IInv /\ [Next]_vars => IInv'
<1> SUFFICES ASSUME IInv, [Next]_vars PROVE IInv'
  OBVIOUS
<1>1. CASE Next
  <2>1. Types' /\ ControlInv' /\ CountInv'
    BY <1>1, StepTypes, StepControl, StepCount DEF IInv
  <2>2. BornInv' /\ HolderInv' /\ MadeInv' /\ ListInv'
    BY <1>1, StepBorn, StepHolder, StepMade, StepList DEF IInv
  <2>3. AccountInv' /\ WalkInv'
    BY <1>1, StepAccount, StepWalk DEF IInv
  <2>4. HeldInv' /\ FailureExplained'
    BY <1>1, StepHeld, StepFailure DEF IInv
  <2>5. QED
    BY <2>1, <2>2, <2>3, <2>4 DEF IInv
<1>2. CASE UNCHANGED vars
  <2>1. UNCHANGED <<threads, threads_mtx, is_running, ctl, start, accepter>>
        /\ UNCHANGED <<pc, slots, poll_fds_num, revents, leaving, buffers, pipe, bound>>
        /\ UNCHANGED <<sock, db, failed, notified, starts, born, raced, relisted, skipped>>
    BY <1>2 DEF vars, manager, listener, shared, world, history
  <2>2. Types' /\ CountInv'
    BY <2>1 DEF IInv, Types, ManagerTypes, ThreadTypes, WorldTypes, CountInv, PollCount,
       Used
  <2>3. ControlInv'
    BY <2>1 DEF IInv, ControlInv, LockInv, VectorInv, ThreadInv, StopInv, Stands, Heeds,
       Joined, Joining, Unbound
  <2>4. BornInv' /\ HolderInv' /\ MadeInv' /\ ListInv' /\ FailureExplained'
    BY <2>1 DEF IInv, BornInv, Untouched, HolderInv, Alone, InHand, MadeInv, ListInv,
       FailureExplained
  <2>5. AccountInv'
    BY <2>1 DEF IInv, AccountInv, Account, Serves, Slotted, Commands, Told, TellingOf, Used
  <2>6. WalkInv' /\ HeldInv'
    BY <2>1 DEF IInv, WalkInv, Walks, OnTrack, NobodyLeft, Extended, Passed, HeldInv, Held,
       InHand, Remaining
  <2>7. QED
    BY <2>2, <2>3, <2>4, <2>5, <2>6 DEF IInv
<1>3. QED
  BY <1>1, <1>2

LEMMA Invariance == Spec => []IInv
<1>1. Init => IInv
  BY InitIInv
<1>2. IInv /\ [Next]_vars => IInv'
  BY StepIInv
<1>3. QED
  BY <1>1, <1>2, PTL DEF Spec

\* A thread that has nothing to come looks at exactly the clients it holds, each once.
LEMMA ServesExactly ==
  ASSUME Types, ControlInv, CountInv, NEW t \in Thread, Account(t), pc[t] = "poll",
         pipe[t] = <<>>, ~TellingOf(t)
  PROVE  /\ Polled(t) = Elems(buffers[t])
         /\ Cardinality(Used(t)) = Len(buffers[t])
<1> DEFINE B == buffers[t]
           n == Len(B)
           f == [i \in Used(t) |-> PlaceOf(slots[t][i], B)]
<1>1. Slotted(t) = Elems(B)
  <2>1. Commands(t) = {} /\ Told(t) = {}
    BY SmallLists DEF Commands, Told
  <2>2. leaving[t] = None
    BY DEF ControlInv, ThreadInv, Stands
  <2>3. QED
    BY <2>1, <2>2 DEF Account, Serves
<1>2. Distinct(B) /\ \A i, j \in Used(t) : slots[t][i] = slots[t][j] => i = j
  BY DEF Account, Serves
<1>3. B \in Seq(Client) /\ n \in Nat
  BY DEF Types, ThreadTypes
<1>4. \A i \in Used(t) : i \in Slot /\ i < poll_fds_num[t]
  BY CountFacts DEF CountInv, Used
<1>5. Polled(t) = Slotted(t)
  <2>1. \A i \in Slot : slots[t][i] # None => i < poll_fds_num[t]
    BY <1>4 DEF Used
  <2>2. QED
    BY <2>1 DEF Polled, Slotted
<1>6. \A i \in Used(t) : slots[t][i] \in Elems(B)
  BY <1>1 DEF Slotted, Used
<1> HIDE DEF B, n
<1>7. \A i \in Used(t) : f[i] \in DOMAIN B /\ B[f[i]] = slots[t][i]
  BY <1>3, <1>6, PlaceFacts
<1>8. \A j \in DOMAIN B : \E i \in Used(t) : f[i] = j
  <2> TAKE j \in DOMAIN B
  <2>1. B[j] \in Slotted(t)
    BY <1>1 DEF Elems
  <2>2. PICK i \in Used(t) : slots[t][i] = B[j]
    BY <2>1 DEF Slotted, Used
  <2>3. B[f[i]] = B[j] /\ f[i] \in DOMAIN B
    BY <1>7, <2>2
  <2> HIDE DEF f
  <2>4. f[i] = j
    BY <1>2, <2>3 DEF Distinct
  <2>5. QED
    BY <2>4
<1>9. \A i, j \in Used(t) : f[i] = f[j] => i = j
  BY <1>2, <1>7
<1>10. DOMAIN B = 1..n
  BY <1>3 DEF n
<1>11. f \in Bijection(Used(t), 1..n)
  <2>1. f \in [Used(t) -> 1..n]
    BY <1>7, <1>10
  <2> HIDE DEF f
  <2>2. QED
    BY <1>8, <1>9, <1>10, <2>1 DEF Bijection, Injection, IsInjective, Surjection
<1>12. IsFiniteSet(Used(t))
  <2>1. IsFiniteSet(Slot)
    BY MaxClientsAssumption, FS_Interval DEF Slot
  <2>2. Used(t) \in SUBSET Slot
    BY DEF Used
  <2>3. QED
    BY <2>1, <2>2, FS_Subset
<1>13. Cardinality(1..n) = Cardinality(Used(t))
  <2>1. ExistsBijection(Used(t), 1..n)
    BY <1>11 DEF ExistsBijection
  <2>2. QED
    BY <1>12, <2>1, FS_Bijection
<1>14. Cardinality(1..n) = n
  BY <1>3, FS_Interval
<1>15. QED
  BY <1>1, <1>5, <1>13, <1>14 DEF B, n

-----------------------------------------------------------------------------
\* However the threads interleave, every variable keeps to its type, no thread holds
\* more clients than poll has slots for, and poll_fds_num is one more than the last slot
\* in use (PollCountExact), as AddCommand and RemoveFDFromPoll rely on.
THEOREM CountIsExact == Spec => []PollCountExact
<1>1. IInv => PollCountExact
  <2> SUFFICES ASSUME IInv PROVE PollCountExact
    OBVIOUS
  <2>1. ManagerTypes /\ ThreadTypes /\ WorldTypes /\ CountInv
    BY DEF IInv, Types
  <2>2. TypeOK
    BY <2>1 DEF ManagerTypes, ThreadTypes, WorldTypes, TypeOK, CtlState, AccepterState,
       Place_
  <2>3. \A t \in Thread : PollCount(t)
    BY <2>1 DEF CountInv
  <2>4. QED
    BY <2>2, <2>3 DEF PollCountExact, PollCount, Used
<1>2. QED
  BY <1>1, Invariance, PTL

\* A thread that is about to poll and has no command to come polls the very clients its
\* tcp_clients_buffers hold, each in one slot, unless it was raced (ServesItsClients):
\* the two copies that different threads change under different locks agree.
THEOREM EveryClientIsPolled == Spec => []ServesItsClients
<1>1. IInv => ServesItsClients
  <2> SUFFICES ASSUME IInv, NEW t \in Thread, pc[t] = "poll", pipe[t] = <<>>, ~TellingOf(t),
                      t \notin raced
               PROVE  /\ Polled(t) = Elems(buffers[t])
                      /\ Cardinality({i \in Slot : slots[t][i] # None}) = Len(buffers[t])
    BY DEF ServesItsClients
  <2>1. Account(t)
    BY DEF IInv, AccountInv
  <2>2. QED
    BY <2>1, ServesExactly DEF IInv, Used
<1>2. QED
  BY <1>1, Invariance, PTL

\* The add command always finds a free slot, unless its thread was raced
\* (CommandFindsSlot): the check of AddTcpClient against MAX_CLIENTS is enough.
THEOREM AddFindsSlot == Spec => []CommandFindsSlot
<1>1. IInv => CommandFindsSlot
  <2> SUFFICES ASSUME IInv, NEW t \in Thread, pc[t] = "command", Head(pipe[t]) # "s",
                      t \notin raced
               PROVE  FreeSlots(t) # {}
    BY DEF CommandFindsSlot
  <2>1. Account(t)
    BY DEF IInv, AccountInv
  <2>2. QED
    BY <2>1, FreeSlotExists DEF IInv
<1>2. QED
  BY <1>1, Invariance, PTL

\* The process ends in no other way than FailureExplained names: a lookup misses only in
\* a raced thread, Start's iterator fails only when the list has changed under it, and
\* only a thread made with clients calls a callback it does not have yet.
THEOREM FailuresHaveCauses == Spec => []FailureExplained
<1>1. IInv => FailureExplained
  BY DEF IInv
<1>2. QED
  BY <1>1, Invariance, PTL

\* Two threads never have the same client and no client is reported twice, but whom a
\* Start listed while somebody had it already (OneThreadPerClient).
THEOREM NoClientIsShared == Spec => []OneThreadPerClient
<1>1. IInv => OneThreadPerClient
  <2> SUFFICES ASSUME IInv PROVE OneThreadPerClient
    OBVIOUS
  <2>1. \A c \in Client \ relisted : Alone(c)
    BY DEF IInv, HolderInv
  <2>2. ASSUME NEW t \in Thread, NEW u \in Thread, t # u,
               NEW c \in Elems(buffers[t]) \cap Elems(buffers[u])
        PROVE  c \in relisted
    <3>1. c \in Client
      BY DEF IInv, Types, ThreadTypes, Elems
    <3>2. QED
      BY <2>1, <2>2, <3>1 DEF Alone
  <2>3. ASSUME NEW c \in Client, notified[c] > 1 PROVE c \in relisted
    <3>1. notified[c] \in 0..2
      BY DEF IInv, Types, WorldTypes
    <3>2. QED
      BY <2>1, <2>3, <3>1 DEF Alone
  <2>4. QED
    BY <2>2, <2>3 DEF OneThreadPerClient
<1>2. QED
  BY <1>1, Invariance, PTL

\* No listening thread escapes Stop (NoOrphanThread): one that lives and is not in the
\* vector is being put there under threads_mtx.
THEOREM StopFindsEveryThread == Spec => []NoOrphanThread
<1>1. IInv => NoOrphanThread
  <2> SUFFICES ASSUME IInv, NEW t \in Thread, pc[t] # "unborn", t \notin Elems(threads)
               PROVE  threads_mtx # "free" /\ bound[t] < 2
    BY DEF NoOrphanThread
  <2>1. bound[t] < 2 /\ (accepter.pc = "bind" \/ ctl.pc = "bind")
    BY DEF IInv, ControlInv, VectorInv
  <2>2. QED
    BY <2>1 DEF IInv, ControlInv, LockInv
<1>2. QED
  BY <1>1, Invariance, PTL

\* While the service runs, a client of the database is held by a thread or in the
\* acceptor's hands, over every Stop and Start, but whom a Start was not told of or
\* missed because the list changed (ListedIsHeld).
THEOREM NobodyIsForgotten == Spec => []ListedIsHeld
<1>1. IInv => ListedIsHeld
  <2> SUFFICES ASSUME IInv, is_running, ctl.pc = "idle", NEW c \in Elems(db)
               PROVE  c \in HandedOver \cup skipped
    BY DEF ListedIsHeld
  <2>1. c \in Held \cup skipped
    BY DEF IInv, HeldInv
  <2>2. c \in Held => c \in HandedOver
    BY HolderFacts DEF InHand
  <2>3. QED
    BY <2>1, <2>2
<1>2. QED
  BY <1>1, Invariance, PTL

==============================================================================
