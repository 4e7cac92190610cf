----------------------- MODULE TcpClientServiceManager -----------------------
(***************************************************************************)
(* The service manager of src/TcpClientServiceManager.cpp: a vector of     *)
(* listening threads, each serving at most MaxClients connections with     *)
(* poll, to which the acceptor thread hands every new connection and which *)
(* the command line's thread starts and stops.                             *)
(*                                                                         *)
(* Processes: the acceptor thread (accepter), the thread that calls Start  *)
(* and Stop (ctl), the listening threads, and the remote ends of the       *)
(* connections.  A step lies between two accesses to what the others share *)
(* (threads under threads_mtx, a thread's tcp_clients_buffers under its    *)
(* buffers_mtx, its command pipe, its callbacks).  A client stands for its *)
(* TcpClient object and for its socket, each of which is used once.  The   *)
(* demarcation of a client's bytes is TcpMsgDemarcar's business and the    *)
(* message queue MsgsQueue's: here a chunk of data completes no message,   *)
(* completes one, or is refused.                                           *)
(***************************************************************************)
EXTENDS Integers, Sequences, FiniteSets

CONSTANTS Client,
          None,          \* poll slot with fd 0; no process has failed
          MaxClients,    \* MAX_CLIENTS
          MaxThreads,    \* bound: listening threads alive at a time
          MaxStarts,     \* bound: how often Start is effective
          PeerMoves      \* what remote ends do: "send", "fin", "rst"

ASSUME MaxClientsAssumption == MaxClients \in Nat \ {0}
ASSUME MaxThreadsAssumption == MaxThreads \in Nat
ASSUME ClientAssumption == {None, "s"} \cap Client = {}   \* "s": the stop command
ASSUME PeerMovesAssumption == PeerMoves \subseteq {"send", "fin", "rst"}

Thread == 1..MaxThreads
Slot == 1..MaxClients

VARIABLES
  threads,      \* the vector: the listening threads, oldest first
  threads_mtx,  \* who holds it: "free", "accepter" or "ctl"
  is_running,
  ctl,          \* [pc, pos]: the caller of Start and Stop, and its loop index
  start,        \* [live, num, last, listed]: the list Start goes through is the
                \* database's, threads_num, last_client_it (None: the end), and
                \* the list as it was when Start began
  accepter,     \* [pc, client, pos]: the acceptor thread
  pc,           \* listening thread -> where it stands
  buffers,      \* listening thread -> its tcp_clients_buffers
  slots,        \* listening thread -> its poll_fds[1..MAX_CLIENTS].fd
  poll_fds_num, \* listening thread -> how many slots poll looks at, with 0
  revents,      \* listening thread -> what poll said of the slots
  leaving,      \* listening thread -> the client it is taking out
  pipe,         \* listening thread -> commands not read yet
  bound,        \* listening thread -> callbacks assigned so far: 0, 1, 2
  sock,         \* client -> its socket
  db,           \* the connected clients, as TcpClientDBManager lists them
  failed,       \* None, or how and in which thread the process ended
  \* history
  starts,       \* how often Start was effective
  born,         \* listening thread -> the clients it was created with
  raced,        \* listening threads given a client before they first looked at
                \* their buffers, or one they had already
  relisted,     \* clients a Start listed that were handed over as well
  skipped,      \* clients a Start was not told of, or that were listed when the
                \* list changed under it
  notified      \* client -> how often its disconnection was reported

manager == <<threads, threads_mtx, is_running, ctl, start>>
listener == <<pc, slots, poll_fds_num, revents, leaving>>
shared == <<buffers, pipe, bound>>
world == <<sock, db, failed, notified>>
history == <<starts, born, raced, relisted, skipped>>
vars == <<manager, accepter, listener, shared, world, history>>

Elems(s) == {s[i] : i \in DOMAIN s}
Least(S) == CHOOSE i \in S : \A j \in S : i <= j
Greatest(S) == CHOOSE i \in S : \A j \in S : j <= i
PlaceOf(c, s) == CHOOSE i \in DOMAIN s : s[i] = c

\* std::list::remove: all that is not c, in its order.
Rank(kept, i) == Cardinality({j \in kept : j <= i})
Without(s, c) == LET kept == {i \in DOMAIN s : s[i] # c}
                 IN [n \in 1..Cardinality(kept) |->
                       s[CHOOSE i \in kept : Rank(kept, i) = n]]

NoSlots == [i \in Slot |-> None]
NoEvents == [i \in Slot |-> "none"]
NoStart == [live |-> FALSE, num |-> 0, last |-> None, listed |-> <<>>]

Init == /\ threads = <<>> /\ threads_mtx = "free" /\ is_running = FALSE
        /\ ctl = [pc |-> "idle", pos |-> 0] /\ start = NoStart
        /\ accepter = [pc |-> "idle", client |-> None, pos |-> 0]
        /\ pc = [t \in Thread |-> "unborn"]
        /\ buffers = [t \in Thread |-> <<>>]
        /\ slots = [t \in Thread |-> NoSlots]
        /\ poll_fds_num = [t \in Thread |-> 1]
        /\ revents = [t \in Thread |-> NoEvents]
        /\ leaving = [t \in Thread |-> None]
        /\ pipe = [t \in Thread |-> <<>>]
        /\ bound = [t \in Thread |-> 0]
        /\ sock = [c \in Client |-> "unborn"]
        /\ db = <<>> /\ failed = None
        /\ starts = 0 /\ born = [t \in Thread |-> <<>>]
        /\ raced = {} /\ relisted = {} /\ skipped = {}
        /\ notified = [c \in Client |-> 0]

-----------------------------------------------------------------------------
\* StartNewThread: the constructor of the listening thread fills its buffers
\* and lets it run; its two callbacks are assigned afterwards.
Unborn == {t \in Thread : pc[t] = "unborn"}

NewThread(t, clients) ==
  /\ pc' = [pc EXCEPT ![t] = "init"]
  /\ buffers' = [buffers EXCEPT ![t] = clients]
  /\ born' = [born EXCEPT ![t] = clients]
  /\ UNCHANGED <<slots, poll_fds_num, revents, leaving, pipe, bound, world,
                 raced>>

\* The thread created last is the one whose callbacks are not both there.
Unbound == {t \in Thread : pc[t] # "unborn" /\ bound[t] < 2}

\* Mutant of BindCallback: the thread is not kept.
BindAndForget(t) ==
  /\ bound' = [bound EXCEPT ![t] = @ + 1]
  /\ UNCHANGED <<threads, listener, buffers, pipe, world, history>>

\* StartNewThread assigns on_msg_rcvd, then on_client_disconnected, and its caller
\* keeps the thread.
BindCallback(t) ==
  /\ bound' = [bound EXCEPT ![t] = @ + 1]
  /\ threads' = IF bound[t] = 1 THEN Append(threads, t) ELSE threads
  /\ UNCHANGED <<listener, buffers, pipe, world, history>>

-----------------------------------------------------------------------------
\* The acceptor thread: OnClientConnected enters the client in the database and
\* calls StartListenTcpClient.
Accept(c) ==
  /\ accepter.pc = "idle"
  /\ sock[c] = "unborn"
  /\ sock' = [sock EXCEPT ![c] = "open"]
  /\ db' = Append(db, c)
  /\ accepter' = [pc |-> "lock", client |-> c, pos |-> 1]
  /\ UNCHANGED <<manager, listener, shared, failed, notified, history>>

AccepterLocks ==
  /\ accepter.pc = "lock"
  /\ threads_mtx = "free"
  /\ threads_mtx' = "accepter"
  /\ accepter' = [accepter EXCEPT !.pc = "try"]
  /\ UNCHANGED <<threads, is_running, ctl, start, listener, shared, world, history>>

\* AddTcpClient under buffers_mtx: a full thread refuses, and the loop goes on.
AddTcpClientFull ==
  /\ accepter.pc = "try"
  /\ accepter.pos <= Len(threads)
  /\ Len(buffers[threads[accepter.pos]]) = MaxClients
  /\ accepter' = [accepter EXCEPT !.pos = @ + 1]
  /\ UNCHANGED <<manager, listener, shared, world, history>>

\* Mutant of AddTcpClientTakes: the loop goes on after the client was taken in.
AddTcpClientTakesOn ==
  /\ accepter.pc = "try"
  /\ accepter.pos <= Len(threads)
  /\ LET t == threads[accepter.pos] IN
       /\ Len(buffers[t]) # MaxClients
       /\ buffers' = [buffers EXCEPT ![t] = Append(@, accepter.client)]
  /\ accepter' = [accepter EXCEPT !.pos = @ + 1]
  /\ UNCHANGED <<manager, listener, pipe, bound, world, history>>

\* The first thread with room takes the client in.
AddTcpClientTakes ==
  /\ accepter.pc = "try"
  /\ accepter.pos <= Len(threads)
  /\ LET t == threads[accepter.pos] IN
       /\ Len(buffers[t]) # MaxClients
       /\ buffers' = [buffers EXCEPT ![t] = Append(@, accepter.client)]
       /\ raced' = IF pc[t] = "init" \/ accepter.client \in Elems(buffers[t])
                   THEN raced \cup {t} ELSE raced
  /\ accepter' = [accepter EXCEPT !.pc = "write"]
  /\ UNCHANGED <<manager, listener, pipe, bound, world, starts, born, relisted, skipped>>

\* AddTcpClient after buffers_mtx: tell the thread, and leave.
AddTcpClientWrites ==
  /\ accepter.pc = "write"
  /\ LET t == threads[accepter.pos] IN
       pipe' = [pipe EXCEPT ![t] = Append(@, accepter.client)]
  /\ threads_mtx' = "free"
  /\ accepter' = [pc |-> "idle", client |-> None, pos |-> 0]
  /\ UNCHANGED <<threads, is_running, ctl, start, listener, buffers, bound,
                 world, history>>

\* No thread had room, or there is none: the client gets a thread of its own.
AccepterSpawns ==
  /\ accepter.pc = "try"
  /\ accepter.pos > Len(threads)
  /\ Unborn # {}                         \* bound: MaxThreads
  /\ NewThread(Least(Unborn), <<accepter.client>>)
  /\ accepter' = [accepter EXCEPT !.pc = "bind"]
  /\ UNCHANGED <<manager, starts, relisted, skipped>>

AccepterBinds ==
  /\ accepter.pc = "bind"
  /\ \E t \in Unbound :
       /\ BindCallback(t)
       /\ IF bound[t] = 1
          THEN /\ threads_mtx' = "free"
               /\ accepter' = [pc |-> "idle", client |-> None, pos |-> 0]
          ELSE UNCHANGED <<threads_mtx, accepter>>
  /\ UNCHANGED <<is_running, ctl, start>>

Accepter == \/ AccepterLocks \/ AddTcpClientFull \/ AddTcpClientTakes
            \/ AddTcpClientWrites \/ AccepterSpawns \/ AccepterBinds

-----------------------------------------------------------------------------
\* Start walks through a list with one iterator and makes one thread per
\* MaxClients clients and one more.  The server's own start passes an empty list,
\* "no disable-client-listen" the database's, by reference: the acceptor and the
\* listening threads change it while Start walks, and its size is asked for in
\* every pass of the loop.
HandedOver == (UNION {Elems(buffers[t]) : t \in Thread}) \cup {accepter.client}

StartBegins ==
  /\ ctl.pc = "idle"
  /\ ~is_running
  /\ starts < MaxStarts
  /\ threads_mtx = "free"
  /\ threads_mtx' = "ctl"
  /\ \E live \in BOOLEAN :
       LET list == IF live THEN db ELSE <<>> IN
         /\ start' = [live |-> live, num |-> Len(list) \div MaxClients + 1,
                      last |-> IF list = <<>> THEN None ELSE list[1],
                      listed |-> list]
         /\ skipped' = skipped \cup ((Elems(db) \ Elems(list)) \ HandedOver)
  /\ ctl' = [pc |-> "spawn", pos |-> 0]
  /\ starts' = starts + 1
  /\ UNCHANGED <<threads, is_running, accepter, listener, shared, world, born,
                 raced, relisted>>

List == IF start.live THEN db ELSE <<>>

\* Where last_client_it stands, and how far the pass advances it.
Place == IF start.last = None THEN Len(List) + 1 ELSE PlaceOf(start.last, List)

\* Mutant of Advance: the last stretch is as long as the others.
AdvanceFull == IF List = <<>> THEN 0 ELSE MaxClients

Advance == LET left == Len(List) - ctl.pos * MaxClients
           IN IF left < MaxClients THEN left ELSE MaxClients

\* Where it stands afterwards, and what it passes: the clients of one thread.
PlaceAfter == Place + Advance
Stretch == SubSeq(List, Place, PlaceAfter - 1)

\* The node under the iterator is gone, or the stretch from the old position to
\* the new one runs over the list's end.
Dangling == start.last # None /\ start.last \notin Elems(List)
WalkFails == IF Dangling THEN TRUE
             ELSE List # <<>> /\ (Advance < 0 \/ Place + Advance > Len(List) + 1)

StartSpawns ==
  /\ ctl.pc = "spawn"
  /\ ~WalkFails
  /\ Unborn # {}                         \* bound: MaxThreads
  /\ NewThread(Least(Unborn), Stretch)
  /\ relisted' = relisted \cup (Elems(Stretch) \cap HandedOver)
  /\ start' = [start EXCEPT !.last = IF PlaceAfter \in DOMAIN List THEN List[PlaceAfter]
                                                                   ELSE None]
  /\ skipped' = IF List = start.listed THEN skipped
                ELSE skipped \cup Elems(List) \cup Elems(start.listed)
  /\ ctl' = [pc |-> "bind", pos |-> ctl.pos + 1]
  /\ UNCHANGED <<threads, threads_mtx, is_running, accepter, starts>>

StartFails ==
  /\ ctl.pc = "spawn"
  /\ WalkFails
  /\ failed' = <<"iterator", ctl.pos>>
  /\ UNCHANGED <<manager, accepter, listener, shared, sock, db, notified, history>>

StartBinds ==
  /\ ctl.pc = "bind"
  /\ \E t \in Unbound : BindCallback(t) /\
       IF bound[t] = 0 THEN UNCHANGED <<threads_mtx, is_running, ctl, start>>
       ELSE IF ctl.pos = start.num
       THEN /\ threads_mtx' = "free"
            /\ is_running' = TRUE
            /\ ctl' = [pc |-> "idle", pos |-> 0]
            /\ start' = NoStart
       ELSE /\ ctl' = [ctl EXCEPT !.pc = "spawn"]
            /\ UNCHANGED <<threads_mtx, is_running, start>>
  /\ UNCHANGED accepter

\* Stop destroys the listening threads one after the other: each is told to
\* stop and joined.
StopBegins ==
  /\ ctl.pc = "idle"
  /\ is_running
  /\ threads_mtx = "free"
  /\ threads_mtx' = "ctl"
  /\ ctl' = [pc |-> "stop", pos |-> 1]
  /\ UNCHANGED <<threads, is_running, start, accepter, listener, shared, world, history>>

\* Mutant of StopWrites: joins the thread without telling it to stop.
StopWritesNot ==
  /\ ctl.pc = "stop"
  /\ ctl.pos <= Len(threads)
  /\ ctl' = [ctl EXCEPT !.pc = "join"]
  /\ UNCHANGED <<threads, threads_mtx, is_running, start, accepter, listener,
                 shared, world, history>>

StopWrites ==
  /\ ctl.pc = "stop"
  /\ ctl.pos <= Len(threads)
  /\ pipe' = [pipe EXCEPT ![threads[ctl.pos]] = Append(@, "s")]
  /\ ctl' = [ctl EXCEPT !.pc = "join"]
  /\ UNCHANGED <<threads, threads_mtx, is_running, start, accepter, listener,
                 buffers, bound, world, history>>

StopJoins ==
  /\ ctl.pc = "join"
  /\ LET t == threads[ctl.pos] IN
       /\ pc[t] = "exited"
       /\ pc' = [pc EXCEPT ![t] = "unborn"]
       /\ bound' = [bound EXCEPT ![t] = 0]
       /\ pipe' = [pipe EXCEPT ![t] = <<>>]
       /\ poll_fds_num' = [poll_fds_num EXCEPT ![t] = 1]
       /\ born' = [born EXCEPT ![t] = <<>>]
       /\ raced' = raced \ {t}
  /\ ctl' = [pc |-> "stop", pos |-> ctl.pos + 1]
  /\ UNCHANGED <<threads, threads_mtx, is_running, start, accepter, slots,
                 revents, leaving, buffers, world, starts, relisted, skipped>>

StopEnds ==
  /\ ctl.pc = "stop"
  /\ ctl.pos > Len(threads)
  /\ threads' = <<>>
  /\ is_running' = FALSE
  /\ threads_mtx' = "free"
  /\ ctl' = [pc |-> "idle", pos |-> 0]
  /\ UNCHANGED <<start, accepter, listener, shared, world, history>>

Ctl == StartSpawns \/ StartFails \/ StartBinds \/ StopWrites \/ StopJoins \/ StopEnds

-----------------------------------------------------------------------------
\* A listening thread.  First it copies its buffers to the poll slots.
InitialSlots(t) ==
  /\ pc[t] = "init"
  /\ slots' = [slots EXCEPT ![t] =
       [i \in Slot |-> IF i <= Len(buffers[t]) THEN buffers[t][i] ELSE None]]
  /\ poll_fds_num' = [poll_fds_num EXCEPT ![t] = 1 +
       (IF Len(buffers[t]) < MaxClients THEN Len(buffers[t]) ELSE MaxClients)]
  /\ pc' = [pc EXCEPT ![t] = "poll"]
  /\ UNCHANGED <<manager, accepter, revents, leaving, shared, world, history>>

\* The socket of a client nobody refers to any more is closed, and an fd that
\* is closed or 0 reports nothing the code looks at.
Referenced(c) == c \in Elems(db) \cup HandedOver

Event(c) == IF c = None \/ ~Referenced(c) \/ sock[c] = "open" THEN "none"
            ELSE IF sock[c] = "rst" THEN "hup" ELSE "in"

Poll(t) ==
  /\ pc[t] = "poll"
  /\ revents' = [revents EXCEPT ![t] =
       [i \in Slot |-> IF i < poll_fds_num[t] THEN Event(slots[t][i])
                                              ELSE revents[t][i]]]
  /\ pipe[t] # <<>> \/ revents'[t] # NoEvents
  /\ pc' = [pc EXCEPT ![t] = IF pipe[t] # <<>> THEN "command" ELSE "scan"]
  /\ UNCHANGED <<manager, accepter, slots, poll_fds_num, leaving, shared, world,
                 history>>

StopCommand(t) ==
  /\ pc[t] = "command"
  /\ Head(pipe[t]) = "s"
  /\ pipe' = [pipe EXCEPT ![t] = Tail(@)]
  /\ slots' = [slots EXCEPT ![t] = NoSlots]
  /\ revents' = [revents EXCEPT ![t] = NoEvents]
  /\ buffers' = [buffers EXCEPT ![t] = <<>>]
  /\ pc' = [pc EXCEPT ![t] = "exited"]
  /\ UNCHANGED <<manager, accepter, poll_fds_num, leaving, bound, world, history>>

FreeSlots(t) == {i \in Slot : slots[t][i] = None}

\* Mutant of AddCommand: poll_fds_num does not grow.
AddCommandUncounted(t) ==
  /\ pc[t] = "command"
  /\ Head(pipe[t]) # "s"
  /\ pipe' = [pipe EXCEPT ![t] = Tail(@)]
  /\ slots' = [slots EXCEPT ![t] =
       [i \in Slot |-> IF FreeSlots(t) # {} /\ i = Least(FreeSlots(t))
                       THEN Head(pipe[t]) ELSE @[i]]]
  /\ pc' = [pc EXCEPT ![t] = "scan"]
  /\ UNCHANGED <<manager, accepter, poll_fds_num, revents, leaving, buffers, bound,
                 world, history>>

\* The client goes to the first slot with fd 0; without one it is dropped.  The
\* fd comes out of the command as it went in (lines 71-74 and 127-130), which
\* holds as long as the byte behind the unterminated buff is not a digit.
AddCommand(t) ==
  /\ pc[t] = "command"
  /\ Head(pipe[t]) # "s"
  /\ pipe' = [pipe EXCEPT ![t] = Tail(@)]
  /\ IF FreeSlots(t) = {}
     THEN UNCHANGED <<slots, poll_fds_num>>
     ELSE LET i == Least(FreeSlots(t)) IN
            /\ slots' = [slots EXCEPT ![t][i] = Head(pipe[t])]
            /\ poll_fds_num' = [poll_fds_num EXCEPT ![t] =
                                  IF i = @ THEN i + 1 ELSE @]
  /\ pc' = [pc EXCEPT ![t] = "scan"]
  /\ UNCHANGED <<manager, accepter, revents, leaving, buffers, bound, world, history>>

\* The loop over the slots handles those poll reported, in their order, and
\* every branch clears the report.
Reported(t) == {i \in Slot : i < poll_fds_num[t] /\ revents[t][i] # "none"}
Current(t) == Least(Reported(t))
Buffered(t, c) == c \in Elems(buffers[t])

ScanEnds(t) ==
  /\ pc[t] = "scan"
  /\ Reported(t) = {}
  /\ pc' = [pc EXCEPT ![t] = "poll"]
  /\ UNCHANGED <<manager, accepter, slots, poll_fds_num, revents, leaving, shared,
                 world, history>>

\* Mutant of TakeOut: the slot keeps its fd.
TakeOutKeepsSlot(t, i, next) ==
  LET c == slots[t][i]
  IN /\ notified' = [notified EXCEPT ![c] = IF @ < 2 THEN @ + 1 ELSE @]
     /\ db' = Without(db, c)
     /\ leaving' = [leaving EXCEPT ![t] = c]
     /\ pc' = [pc EXCEPT ![t] = next]
     /\ UNCHANGED <<slots, poll_fds_num>>

\* Mutant of TakeOut: poll_fds_num shrinks by one, whichever slot was last.
TakeOutShrinksByOne(t, i, next) ==
  LET c == slots[t][i]
  IN /\ notified' = [notified EXCEPT ![c] = IF @ < 2 THEN @ + 1 ELSE @]
     /\ db' = Without(db, c)
     /\ slots' = [slots EXCEPT ![t][i] = None]
     /\ poll_fds_num' = [poll_fds_num EXCEPT ![t] = @ - 1]
     /\ leaving' = [leaving EXCEPT ![t] = c]
     /\ pc' = [pc EXCEPT ![t] = next]

\* Mutant of TakeOut: the client stays in the database.
TakeOutStaysListed(t, i, next) ==
  LET c == slots[t][i]
  IN /\ notified' = [notified EXCEPT ![c] = IF @ < 2 THEN @ + 1 ELSE @]
     /\ slots' = [slots EXCEPT ![t][i] = None]
     /\ poll_fds_num' = [poll_fds_num EXCEPT ![t] = 1]
     /\ leaving' = [leaving EXCEPT ![t] = c]
     /\ pc' = [pc EXCEPT ![t] = next]
     /\ UNCHANGED db

\* on_client_disconnected, which reports the client and takes it out of the
\* database, and RemoveFDFromPoll, which also lets poll_fds_num shrink.
TakeOut(t, i, next) ==
  LET c == slots[t][i]
      left == [slots[t] EXCEPT ![i] = None]
      occupied == {j \in 1..(poll_fds_num[t] - 1) : left[j] # None}
  IN /\ notified' = [notified EXCEPT ![c] = IF @ < 2 THEN @ + 1 ELSE @]
     /\ db' = Without(db, c)
     /\ slots' = [slots EXCEPT ![t] = left]
     /\ poll_fds_num' = [poll_fds_num EXCEPT ![t] =
                           IF occupied = {} THEN 1 ELSE Greatest(occupied) + 1]
     /\ leaving' = [leaving EXCEPT ![t] = c]
     /\ pc' = [pc EXCEPT ![t] = next]

Stays == UNCHANGED <<slots, poll_fds_num, leaving, pc, notified, db>>

\* FindTcpClientAndBufferByFD dereferences end() when the client is not there,
\* and calling a std::function nothing was assigned to throws out of the thread:
\* either ends the process.
Unless(t, i, callbacks, Step) ==
  CASE ~Buffered(t, slots[t][i]) -> failed' = <<"ub", t>> /\ Stays
    [] Buffered(t, slots[t][i]) /\ bound[t] < callbacks ->
         failed' = <<"bad_function_call", t>> /\ Stays
    [] OTHER -> Step /\ UNCHANGED failed

ClearReport(t, i) == revents' = [revents EXCEPT ![t][i] = "none"]

HangUp(t) ==
  /\ pc[t] = "scan" /\ Reported(t) # {}
  /\ LET i == Current(t) IN
       /\ revents[t][i] = "hup"
       /\ ClearReport(t, i)
       /\ Unless(t, i, 2, TakeOut(t, i, "remove"))
  /\ UNCHANGED <<manager, accepter, shared, sock, history>>

\* recv returned bytes: they complete no message, or one, which is passed to
\* on_msg_rcvd, or the demarcar refuses them and the client is taken out.  With
\* nothing to read recv blocks: the sockets are blocking.
ReceiveData(t) ==
  /\ pc[t] = "scan" /\ Reported(t) # {}
  /\ LET i == Current(t)
         c == slots[t][i]
     IN /\ revents[t][i] = "in"
        /\ sock[c] \in {"data", "datafin"}
        /\ sock' = [sock EXCEPT ![c] = IF @ = "data" THEN "open" ELSE "fin"]
        /\ ClearReport(t, i)
        /\ \/ Unless(t, i, 0, Stays)
           \/ Unless(t, i, 1, Stays)
           \/ Unless(t, i, 2, TakeOut(t, i, "remove"))
  /\ UNCHANGED <<manager, accepter, shared, history>>

\* recv returned 0 or an error.  The client is taken out, and the code goes on
\* to hand its buffer, now gone, to the demarcar.
ReceiveEnd(t) ==
  /\ pc[t] = "scan" /\ Reported(t) # {}
  /\ LET i == Current(t)
         c == slots[t][i]
     IN /\ revents[t][i] = "in"
        /\ sock[c] \in {"fin", "rst"}
        /\ ClearReport(t, i)
        /\ Unless(t, i, 2, TakeOut(t, i, "removeclosed"))
  /\ UNCHANGED <<manager, accepter, shared, sock, history>>

\* Mutant of Remove: drops the buffers of all clients of the thread.
RemoveAll(t) ==
  /\ pc[t] \in {"remove", "removeclosed"}
  /\ buffers' = [buffers EXCEPT ![t] = <<>>]
  /\ leaving' = [leaving EXCEPT ![t] = None]
  /\ failed' = IF pc[t] = "removeclosed" THEN <<"assert", t>> ELSE failed
  /\ pc' = [pc EXCEPT ![t] = "scan"]
  /\ UNCHANGED <<manager, accepter, slots, poll_fds_num, revents, pipe, bound,
                 sock, db, notified, history>>

\* RemoveTcpClientBuffer, after the callback and under buffers_mtx again.  After
\* the end of the stream ProcessMsg follows with no byte to write, and its
\* assertion that some were written fails.
Remove(t) ==
  /\ pc[t] \in {"remove", "removeclosed"}
  /\ buffers' = [buffers EXCEPT ![t] = Without(@, leaving[t])]
  /\ leaving' = [leaving EXCEPT ![t] = None]
  /\ failed' = IF pc[t] = "removeclosed" THEN <<"assert", t>> ELSE failed
  /\ pc' = [pc EXCEPT ![t] = "scan"]
  /\ UNCHANGED <<manager, accepter, slots, poll_fds_num, revents, pipe, bound,
                 sock, db, notified, history>>

Listen(t) == \/ InitialSlots(t) \/ Poll(t) \/ StopCommand(t) \/ AddCommand(t)
             \/ ScanEnds(t) \/ HangUp(t) \/ ReceiveData(t) \/ ReceiveEnd(t)
             \/ Remove(t)

-----------------------------------------------------------------------------
\* The remote end sends, closes in an orderly way, or resets the connection.
Move(c, from, to) == /\ sock[c] = from
                     /\ sock' = [sock EXCEPT ![c] = to]
                     /\ UNCHANGED <<manager, accepter, listener, shared, db,
                                    failed, notified, history>>

Peer(c) == \/ "send" \in PeerMoves /\ Move(c, "open", "data")
           \/ "fin" \in PeerMoves /\ (Move(c, "open", "fin") \/ Move(c, "data", "datafin"))
           \/ "rst" \in PeerMoves /\ (Move(c, "open", "rst") \/ Move(c, "data", "rst"))

Running == failed = None

Next == /\ Running
        /\ \/ \E c \in Client : Accept(c) \/ Peer(c)
           \/ Accepter
           \/ StartBegins \/ StopBegins \/ Ctl
           \/ \E t \in Thread : Listen(t)

Spec == Init /\ [][Next]_vars

\* Every thread that can run does; nobody has to connect, send, close, start or
\* stop.
Fairness == /\ WF_vars(Running /\ Accepter)
            /\ WF_vars(Running /\ Ctl)
            /\ \A t \in Thread : WF_vars(Running /\ Listen(t))

FairSpec == Spec /\ Fairness

-----------------------------------------------------------------------------
\* Every variable has one of the values the program gives it; a thread never
\* holds more clients than poll has slots for.  (A part of PollCountExact.)
TypeOK ==
  /\ threads \in Seq(Thread) /\ threads_mtx \in {"free", "accepter", "ctl"}
  /\ is_running \in BOOLEAN
  /\ ctl.pc \in {"idle", "spawn", "bind", "stop", "join"}
  /\ accepter.pc \in {"idle", "lock", "try", "write", "bind"}
  /\ accepter.client \in Client \cup {None}
  /\ pc \in [Thread -> {"unborn", "init", "poll", "command", "scan", "remove",
                        "removeclosed", "exited"}]
  /\ \A t \in Thread : /\ buffers[t] \in Seq(Client)
                       /\ Len(buffers[t]) <= MaxClients
                       /\ poll_fds_num[t] \in 1..(MaxClients + 1)
                       /\ pipe[t] \in Seq(Client \cup {"s"})
  /\ slots \in [Thread -> [Slot -> Client \cup {None}]]
  /\ revents \in [Thread -> [Slot -> {"none", "in", "hup"}]]
  /\ bound \in [Thread -> 0..2]
  /\ db \in Seq(Client)

\* The clients of a thread's poll slots.
Polled(t) == {slots[t][i] : i \in {j \in Slot : j < poll_fds_num[t]}} \ {None}

TellingOf(t) == /\ accepter.pc = "write"
                /\ threads[accepter.pos] = t

\* A thread that is about to poll and has no command to come looks at exactly
\* the clients it holds, each in one slot: nobody is left unserved and no slot
\* is watched in vain.  Only a client added before the thread's first look at
\* its buffers, or added twice, can break this.
ServesItsClients ==
  \A t \in Thread :
    pc[t] = "poll" /\ pipe[t] = <<>> /\ ~TellingOf(t) /\ t \notin raced =>
      /\ Polled(t) = Elems(buffers[t])
      /\ Cardinality({i \in Slot : slots[t][i] # None}) = Len(buffers[t])

\* An add command finds a free slot: the capacity check in AddTcpClient, made
\* under another lock and by another thread, is enough for it.
CommandFindsSlot ==
  \A t \in Thread :
    pc[t] = "command" /\ Head(pipe[t]) # "s" /\ t \notin raced => FreeSlots(t) # {}

\* The variables keep to their types, and poll_fds_num is one more than the last
\* slot in use, as the branch of the add command that extends it and the loop of
\* RemoveFDFromPoll rely on.
PollCountExact ==
  /\ TypeOK
  /\ \A t \in Thread :
       LET used == {i \in Slot : slots[t][i] # None} IN
         pc[t] \notin {"unborn", "init", "exited"} =>
           poll_fds_num[t] = IF used = {} THEN 1 ELSE Greatest(used) + 1

\* Each way the process can end has its one cause.  The client of a reported slot
\* is found in the thread's buffers, so that the lookup does not dereference end(),
\* unless the thread was raced; Start's walk through the list goes wrong only when
\* the list is not the one it began with (the number of threads, the stretch of each
\* and the position agree); only a thread that was created with a client can call a
\* callback that is not assigned yet.  The fourth is that of WriteAssertion.
FailureExplained ==
  failed # None =>
    \/ failed[1] = "ub" /\ failed[2] \in raced
    \/ failed[1] = "iterator" /\ db # start.listed
    \/ failed[1] = "bad_function_call" /\ born[failed[2]] # <<>>
    \/ failed[1] = "assert"

\* While the service runs every client in the database is held by a thread or is
\* being handed to one: nobody who is connected is forgotten, across every Stop
\* and Start, except whom Start was not told of or whom a list that changed under
\* it made it miss.
ListedIsHeld ==
  is_running /\ ctl.pc = "idle" /\ failed = None =>
    Elems(db) \subseteq HandedOver \cup skipped

\* Two threads never serve the same client, and the end of a connection is reported
\* at most once, except of a client that a Start listed while the acceptor handed it
\* over or a thread had it.
OneThreadPerClient ==
  /\ \A t, u \in Thread : t # u =>
       Elems(buffers[t]) \cap Elems(buffers[u]) \subseteq relisted
  /\ \A c \in Client : notified[c] > 1 => c \in relisted

\* No listening thread escapes Stop: each that lives is in the vector, or is
\* being put there by the holder of threads_mtx.
NoOrphanThread ==
  \A t \in Thread : pc[t] # "unborn" /\ t \notin Elems(threads) =>
    threads_mtx # "free" /\ bound[t] < 2

\* What keeps a listening thread from doing its work: it was raced, two threads
\* share a client and one blocks in recv, or the process has ended.
Spoilt == raced # {} \/ relisted # {} \/ failed # None

\* A reset connection that a thread holds is reported, unless the service stops.
ResetIsReported ==
  \A c \in Client :
    (sock[c] = "rst" /\ \E t \in Thread : Buffered(t, c)) ~>
       (notified[c] > 0 \/ Spoilt \/ ctl.pc = "stop")

\* A new connection is handed to a thread, and Start and Stop return, however the
\* three contend for threads_mtx and although Stop joins threads under it while
\* they take clients out.
CallsReturn == /\ (accepter.pc # "idle") ~> (accepter.pc = "idle" \/ Spoilt)
               /\ (ctl.pc # "idle") ~> (ctl.pc = "idle" \/ Spoilt)

\* The demarcar asserts that it could write the bytes received
\* (TcpMsgDemarcar.cpp:16).
WriteAssertion == failed # None => failed[1] # "assert"
=============================================================================
