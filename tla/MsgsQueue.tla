------------------------------ MODULE MsgsQueue ------------------------------
(***************************************************************************)
(* How TcpClientServiceManager hands the messages its listening threads    *)
(* cut out of the byte streams to the user's callback: msgs_queue, filled  *)
(* under msgs_mtx by OnMsgReceived and emptied by the single msgs_thread   *)
(* that runs ReadMsgsQueue, which sleeps on msgs_cv, and the Start and     *)
(* Stop that launch and end that thread.                                   *)
(*                                                                         *)
(* The thread that calls Start and Stop (the command line's, ctl) is one   *)
(* process, each listening thread one, msgs_thread one.  What a listening  *)
(* thread receives and how it is told to stop is TcpClientServiceManager's *)
(* business; here it demarks a message now and then and can be joined      *)
(* between two messages.                                                   *)
(***************************************************************************)
EXTENDS Naturals, Sequences

CONSTANTS Listener,     \* the listening threads there can be
          MaxMsgs,      \* bound: how many messages are demarked in all
          InitRunning   \* what the uninitialised is_running may hold

ASSUME MaxMsgsAssumption == MaxMsgs \in Nat
ASSUME InitRunningAssumption == InitRunning \subseteq BOOLEAN

VARIABLES is_running,
          msgs_queue,
          listener,     \* listening thread -> where it stands
          reader,       \* where msgs_thread stands
          ctl,          \* where the caller of Start and Stop stands
          terminated,   \* std::terminate was called
          sent,         \* history: how many messages were pushed
          delivered,    \* history: the messages given to on_msg_rcvd
          missed,       \* history: Stop notified a reader about to wait
          launched      \* history: a Start has launched msgs_thread

vars == <<is_running, msgs_queue, listener, reader, ctl, terminated,
          sent, delivered, missed, launched>>
history == <<sent, delivered, missed, launched>>

\* msgs_thread: "none" (not joinable), "lock" (wants msgs_mtx), "check" (about
\* to evaluate the predicate of wait), "gap" (found it false, still holds the
\* mutex, does not wait yet), "waiting", "test" (line 361), "deliver" (line
\* 363), "pop" (line 364), "done" (returned).
ReaderHoldsMutex == reader \in {"check", "gap", "test", "deliver", "pop"}

\* Stop keeps threads_mtx from its first line to its last.
CtlHoldsThreadsMutex == ctl \in {"clear", "flag", "notify", "join"}

Init == /\ is_running \in InitRunning
        /\ msgs_queue = <<>>
        /\ listener = [l \in Listener |-> "down"]
        /\ reader = "none"
        /\ ctl = "idle"
        /\ terminated = FALSE
        /\ sent = 0 /\ delivered = <<>> /\ missed = FALSE /\ launched = FALSE

-----------------------------------------------------------------------------
\* Start, whose threads_mtx section creates one thread per two clients and one
\* more; is_running is set and msgs_thread launched after it.
Down == {l \in Listener : listener[l] = "down"}

StartThreads ==
  /\ ctl = "idle"
  /\ ~is_running
  /\ \E S \in SUBSET Down :
       /\ S # {} \/ Down = {}     \* bound: no more threads than Listener
       /\ listener' = [l \in Listener |-> IF l \in S THEN "idle" ELSE listener[l]]
  /\ ctl' = "started"
  /\ UNCHANGED <<is_running, msgs_queue, reader, terminated, history>>

SetRunning == /\ ctl = "started"
              /\ is_running' = TRUE
              /\ ctl' = "launch"
              /\ UNCHANGED <<msgs_queue, listener, reader, terminated, history>>

\* Assigning to a joinable std::thread calls std::terminate.
LaunchReader ==
  /\ ctl = "launch"
  /\ terminated' = (reader # "none")
  /\ reader' = "lock"
  /\ launched' = TRUE
  /\ ctl' = "idle"
  /\ UNCHANGED <<is_running, msgs_queue, listener, sent, delivered, missed>>

-----------------------------------------------------------------------------
StopBegin == /\ ctl = "idle"
             /\ is_running
             /\ ctl' = "clear"
             /\ UNCHANGED <<is_running, msgs_queue, listener, reader, terminated, history>>

\* threads.clear(): the destructor of a listening thread joins it.
JoinListener(l) ==
  /\ ctl = "clear"
  /\ listener[l] = "idle"
  /\ listener' = [listener EXCEPT ![l] = "down"]
  /\ UNCHANGED <<is_running, msgs_queue, reader, ctl, terminated, history>>

AllJoined == /\ ctl = "clear"
             /\ Down = Listener
             /\ ctl' = "flag"
             /\ UNCHANGED <<is_running, msgs_queue, listener, reader, terminated, history>>

\* is_running is written without msgs_mtx.
ClearRunning == /\ ctl = "flag"
                /\ is_running' = FALSE
                /\ ctl' = "notify"
                /\ UNCHANGED <<msgs_queue, listener, reader, terminated, history>>

\* Mutant of Wake: no notification is sent.
WakeNobody == reader' = reader

\* notify_one wakes the reader if it waits, and is lost otherwise.
Wake == reader' = IF reader = "waiting" THEN "lock" ELSE reader

\* Mutant of StopNotify: Stop sets the flag and does not notify.
StopNotifyNot == /\ ctl = "notify"
                 /\ ctl' = "join"
                 /\ UNCHANGED <<is_running, msgs_queue, listener, reader, terminated, history>>

StopNotify == /\ ctl = "notify"
              /\ Wake
              /\ missed' = (missed \/ reader = "gap")
              /\ ctl' = "join"
              /\ UNCHANGED <<is_running, msgs_queue, listener, terminated,
                             sent, delivered, launched>>

\* Joining a thread that is not joinable throws out of Stop.
StopJoin == /\ ctl = "join"
            /\ reader \in {"done", "none"}
            /\ terminated' = (reader = "none")
            /\ reader' = "none"
            /\ ctl' = "idle"
            /\ UNCHANGED <<is_running, msgs_queue, listener, history>>

-----------------------------------------------------------------------------
\* StartListenTcpClient, when every listening thread is full, starts one more,
\* whether or not the service runs.
SpawnListener(l) ==
  /\ ~CtlHoldsThreadsMutex
  /\ listener[l] = "down"
  /\ listener' = [listener EXCEPT ![l] = "idle"]
  /\ UNCHANGED <<is_running, msgs_queue, reader, ctl, terminated, history>>

\* Mutant of Push: the listening thread goes on without notifying.
PushSilently(l) ==
  /\ listener[l] = "idle"
  /\ ~ReaderHoldsMutex
  /\ sent < MaxMsgs
  /\ msgs_queue' = Append(msgs_queue, sent + 1)
  /\ sent' = sent + 1
  /\ UNCHANGED <<is_running, listener, reader, ctl, terminated, delivered, missed, launched>>

\* OnMsgReceived: push under msgs_mtx, then notify without it.
Push(l) ==
  /\ listener[l] = "idle"
  /\ ~ReaderHoldsMutex
  /\ sent < MaxMsgs
  /\ msgs_queue' = Append(msgs_queue, sent + 1)
  /\ sent' = sent + 1
  /\ listener' = [listener EXCEPT ![l] = "notify"]
  /\ UNCHANGED <<is_running, reader, ctl, terminated, delivered, missed, launched>>

Notify(l) ==
  /\ listener[l] = "notify"
  /\ Wake
  /\ listener' = [listener EXCEPT ![l] = "idle"]
  /\ UNCHANGED <<is_running, msgs_queue, ctl, terminated, history>>

-----------------------------------------------------------------------------
\* ReadMsgsQueue.
Reads(from, to) == reader = from /\ reader' = to

Quiet == UNCHANGED <<is_running, msgs_queue, listener, ctl, terminated, history>>

Lock == Reads("lock", "check") /\ Quiet

\* Mutant of HasWork: wait without a predicate.
HasWorkAlways == TRUE

\* Mutant of HasWork: the predicate does not look at is_running.
HasWorkIgnoresStop == msgs_queue # <<>>

\* The predicate of line 360.
HasWork == msgs_queue # <<>> \/ ~is_running

Check == \/ HasWork /\ Reads("check", "test") /\ Quiet
         \/ ~HasWork /\ Reads("check", "gap") /\ Quiet

\* wait gives the mutex up and goes to sleep.
Block == Reads("gap", "waiting") /\ Quiet

SpuriousWakeup == Reads("waiting", "lock") /\ Quiet

Test == \/ is_running /\ Reads("test", "deliver") /\ Quiet
        \/ ~is_running /\ Reads("test", "done") /\ Quiet

\* The user's callback runs on the queue's front, under msgs_mtx.
Deliver == /\ Reads("deliver", "pop")
           /\ delivered' = Append(delivered, Head(msgs_queue))
           /\ UNCHANGED <<is_running, msgs_queue, listener, ctl, terminated,
                          sent, missed, launched>>

\* Mutant of Pop: empties the queue.
PopAll == /\ Reads("pop", "lock")
          /\ msgs_queue' = <<>>
          /\ UNCHANGED <<is_running, listener, ctl, terminated, history>>

Pop == /\ Reads("pop", "lock")
       /\ msgs_queue' = Tail(msgs_queue)
       /\ UNCHANGED <<is_running, listener, ctl, terminated, history>>

-----------------------------------------------------------------------------
Ctl == \/ StartThreads \/ SetRunning \/ LaunchReader
       \/ StopBegin \/ AllJoined \/ ClearRunning \/ StopNotify \/ StopJoin
       \/ \E l \in Listener : JoinListener(l)

Reader == Lock \/ Check \/ Block \/ Test \/ Deliver \/ Pop

Listening(l) == SpawnListener(l) \/ Push(l) \/ Notify(l)

Next == /\ ~terminated
        /\ Ctl \/ Reader \/ SpuriousWakeup \/ \E l \in Listener : Listening(l)

Spec == Init /\ [][Next]_vars

\* A thread that can run does run, the callback returns, and a listening thread
\* that pushed goes on to notify.  Nobody has to call Start or Stop, to send a
\* message, or to wake a waiter for no reason.
Fairness == /\ WF_vars(~terminated /\ Reader)
            /\ WF_vars(~terminated /\ Ctl /\ ctl # "idle")
            /\ \A l \in Listener : WF_vars(~terminated /\ Notify(l))

FairSpec == Spec /\ Fairness

-----------------------------------------------------------------------------
\* Each variable has one of the values listed for it above.
TypeOK ==
  /\ is_running \in BOOLEAN
  /\ msgs_queue \in Seq(Nat)
  /\ listener \in [Listener -> {"down", "idle", "notify"}]
  /\ reader \in {"none", "lock", "check", "gap", "waiting", "test", "deliver",
                 "pop", "done"}
  /\ ctl \in {"idle", "started", "launch", "clear", "flag", "notify", "join"}
  /\ terminated \in BOOLEAN /\ missed \in BOOLEAN /\ launched \in BOOLEAN
  /\ sent \in Nat
  /\ delivered \in Seq(Nat)

\* The messages still to be given to the callback: between the callback and the
\* pop the front one was given already.
Pending == IF reader = "pop" THEN Tail(msgs_queue) ELSE msgs_queue

\* Every message is given to the callback at most once, in the order of the
\* pushes, and none disappears, across every Stop and Start: those that were
\* delivered followed by those that are pending are all that were pushed.
DeliveredOnceInOrder == delivered \o Pending = [i \in 1..sent |-> i]

\* The callback is only reached with a message in the queue, although Start and
\* Stop change is_running without msgs_mtx (line 362 takes the front unchecked).
FrontExists ==
  /\ reader \in {"deliver", "pop"} => msgs_queue # <<>>
  /\ reader = "test" /\ is_running => msgs_queue # <<>>

\* A pushed message is never left behind by a sleeping reader: while one waits
\* for a message that is there, some listening thread is about to notify it.
NoStrandedMessage ==
  reader = "waiting" /\ msgs_queue # <<>> =>
     \E l \in Listener : listener[l] = "notify"

\* Stop can sit in join for ever for one reason only: its notification fell
\* between the reader's look at is_running and the reader's sleep.
HangOnlyIfMissed == ctl = "join" /\ reader = "waiting" => missed

\* Once Stop has returned the message thread is gone, so on_msg_rcvd is not
\* called until a Start, and Start never assigns over a joinable thread.
StoppedMeansJoined ==
  ctl \in {"idle", "started", "launch"} /\ (~is_running \/ ctl = "launch")
     => reader = "none"

\* The process is only ever terminated by a Stop that came before every Start
\* and found a random value in is_running, which no constructor sets.
TerminatedOnlyUnlaunched == terminated => ~launched

\* With a reader in place a pushed message is delivered, unless the service is
\* stopped first.
PushedIsDelivered ==
  \A m \in 1..MaxMsgs :
     (sent >= m /\ reader # "none") ~> (Len(delivered) >= m \/ ~is_running)

\* A Stop returns, unless its notification was missed.
StopReturnsUnlessMissed ==
  (ctl = "clear") ~> (ctl = "idle" \/ missed)

\* The "stop" command stops the server (testapp.cpp:127): Stop returns.
StopReturns == (ctl = "clear") ~> (ctl = "idle")
=============================================================================
