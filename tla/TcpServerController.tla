------------------------- MODULE TcpServerController -------------------------
(***************************************************************************)
(* A server as its commands see it: src/TcpServerController.cpp with its   *)
(* state flags, the acceptor thread of src/TcpNewConnectionAcceptor.cpp,   *)
(* the client list of src/TcpClientDBManager.cpp, and the service manager  *)
(* seen from outside: it runs or not, and serves some of the clients       *)
(* (TcpClientServiceManager and MsgsQueue look inside).                    *)
(*                                                                         *)
(* Processes: the command line's thread (cli), which runs the handlers of  *)
(* src/testapp.cpp and ends the process with exit; the acceptor thread;    *)
(* the listening threads, of which only the end of a connection is seen.   *)
(* A handler is cut where another thread can see what it has done so far.  *)
(***************************************************************************)
EXTENDS Naturals, FiniteSets

CONSTANTS Client, None,
          InitFlags,     \* what the uninitialised state_flags may hold
          InitRunning    \* what the manager's uninitialised is_running may hold

Flag == {"RUNNING", "NOT_ACCEPTING", "NOT_LISTENING"}

ASSUME InitFlagsAssumption == InitFlags \subseteq SUBSET Flag
ASSUME InitRunningAssumption == InitRunning \subseteq BOOLEAN
ASSUME NoneAssumption == None \notin Client

VARIABLES
  state_flags,   \* without TCP_SERVER_INITIALIZED, which only Display reads
  cli,           \* "idle", or what the handler does next
  acceptor,      \* [pc, client]; "none": accept_new_conn_thread is not joinable
  is_running,    \* of the service manager
  msgs_thread,   \* it is joinable
  served,        \* client -> how many listening threads have it
  leaving,       \* clients whose end was reported and who are still listed
  db,            \* tcp_clients_db
  failed,        \* None, "terminate" (std::terminate), "ub" (destroyed object)
  \* history
  met,           \* clients that have connected
  welcomed,      \* clients reported by on_client_connected
  parted,        \* clients reported by on_client_disconnected
  launched,      \* an acceptor thread was started
  strays,        \* clients handed to a manager that did not run, or that a
                 \* Start listed while the acceptor was handing them over
  tame           \* the flags began as zero, services were only switched on a
                 \* running server, and the process has not called exit

mgr == <<is_running, msgs_thread, served, leaving>>
history == <<met, welcomed, parted, launched, strays, tame>>
vars == <<state_flags, cli, acceptor, mgr, db, failed, history>>

IsBitSet(f) == f \in state_flags

NoAcceptor == [pc |-> "none", client |-> None]

Init == /\ state_flags \in InitFlags
        /\ is_running \in InitRunning
        /\ cli = "idle" /\ acceptor = NoAcceptor
        /\ msgs_thread = FALSE
        /\ served = [c \in Client |-> 0] /\ leaving = {} /\ db = {}
        /\ failed = None
        /\ met = {} /\ welcomed = {} /\ parted = {} /\ launched = FALSE
        /\ strays = {}
        /\ tame = (state_flags = {} /\ ~is_running)

-----------------------------------------------------------------------------
\* Assigning to a joinable std::thread, and joining one that is not, end the
\* process.
LaunchAcceptor ==
  IF acceptor.pc = "none"
  THEN /\ acceptor' = [pc |-> "poll", client |-> None]
       /\ launched' = TRUE
       /\ UNCHANGED failed
  ELSE failed' = "terminate" /\ UNCHANGED <<acceptor, launched>>

\* TcpClientServiceManager::Start with the clients of list.
MgrStart(list) ==
  /\ IF is_running THEN UNCHANGED <<is_running, msgs_thread, served, strays>>
     ELSE /\ is_running' = TRUE /\ msgs_thread' = TRUE
          /\ served' = [c \in Client |-> IF c \in list THEN served[c] + 1 ELSE served[c]]
          /\ strays' = strays \cup (list \cap {acceptor.client})
  /\ UNCHANGED leaving

\* Mutant of MgrStop: the listening threads stay.
MgrStopKeepsThreads ==
  IF is_running
  THEN /\ is_running' = FALSE /\ msgs_thread' = FALSE
       /\ failed' = IF msgs_thread THEN failed ELSE "terminate"
       /\ UNCHANGED <<served, leaving>>
  ELSE UNCHANGED <<mgr, failed>>

\* TcpClientServiceManager::Stop waits for the listening threads and for
\* msgs_thread.
MgrStop ==
  IF is_running
  THEN /\ leaving = {}
       /\ served' = [c \in Client |-> 0]
       /\ is_running' = FALSE /\ msgs_thread' = FALSE
       /\ failed' = IF msgs_thread THEN failed ELSE "terminate"
       /\ UNCHANGED leaving
  ELSE UNCHANGED <<mgr, failed>>

Switched == tame' = (tame /\ IsBitSet("RUNNING"))

-----------------------------------------------------------------------------
\* The command "start".
Start ==
  /\ cli = "idle" /\ ~IsBitSet("RUNNING")
  /\ LaunchAcceptor
  /\ state_flags' = state_flags \ {"NOT_ACCEPTING"}
  /\ cli' = "startmgr"
  /\ UNCHANGED <<mgr, db, met, welcomed, parted, strays, tame>>

StartContinues ==
  /\ cli = "startmgr"
  /\ MgrStart({})
  /\ state_flags' = (state_flags \ {"NOT_LISTENING"}) \cup {"RUNNING"}
  /\ cli' = "idle"
  /\ UNCHANGED <<acceptor, db, failed, met, welcomed, parted, launched, tame>>

\* The command "stop": the acceptor, the manager, the client list.
Stop ==
  /\ cli = "idle" /\ IsBitSet("RUNNING")
  /\ cli' = IF IsBitSet("NOT_ACCEPTING") THEN "stopmgr" ELSE "stopacceptor"
  /\ UNCHANGED <<state_flags, acceptor, mgr, db, failed, history>>

\* The acceptor has been told to stop and is joined.
JoinAcceptor ==
  /\ cli \in {"stopacceptor", "acceptoroff", "exitacceptor"}
  /\ acceptor.pc \in {"none", "exited"}
  /\ failed' = IF acceptor.pc = "none" THEN "terminate" ELSE failed
  /\ acceptor' = NoAcceptor
  /\ state_flags' = state_flags \cup {"NOT_ACCEPTING"}
  /\ cli' = CASE cli = "stopacceptor" -> "stopmgr"
              [] cli = "acceptoroff"  -> "idle"
              [] cli = "exitacceptor" -> "gone"
  /\ UNCHANGED <<mgr, db, history>>

StopsManager ==
  /\ cli \in {"stopmgr", "mgroff"}
  /\ IF IsBitSet("NOT_LISTENING") THEN UNCHANGED <<mgr, failed>> ELSE MgrStop
  /\ state_flags' = state_flags \cup {"NOT_LISTENING"}
  /\ cli' = IF cli = "stopmgr" THEN "purge" ELSE "idle"
  /\ UNCHANGED <<acceptor, db, history>>

Purge ==
  /\ cli = "purge"
  /\ db' = {}
  /\ state_flags' = state_flags \ {"RUNNING"}
  /\ cli' = "idle"
  /\ UNCHANGED <<acceptor, mgr, failed, history>>

\* Mutant of StopConnectionAcceptingSvc: does not look at the flag.
StopConnectionAcceptingAlways ==
  /\ cli = "idle"
  /\ cli' = "acceptoroff"
  /\ Switched
  /\ UNCHANGED <<state_flags, acceptor, mgr, db, failed, met, welcomed, parted,
                 launched, strays>>

\* "disable-conn-accept" and "no disable-conn-accept".
StopConnectionAcceptingSvc ==
  /\ cli = "idle" /\ ~IsBitSet("NOT_ACCEPTING")
  /\ cli' = "acceptoroff"
  /\ Switched
  /\ UNCHANGED <<state_flags, acceptor, mgr, db, failed, met, welcomed, parted,
                 launched, strays>>

\* Mutant of StartConnectionAcceptingSvc: the flag stays set.
StartConnectionAcceptingUnflagged ==
  /\ cli = "idle" /\ IsBitSet("NOT_ACCEPTING")
  /\ LaunchAcceptor
  /\ Switched
  /\ UNCHANGED <<state_flags, cli, mgr, db, met, welcomed, parted, strays>>

StartConnectionAcceptingSvc ==
  /\ cli = "idle" /\ IsBitSet("NOT_ACCEPTING")
  /\ LaunchAcceptor
  /\ state_flags' = state_flags \ {"NOT_ACCEPTING"}
  /\ Switched
  /\ UNCHANGED <<cli, mgr, db, met, welcomed, parted, strays>>

\* "disable-client-listen" and "no disable-client-listen".
StopClientSvcMgr ==
  /\ cli = "idle" /\ ~IsBitSet("NOT_LISTENING")
  /\ cli' = "mgroff"
  /\ Switched
  /\ UNCHANGED <<state_flags, acceptor, mgr, db, failed, met, welcomed, parted,
                 launched, strays>>

\* Mutant of StartClientSvcMgr: starts the manager without the listed clients.
StartClientSvcMgrEmpty ==
  /\ cli = "idle" /\ IsBitSet("NOT_LISTENING")
  /\ MgrStart({})
  /\ state_flags' = state_flags \ {"NOT_LISTENING"}
  /\ Switched
  /\ UNCHANGED <<cli, acceptor, db, failed, met, welcomed, parted, launched>>

\* Start takes the whole list here at once; what a list that changes while Start
\* goes through it does is TcpClientServiceManager's ListedIsHeld and FailureExplained.
StartClientSvcMgr ==
  /\ cli = "idle" /\ IsBitSet("NOT_LISTENING")
  /\ MgrStart(db)
  /\ state_flags' = state_flags \ {"NOT_LISTENING"}
  /\ Switched
  /\ UNCHANGED <<cli, acceptor, db, failed, met, welcomed, parted, launched>>

\* exit(): the controller's members go in the reverse order of their
\* declaration, the manager first, whose destructor stops it and then destroys
\* whatever listening threads there are, and the acceptor last.
Exit ==
  /\ cli = "idle"
  /\ cli' = "exitmgr"
  /\ tame' = FALSE
  /\ UNCHANGED <<state_flags, acceptor, mgr, db, failed, met, welcomed, parted,
                 launched, strays>>

DestroysManager ==
  /\ cli = "exitmgr"
  /\ leaving = {}
  /\ served' = [c \in Client |-> 0]
  /\ failed' = IF is_running /\ ~msgs_thread THEN "terminate" ELSE failed
  /\ is_running' = FALSE /\ msgs_thread' = FALSE
  /\ db' = {}
  /\ cli' = "exitacceptor"
  /\ UNCHANGED <<state_flags, acceptor, leaving, history>>

Command == \/ Start \/ Stop \/ StopConnectionAcceptingSvc \/ StartConnectionAcceptingSvc
           \/ StopClientSvcMgr \/ StartClientSvcMgr \/ Exit

Continue == StartContinues \/ JoinAcceptor \/ StopsManager \/ Purge \/ DestroysManager

-----------------------------------------------------------------------------
\* The acceptor thread: accept and AddClient, StartListenTcpClient, the user's
\* on_client_connected; with the manager and the list destroyed the first two
\* touch destroyed objects.
Destroyed == cli \in {"exitacceptor", "gone"}

Accept(c) ==
  /\ acceptor.pc = "poll"
  /\ c \notin met
  /\ met' = met \cup {c}
  /\ IF Destroyed THEN failed' = "ub" /\ UNCHANGED <<db, acceptor>>
     ELSE /\ db' = db \cup {c}
          /\ acceptor' = [pc |-> "handover", client |-> c]
          /\ UNCHANGED failed
  /\ UNCHANGED <<state_flags, cli, mgr, welcomed, parted, launched, strays, tame>>

\* Mutant of HandOver: the connection is not reported afterwards.
HandOverSilently ==
  /\ acceptor.pc = "handover"
  /\ served' = [served EXCEPT ![acceptor.client] = @ + 1]
  /\ strays' = IF is_running THEN strays ELSE strays \cup {acceptor.client}
  /\ acceptor' = [pc |-> "poll", client |-> None]
  /\ UNCHANGED <<state_flags, cli, is_running, msgs_thread, leaving, db, failed, met,
                 welcomed, parted, launched, tame>>

HandOver ==
  /\ acceptor.pc = "handover"
  /\ LET c == acceptor.client IN
       IF Destroyed THEN failed' = "ub" /\ UNCHANGED <<served, strays, acceptor>>
       ELSE /\ served' = [served EXCEPT ![c] = @ + 1]
            /\ strays' = IF is_running THEN strays ELSE strays \cup {c}
            /\ acceptor' = [acceptor EXCEPT !.pc = "report"]
            /\ UNCHANGED failed
  /\ UNCHANGED <<state_flags, cli, is_running, msgs_thread, leaving, db, met,
                 welcomed, parted, launched, tame>>

ReportConnected ==
  /\ acceptor.pc = "report"
  /\ welcomed' = welcomed \cup {acceptor.client}
  /\ acceptor' = [pc |-> "poll", client |-> None]
  /\ UNCHANGED <<state_flags, cli, mgr, db, failed, met, parted, launched, strays, tame>>

\* Mutant of ReadStopCommand: one of the callers does not write the command.
ReadStopCommandPartly ==
  /\ acceptor.pc = "poll"
  /\ cli \in {"stopacceptor", "exitacceptor"}
  /\ acceptor' = [acceptor EXCEPT !.pc = "exited"]
  /\ UNCHANGED <<state_flags, cli, mgr, db, failed, history>>

\* The stop command is read after a connection that came with it.
ReadStopCommand ==
  /\ acceptor.pc = "poll"
  /\ cli \in {"stopacceptor", "acceptoroff", "exitacceptor"}
  /\ acceptor' = [acceptor EXCEPT !.pc = "exited"]
  /\ UNCHANGED <<state_flags, cli, mgr, db, failed, history>>

Acceptor == HandOver \/ ReportConnected \/ ReadStopCommand

-----------------------------------------------------------------------------
\* A listening thread finds that a connection has ended: OnClientDisconnected
\* reports it, then takes the client off the list.
ReportDisconnected(c) ==
  /\ served[c] > 0
  /\ c \notin leaving
  /\ parted' = parted \cup {c}
  /\ leaving' = leaving \cup {c}
  /\ UNCHANGED <<state_flags, cli, acceptor, is_running, msgs_thread, served, db,
                 failed, met, welcomed, launched, strays, tame>>

RemoveClient(c) ==
  /\ c \in leaving
  /\ db' = db \ {c}
  /\ leaving' = leaving \ {c}
  /\ served' = [served EXCEPT ![c] = @ - 1]
  /\ UNCHANGED <<state_flags, cli, acceptor, is_running, msgs_thread, failed, history>>

Next == /\ failed = None
        /\ \/ Command \/ Continue \/ Acceptor
           \/ \E c \in Client : Accept(c) \/ ReportDisconnected(c) \/ RemoveClient(c)

Spec == Init /\ [][Next]_vars

\* A command that was begun goes on and threads that can run do; no command has
\* to be given, no client has to connect or leave.
Fairness == /\ WF_vars(failed = None /\ Continue)
            /\ WF_vars(failed = None /\ Acceptor)
            /\ \A c \in Client : WF_vars(failed = None /\ RemoveClient(c))

FairSpec == Spec /\ Fairness

-----------------------------------------------------------------------------
\* Each variable has one of the values listed for it; no client gets a third
\* listening thread, however often the service is stopped and started.  (A part of
\* FlagsExact.)
TypeOK ==
  /\ state_flags \subseteq Flag
  /\ cli \in {"idle", "startmgr", "stopacceptor", "stopmgr", "purge", "acceptoroff",
              "mgroff", "exitmgr", "exitacceptor", "gone"}
  /\ acceptor.pc \in {"none", "poll", "handover", "report", "exited"}
  /\ acceptor.client \in Client \cup {None}
  /\ is_running \in BOOLEAN /\ msgs_thread \in BOOLEAN
  /\ served \in [Client -> 0..2]
  /\ leaving \subseteq Client /\ db \subseteq Client
  /\ failed \in {None, "terminate", "ub"}

Idle == cli = "idle" /\ failed = None

\* A server whose services are switched off and on only between start and stop
\* never assigns over a running acceptor thread, joins a missing one, or touches
\* an object that is gone, whatever its clients do meanwhile.
TameNeverFails == tame => failed = None

\* The variables keep to their types, and the flags tell what runs, in every order
\* of start, stop and the four switches: once an acceptor was started the one says
\* whether there is one, and the other whether the service manager runs.
FlagsExact ==
  /\ TypeOK
  /\ Idle /\ launched =>
       /\ IsBitSet("NOT_ACCEPTING") <=> acceptor.pc = "none"
       /\ tame => (IsBitSet("NOT_LISTENING") <=> ~is_running)

\* A client in the list is served, across every disable and enable, except while
\* the acceptor is still to hand it over: enabling finds those that were
\* connected before and the acceptor adds those that came since.  The "start" of
\* a server with clients, which only misuse leads to, forgets them.
ListedIsServed ==
  Idle /\ tame /\ is_running /\ ~IsBitSet("NOT_LISTENING") =>
    \A c \in db : served[c] > 0 \/ acceptor = [pc |-> "handover", client |-> c]

\* After a stop no client is served, but for those handed to a manager that did not
\* run and those a Start listed while the acceptor was handing them over.
StoppedServesOnlyStrays ==
  Idle /\ tame /\ ~IsBitSet("RUNNING") => \A c \in Client : served[c] > 0 => c \in strays

\* A client may be reported gone before it is reported connected, but only while
\* the acceptor thread is at work on it and will report it: no disconnection is
\* that of a client the application never hears of.
EarlyPartingIsReported ==
  failed = None => \A c \in parted \ welcomed : acceptor.client = c

\* Every command that was begun ends, whatever clients come and go.
CommandsEnd == (cli # "idle") ~> (cli \in {"idle", "gone"} \/ failed # None)

\* "stop" stops the server (testapp.cpp:127): no listening thread serves a client
\* after it, although StopClientSvcMgr is skipped when its flag is set.
StopStopsServing ==
  Idle /\ tame /\ launched /\ ~IsBitSet("RUNNING") => \A c \in Client : served[c] = 0
=============================================================================
