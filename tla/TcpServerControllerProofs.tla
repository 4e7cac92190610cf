---------------------- MODULE TcpServerControllerProofs ----------------------
(***************************************************************************)
(* For any number of clients, any order of commands and any values of the  *)
(* uninitialised flags: the invariants of TcpServerController.             *)
(***************************************************************************)
EXTENDS TcpServerController, TLAPS

-----------------------------------------------------------------------------
\* The acceptor thread, and the flag that tells whether there is one.
AcceptorInv ==
  /\ acceptor \in [pc : {"none", "poll", "handover", "report", "exited"},
                   client : Client \cup {None}]
  /\ acceptor.pc \in {"none", "poll", "exited"} <=> acceptor.client = None
  /\ acceptor.client \in met \cup {None}
  /\ ~launched => acceptor.pc = "none"
  /\ failed = None /\ launched => (IsBitSet("NOT_ACCEPTING") <=> acceptor.pc = "none")

\* The acceptor is about to hand c over.
Pending(c) == acceptor.pc = "handover" /\ acceptor.client = c

\* Who is served, and why: a client is handed over once, and listed by a Start only
\* when the manager does not run.
ServedInv ==
  /\ parted \subseteq Client
  /\ \A c \in Client :
       /\ c \notin met => served[c] = 0 /\ c \notin db
       /\ c \in leaving => served[c] > 0
       /\ Pending(c) => served[c] <= 1 /\ (~is_running => served[c] = 0)
       /\ ~is_running => served[c] <= 1
       /\ served[c] > 0 /\ ~is_running => c \in strays
       /\ served[c] > 0 \/ c \in db \/ c \in parted => c \in welcomed \/ acceptor.client = c

\* A client of the list is served or about to be.
Covered == \A c \in db : served[c] > 0 \/ Pending(c)

\* What each position of the command line's thread knows of a server that is used
\* as intended.
TameInv ==
  tame =>
    /\ failed = None
    /\ cli \notin {"exitmgr", "exitacceptor", "gone"}
    /\ is_running => msgs_thread
    /\ IsBitSet("RUNNING") \/ cli = "startmgr" => launched
    /\ cli \in {"stopacceptor", "acceptoroff"} =>
         acceptor.pc # "none" /\ IsBitSet("RUNNING")
    /\ cli = "stopmgr" => acceptor.pc = "none" /\ IsBitSet("RUNNING")
    /\ cli = "mgroff" => IsBitSet("RUNNING")
    /\ cli = "purge" => acceptor.pc = "none" /\ ~is_running
    /\ cli = "idle" /\ ~IsBitSet("RUNNING") =>
         acceptor.pc = "none" /\ ~is_running /\ db = {}
    /\ launched /\ cli # "startmgr" => (IsBitSet("NOT_LISTENING") <=> ~is_running)
    /\ is_running \/ cli = "startmgr" => Covered

IInv == TypeOK /\ AcceptorInv /\ ServedInv /\ TameInv

\* A manager that has stopped serves nobody.
LEMMA NobodyServed == [c \in Client |-> 0] \in [Client -> 0..2]
  OBVIOUS

\* A new controller, whatever its flags and is_running hold.
LEMMA InitIInv == Init => IInv
<1> SUFFICES ASSUME Init PROVE IInv
  OBVIOUS
<1> USE NoneAssumption
<1>1. state_flags \subseteq Flag /\ is_running \in BOOLEAN
  BY InitFlagsAssumption, InitRunningAssumption DEF Init
<1>2. served \in [Client -> 0..2]
  BY NobodyServed DEF Init
<1>3. TypeOK
  BY <1>1, <1>2 DEF Init, TypeOK, NoAcceptor
<1>4. AcceptorInv
  BY DEF Init, AcceptorInv, NoAcceptor
<1>5. ServedInv
  BY DEF Init, ServedInv, Pending, NoAcceptor
<1>6. TameInv
  <2>1. tame => state_flags = {} /\ ~is_running
    BY DEF Init
  <2>2. QED
    BY <2>1 DEF Init, TameInv, Covered, IsBitSet, NoAcceptor
<1>7. QED
  BY <1>3, <1>4, <1>5, <1>6 DEF IInv

\* Every command, every step of the acceptor and every end of a connection keeps IInv.
LEMMA StepIInv == IInv /\ [Next]_vars => IInv'
<1> SUFFICES ASSUME IInv, [Next]_vars PROVE IInv'
  OBVIOUS
<1> USE NoneAssumption DEF IInv, TypeOK
<1>1. CASE failed = None /\ Start
  <2>1. TypeOK'
    BY <1>1 DEF Start, LaunchAcceptor, mgr
  <2>2. AcceptorInv'
    BY <1>1 DEF Start, LaunchAcceptor, AcceptorInv, IsBitSet
  <2>3. ServedInv'
    BY <1>1 DEF Start, LaunchAcceptor, mgr, AcceptorInv, ServedInv, Pending
  <2>4. TameInv'
    BY <1>1 DEF Start, LaunchAcceptor, mgr, TameInv, Covered
  <2>5. QED
    BY <2>1, <2>2, <2>3, <2>4
<1>2. CASE failed = None /\ StartContinues
  <2>1. TypeOK'
    BY <1>2 DEF StartContinues, MgrStart, Flag
  <2>2. AcceptorInv'
    BY <1>2 DEF StartContinues, AcceptorInv, IsBitSet
  <2>3. ServedInv'
    BY <1>2 DEF StartContinues, MgrStart, ServedInv, Pending
  <2>4. TameInv'
    <3>1. CASE is_running
      BY <1>2, <3>1 DEF StartContinues, MgrStart, TameInv, Covered, Pending,
             IsBitSet
    <3>2. CASE ~is_running
      <4>1. tame /\ Covered => Covered'
        BY <1>2, <3>2 DEF StartContinues, MgrStart, Covered, Pending
      <4>2. QED
        BY <1>2, <3>2, <4>1 DEF StartContinues, MgrStart, TameInv, IsBitSet
    <3>3. QED
      BY <3>1, <3>2
  <2>5. QED
    BY <2>1, <2>2, <2>3, <2>4
<1>3. CASE failed = None /\ Stop
  <2>1. TypeOK'
    BY <1>3 DEF Stop, mgr
  <2>2. AcceptorInv'
    BY <1>3 DEF Stop, history, AcceptorInv, IsBitSet
  <2>3. ServedInv'
    BY <1>3 DEF Stop, mgr, history, ServedInv, Pending
  <2>4. TameInv'
    BY <1>3 DEF Stop, mgr, history, AcceptorInv, TameInv, Covered, Pending,
           IsBitSet
  <2>5. QED
    BY <2>1, <2>2, <2>3, <2>4
<1>4. CASE failed = None /\ JoinAcceptor
  <2>1. TypeOK'
    BY <1>4 DEF JoinAcceptor, NoAcceptor, mgr, Flag
  <2>2. AcceptorInv'
    BY <1>4 DEF JoinAcceptor, NoAcceptor, AcceptorInv, IsBitSet
  <2>3. ServedInv'
    BY <1>4 DEF JoinAcceptor, NoAcceptor, mgr, history, AcceptorInv, ServedInv,
           Pending
  <2>4. TameInv'
    BY <1>4 DEF JoinAcceptor, NoAcceptor, mgr, history, TameInv, Covered, Pending,
           IsBitSet
  <2>5. QED
    BY <2>1, <2>2, <2>3, <2>4
<1>5. CASE failed = None /\ StopsManager
  <2>1. TypeOK'
    <3>1. served' \in [Client -> 0..2]
      BY <1>5, NobodyServed DEF StopsManager, MgrStop, mgr
    <3>2. QED
      BY <1>5, <3>1 DEF StopsManager, MgrStop, mgr, Flag
  <2>2. AcceptorInv'
    BY <1>5 DEF StopsManager, history, AcceptorInv, IsBitSet
  <2>3. ServedInv'
    BY <1>5 DEF StopsManager, MgrStop, mgr, history, ServedInv, Pending
  <2>4. TameInv'
    BY <1>5 DEF StopsManager, MgrStop, mgr, history, TameInv, IsBitSet
  <2>5. QED
    BY <2>1, <2>2, <2>3, <2>4
<1>6. CASE failed = None /\ Purge
  <2>1. TypeOK'
    BY <1>6 DEF Purge, mgr
  <2>2. AcceptorInv'
    BY <1>6 DEF Purge, history, AcceptorInv, IsBitSet
  <2>3. ServedInv'
    BY <1>6 DEF Purge, mgr, history, ServedInv, Pending
  <2>4. TameInv'
    BY <1>6 DEF Purge, mgr, history, TameInv, IsBitSet
  <2>5. QED
    BY <2>1, <2>2, <2>3, <2>4
<1>7. CASE failed = None /\ StopConnectionAcceptingSvc
  <2>1. TypeOK'
    BY <1>7 DEF StopConnectionAcceptingSvc, mgr
  <2>2. AcceptorInv'
    BY <1>7 DEF StopConnectionAcceptingSvc, AcceptorInv, IsBitSet
  <2>3. ServedInv'
    BY <1>7 DEF StopConnectionAcceptingSvc, mgr, ServedInv, Pending
  <2>4. TameInv'
    BY <1>7 DEF StopConnectionAcceptingSvc, Switched, mgr, AcceptorInv, TameInv,
           Covered, Pending, IsBitSet
  <2>5. QED
    BY <2>1, <2>2, <2>3, <2>4
<1>8. CASE failed = None /\ StartConnectionAcceptingSvc
  <2>1. TypeOK'
    BY <1>8 DEF StartConnectionAcceptingSvc, LaunchAcceptor, mgr
  <2>2. AcceptorInv'
    BY <1>8 DEF StartConnectionAcceptingSvc, LaunchAcceptor, AcceptorInv, IsBitSet
  <2>3. ServedInv'
    BY <1>8 DEF StartConnectionAcceptingSvc, LaunchAcceptor, mgr, AcceptorInv,
           ServedInv, Pending
  <2>4. TameInv'
    BY <1>8 DEF StartConnectionAcceptingSvc, Switched, LaunchAcceptor, mgr,
           AcceptorInv, TameInv, Covered, Pending, IsBitSet
  <2>5. QED
    BY <2>1, <2>2, <2>3, <2>4
<1>9. CASE failed = None /\ StopClientSvcMgr
  <2>1. TypeOK'
    BY <1>9 DEF StopClientSvcMgr, mgr
  <2>2. AcceptorInv'
    BY <1>9 DEF StopClientSvcMgr, AcceptorInv, IsBitSet
  <2>3. ServedInv'
    BY <1>9 DEF StopClientSvcMgr, mgr, ServedInv, Pending
  <2>4. TameInv'
    BY <1>9 DEF StopClientSvcMgr, Switched, mgr, TameInv, Covered, Pending,
           IsBitSet
  <2>5. QED
    BY <2>1, <2>2, <2>3, <2>4
<1>10. CASE failed = None /\ StartClientSvcMgr
  <2>1. TypeOK'
    <3>1. CASE is_running
      BY <1>10, <3>1 DEF StartClientSvcMgr, MgrStart
    <3>2. CASE ~is_running
      <4>1. \A c \in Client : served[c] \in 0..1
        BY <3>2 DEF ServedInv
      <4>2. served' \in [Client -> 0..2]
        BY <1>10, <3>2, <4>1 DEF StartClientSvcMgr, MgrStart
      <4>3. QED
        BY <1>10, <3>2, <4>2 DEF StartClientSvcMgr, MgrStart
    <3>3. QED
      BY <3>1, <3>2
  <2>2. AcceptorInv'
    BY <1>10 DEF StartClientSvcMgr, AcceptorInv, IsBitSet
  <2>3. ServedInv'
    BY <1>10 DEF StartClientSvcMgr, MgrStart, ServedInv, Pending
  <2>4. TameInv'
    <3>1. CASE is_running
      BY <1>10, <3>1 DEF StartClientSvcMgr, Switched, TameInv
    <3>2. CASE ~is_running
      <4>1. Covered'
        BY <1>10, <3>2 DEF StartClientSvcMgr, MgrStart, Covered
      <4>2. QED
        BY <1>10, <3>2, <4>1 DEF StartClientSvcMgr, MgrStart, Switched, TameInv,
               IsBitSet
    <3>3. QED
      BY <3>1, <3>2
  <2>5. QED
    BY <2>1, <2>2, <2>3, <2>4
<1>11. CASE failed = None /\ Exit
  <2>1. TypeOK'
    BY <1>11 DEF Exit, mgr
  <2>2. AcceptorInv'
    BY <1>11 DEF Exit, AcceptorInv, IsBitSet
  <2>3. ServedInv'
    BY <1>11 DEF Exit, mgr, ServedInv, Pending
  <2>4. TameInv'
    BY <1>11 DEF Exit, TameInv
  <2>5. QED
    BY <2>1, <2>2, <2>3, <2>4
<1>12. CASE failed = None /\ DestroysManager
  <2>1. TypeOK'
    <3>1. served' \in [Client -> 0..2]
      BY <1>12, NobodyServed DEF DestroysManager
    <3>2. QED
      BY <1>12, <3>1 DEF DestroysManager
  <2>2. AcceptorInv'
    BY <1>12 DEF DestroysManager, history, AcceptorInv, IsBitSet
  <2>3. ServedInv'
    BY <1>12 DEF DestroysManager, history, ServedInv
  <2>4. TameInv'
    BY <1>12 DEF DestroysManager, history, TameInv
  <2>5. QED
    BY <2>1, <2>2, <2>3, <2>4
<1>13. CASE failed = None /\ HandOver
  <2>1. TypeOK'
    BY <1>13 DEF HandOver, AcceptorInv, ServedInv, Pending
  <2>2. AcceptorInv'
    BY <1>13 DEF HandOver, AcceptorInv, IsBitSet
  <2>3. ServedInv'
    BY <1>13 DEF HandOver, AcceptorInv, ServedInv, Pending
  <2>4. TameInv'
    BY <1>13 DEF HandOver, Destroyed, AcceptorInv, TameInv, Covered, Pending,
           IsBitSet
  <2>5. QED
    BY <2>1, <2>2, <2>3, <2>4
<1>14. CASE failed = None /\ ReportConnected
  <2>1. TypeOK'
    BY <1>14 DEF ReportConnected, mgr
  <2>2. AcceptorInv'
    BY <1>14 DEF ReportConnected, AcceptorInv, IsBitSet
  <2>3. ServedInv'
    BY <1>14 DEF ReportConnected, mgr, ServedInv, Pending
  <2>4. TameInv'
    BY <1>14 DEF ReportConnected, mgr, TameInv, Covered, Pending, IsBitSet
  <2>5. QED
    BY <2>1, <2>2, <2>3, <2>4
<1>15. CASE failed = None /\ ReadStopCommand
  <2>1. TypeOK'
    BY <1>15 DEF ReadStopCommand, mgr
  <2>2. AcceptorInv'
    BY <1>15 DEF ReadStopCommand, history, AcceptorInv, IsBitSet
  <2>3. ServedInv'
    BY <1>15 DEF ReadStopCommand, mgr, history, ServedInv, Pending
  <2>4. TameInv'
    BY <1>15 DEF ReadStopCommand, mgr, history, TameInv, Covered, Pending, IsBitSet
  <2>5. QED
    BY <2>1, <2>2, <2>3, <2>4
<1>16. ASSUME failed = None, NEW c \in Client, Accept(c) PROVE IInv'
  <2>1. TypeOK'
    BY <1>16 DEF Accept, mgr
  <2>2. AcceptorInv'
    BY <1>16 DEF Accept, AcceptorInv, IsBitSet
  <2>3. ServedInv'
    BY <1>16 DEF Accept, mgr, AcceptorInv, ServedInv, Pending
  <2>4. TameInv'
    BY <1>16 DEF Accept, Destroyed, mgr, TameInv, Covered, Pending, IsBitSet
  <2>5. QED
    BY <2>1, <2>2, <2>3, <2>4
<1>17. ASSUME failed = None, NEW c \in Client, ReportDisconnected(c) PROVE IInv'
  <2>1. TypeOK'
    BY <1>17 DEF ReportDisconnected
  <2>2. AcceptorInv'
    BY <1>17 DEF ReportDisconnected, AcceptorInv, IsBitSet
  <2>3. ServedInv'
    BY <1>17 DEF ReportDisconnected, ServedInv, Pending
  <2>4. TameInv'
    BY <1>17 DEF ReportDisconnected, TameInv, Covered, Pending, IsBitSet
  <2>5. QED
    BY <2>1, <2>2, <2>3, <2>4
<1>18. ASSUME failed = None, NEW c \in Client, RemoveClient(c) PROVE IInv'
  <2>1. TypeOK'
    BY <1>18 DEF RemoveClient, ServedInv
  <2>2. AcceptorInv'
    BY <1>18 DEF RemoveClient, history, AcceptorInv, IsBitSet
  <2>3. ServedInv'
    BY <1>18 DEF RemoveClient, history, ServedInv, Pending
  <2>4. TameInv'
    BY <1>18 DEF RemoveClient, history, TameInv, Covered, Pending, IsBitSet
  <2>5. QED
    BY <2>1, <2>2, <2>3, <2>4
<1>19. CASE UNCHANGED vars
  BY <1>19 DEF vars, mgr, history, AcceptorInv, ServedInv, TameInv, Covered,
         Pending, IsBitSet
<1>20. QED
  BY <1>1, <1>2, <1>3, <1>4, <1>5, <1>6, <1>7, <1>8, <1>9, <1>10, <1>11, <1>12, <1>13,
     <1>14, <1>15, <1>16, <1>17, <1>18, <1>19 DEF Next, Command, Continue, Acceptor

-----------------------------------------------------------------------------
\* IInv holds in every behaviour.
LEMMA Invariance == Spec => []IInv
  BY InitIInv, StepIInv, PTL DEF Spec

\* The variables keep to their types - no client is ever listened to by three threads
\* - and the flags tell what runs (TcpServerController's state_flags against the two
\* threads they stand for), in every order of commands.
THEOREM FlagsTellWhatRuns == Spec => []FlagsExact
<1>1. IInv => FlagsExact
  BY DEF IInv, AcceptorInv, TameInv, FlagsExact, Idle
<1>2. QED
  BY <1>1, Invariance, PTL

\* A server used as intended never ends the process: no thread is assigned over, no
\* missing thread is joined, no destroyed object is used.
THEOREM IntendedUseIsSafe == Spec => []TameNeverFails
<1>1. IInv => TameNeverFails
  BY DEF IInv, TameInv, TameNeverFails
<1>2. QED
  BY <1>1, Invariance, PTL

\* StartClientSvcMgr finds every listed client and the acceptor hands over the others:
\* a listed client is served, however often the services are switched off and on.
THEOREM NoClientForgotten == Spec => []ListedIsServed
<1>1. IInv => ListedIsServed
  <2> SUFFICES ASSUME IInv, Idle, tame, is_running, NEW c \in db
               PROVE  served[c] > 0 \/ acceptor = [pc |-> "handover", client |-> c]
    BY DEF ListedIsServed
  <2>1. served[c] > 0 \/ Pending(c)
    BY DEF IInv, TameInv, Covered
  <2>2. acceptor = [pc |-> acceptor.pc, client |-> acceptor.client]
    BY DEF IInv, AcceptorInv
  <2>3. QED
    BY <2>1, <2>2 DEF Pending
<1>2. QED
  BY <1>1, Invariance, PTL

\* After Stop the only clients still served are those that were handed to a manager
\* that did not run, or were listed and handed over at once.
THEOREM StopLeavesOnlyStrays == Spec => []StoppedServesOnlyStrays
<1>1. IInv => StoppedServesOnlyStrays
  BY DEF IInv, TypeOK, ServedInv, TameInv, StoppedServesOnlyStrays, Idle
<1>2. QED
  BY <1>1, Invariance, PTL

\* OnClientDisconnected runs ahead of OnClientConnected only while the acceptor is at
\* work on that client.
THEOREM EveryPartingIsOfAClientMet == Spec => []EarlyPartingIsReported
<1>1. IInv => EarlyPartingIsReported
  BY DEF IInv, TypeOK, ServedInv, EarlyPartingIsReported
<1>2. QED
  BY <1>1, Invariance, PTL
=============================================================================
