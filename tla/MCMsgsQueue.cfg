SPECIFICATION FairSpec
CONSTANTS
  Listener = {l1, l2}
  MaxMsgs = 3
  InitRunning <- MCInitRunning
INVARIANTS DeliveredOnceInOrder FrontExists NoStrandedMessage
           HangOnlyIfMissed
PROPERTIES PushedIsDelivered StopReturnsUnlessMissed
\* A process that std::terminate has ended takes no step.
CHECK_DEADLOCK FALSE
