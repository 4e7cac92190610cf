SPECIFICATION FairSpec
CONSTANTS
  Listener = {l1}
  MaxMsgs = 1
  InitRunning = {FALSE}
PROPERTIES StopReturns
CHECK_DEADLOCK FALSE
