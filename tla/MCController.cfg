SPECIFICATION FairSpec
CONSTANTS
  Client = {c1, c2}
  None = None
  InitFlags <- MCAnyFlags
  InitRunning <- MCAnyRunning
INVARIANTS TameNeverFails FlagsExact ListedIsServed StoppedServesOnlyStrays
           EarlyPartingIsReported
 
CHECK_DEADLOCK FALSE
