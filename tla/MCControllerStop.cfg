SPECIFICATION Spec
CONSTANTS
  Client = {c1}
  None = None
  InitFlags <- MCZeroFlags
  InitRunning <- MCNotRunning
INVARIANT StopStopsServing
CHECK_DEADLOCK FALSE
