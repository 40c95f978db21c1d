SPECIFICATION QueueSpec
CONSTANTS
  t1 = t1
  t2 = t2
  e1 = e1
  e2 = e2
  e3 = e3
  None = None
  Thread <- MCThread
  Event <- MCEvent
  Kept <- MCKept
PROPERTIES
  PoolSpec
  StoppedIsQuiet
  AllProcessed
  StopReturns
