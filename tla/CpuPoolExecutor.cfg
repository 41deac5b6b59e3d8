CONSTANTS
  NumThreads = 2
  Jobs = {j1, j2}
  Impatient = {j2}
SPECIFICATION FairSpec
INVARIANTS QueueIsServed StopDrains ResultIsTrue ResultSentOnce
PROPERTIES ClientIsAnswered StopReturns
CHECK_DEADLOCK FALSE
