CONSTANTS
  Tasks = {t1, t2}
  Foreign = {f1, f2}
  MaxPolls = 2
  MaxRuns = 2
SPECIFICATION FairSpec
INVARIANTS NeverSleepsOnWork ReturnAbandonsNobody NoDanglingWatcher
PROPERTIES ScheduledIsPolled StopReturns LocalRunReturns
CHECK_DEADLOCK FALSE
