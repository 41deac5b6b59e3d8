CONSTANTS
  Tasks = {t1}
  Foreign = {f1}
  MaxPolls = 2
  MaxRuns = 1
SPECIFICATION PlainThreadSpec
PROPERTIES ScheduledIsPolled
CHECK_DEADLOCK FALSE
