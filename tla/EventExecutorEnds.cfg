CONSTANTS
  Tasks = {t1}
  Foreign = {f1}
  MaxPolls = 2
  MaxRuns = 1
SPECIFICATION FairSpec
PROPERTIES RunEndsWithItsTasks
CHECK_DEADLOCK FALSE
