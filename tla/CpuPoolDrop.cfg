CONSTANTS
  NumThreads = 1
  Jobs = {j1}
  Impatient = {j1}
SPECIFICATION Spec
INVARIANTS DroppingIsEnough
CHECK_DEADLOCK FALSE
