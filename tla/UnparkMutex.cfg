CONSTANTS
  Workers = {w1, w2}
  Wakers = {k1, k2, k3}
  MaxEvents = 2
SPECIFICATION MutexFairSpec
INVARIANTS OneRunnable FailedWaitSeesRepoll NoLostWakeup
PROPERTIES EventIsTaken ImplementsTask
CHECK_DEADLOCK FALSE
