CONSTANTS
  Writers = {w1, w2, w3, w4}
  Readers = {r1, r2}
  MaxSize = 2
SPECIFICATION FairSpec
INVARIANTS Balanced ServedIsAwake CrashNeedsBackpressure
PROPERTIES ImplementsFifo HandedIsTaken
CHECK_DEADLOCK FALSE
