CONSTANTS
  NConns = 2
  NReqs = 3
  MaxIdles = 1
  MaxRows = 1
SPECIFICATION FairSpec
INVARIANTS OneAtATime OnlyGoodOnesArePooled StartedIsOwned
PROPERTIES RequestsEnd
CHECK_DEADLOCK FALSE
