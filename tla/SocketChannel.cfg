CONSTANTS
  Writes = {w1, w2}
  Vecs <- SomeVecs
  PeerMax = 2
SPECIFICATION FairSpec
INVARIANTS PendingIsWatched StreamIsWhole
PROPERTIES EofIsLast ShutdownHappens
CHECK_DEADLOCK FALSE
