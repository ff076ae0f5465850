SPECIFICATION FairSpec
CONSTANTS
  r1 = r1
  r2 = r2
  q1 = q1
  w1 = w1
  w2 = w2
  ReaderOrder <- TwoReaders
  OneShot = {r1, r2}
  Processors = {}
  Writers = {w1}
  Accepts <- AllToAll
  RoutesNameAll = TRUE
  QueueCapacity = 1
  AllowForce = TRUE
  MaxBatches = 1
INVARIANTS StopDrainsBus AutoCloseOnlyWhenAllComplete
PROPERTIES StopReturns CompletionNoticed AutoCloses
