SPECIFICATION FairSpec
CONSTANTS
  r1 = r1
  r2 = r2
  q1 = q1
  w1 = w1
  w2 = w2
  ReaderOrder <- OneReader
  OneShot = {}
  Processors = {q1}
  Writers = {w1, w2}
  Accepts <- SplitRoutes
  RoutesNameAll = TRUE
  QueueCapacity = 2
  AllowForce = TRUE
  MaxBatches = 2
INVARIANTS NoBatchLost WritersOutliveConsumer DeliveryOrder ForcedQueueStaysEmpty
PROPERTIES ImplementsBus PushReturns
