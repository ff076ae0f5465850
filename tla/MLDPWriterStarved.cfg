SPECIFICATION FairSpec
CONSTANTS
  WorkerCount = 2
  MinConnections = 1
  MaxConnections = 1
  StreamMaxBytes = 2
  MaxFramesPerStream = 2
  Batches <- SmallBatches
  MaxItems = 2
PROPERTIES StopReturns
CHECK_DEADLOCK FALSE
