SPECIFICATION FairSpec
CONSTANTS
  WorkerCount = 2
  MinConnections = 1
  MaxConnections = 2
  StreamMaxBytes = 2
  MaxFramesPerStream = 2
  Batches <- MixedBatches
  MaxItems = 2
INVARIANTS ConnectionsOwned StreamLimits FramesAccounted StopFlushes
PROPERTIES StopReturns AgedStreamsClose
