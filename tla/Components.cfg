SPECIFICATION FamilySpec
CONSTANTS
  s1 = s1
  s2 = s2
  Sources = {s1, s2}
  ShapesOf <- MixedShapes
  Configs <- AllConfigs
  MaxFrame = 2
  MaxFrames = 2
  MaxSamples = 3
  MaxOutputs = 1
  MaxQueued = 2
  Clients = {"a", "b"}
  MaxCreates = 4
  MaxIoFaults = 2
  MaxCrashes = 2
  Statements = {"a", "b"}
  Labels = {"group-by", "wide-sort"}
  MaxArtifacts <- FewArtifacts
  MaxRows = 2
  MaxSpillFaults = 1
  Scans <- ScanRequests
  Second = 2
  Horizon = 6
  NumShards = 3
  MaxReadFaults = 1
  Records = {1, 2}
  Fields = {"a", "b"}
  WriterConfigs <- PinnedWriters
  MaxItems = 3
  MaxRpcFaults = 1
  ThreadCounts = {1, 2, 3}
  MaxQueueDepth = 1
  NumPVs = 1
  MaxDsScans = 4
  MaxRpcErrors = 1
  MaxBadTables = 1
  PVList <- ArchivedPVs
  ArchiverConfigs <- ExactConfigs
  Poll = 2
  MaxDelay = 1
  MaxSpan = 2
  MaxNow = 7
  MaxFetchFaults = 1
  MaxBytes = 2
  MaxAge = 2
  MaxClock = 2
  MaxBatches = 3
  MaxFaults = 1
  Calendars <- PostedEvents
  RangeEnd = 5
  WindowLength = 2
  MaxScans = 2
  MaxHttpFaults = 1
INVARIANTS
  QuietAfterStop AllUpdatedIsFresh NoMissedFiring SlotIsNewest
  RowsAccounted FilesSound ScanExact ScanNeverStarves PersistentTablesSound SpillsSound
  ArchiveExact RecordsMerged ActivationsExact TablesPublished
