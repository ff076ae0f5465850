SPECIFICATION HDF5Spec
CONSTANTS
  MaxBytes = 2
  MaxAge = 2
  MaxClock = 1
  MaxBatches = 3
  MaxFaults = 0
INVARIANT LayoutOrOldFilesKept
CHECK_DEADLOCK FALSE
