SPECIFICATION Spec
CONSTANTS
  None = None
  Future = Future
  Corrupt = Corrupt
  d1 = d1
  d2 = d2
  Devices <- MCDevices
  Keys <- MCKeys
  Batches <- MCBatches
  History <- MCHistory
  MaxItems = 2
  Floor = 2
  Horizon = 4
  MaxStarts = 3
  MaxUploads = 3
  MaxTime = 5
CHECK_DEADLOCK FALSE
INVARIANT AckStored
INVARIANT MergeIsJoin
INVARIANT HistoryKept
INVARIANT ReadyUsable
