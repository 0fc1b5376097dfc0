CONSTANTS
  f1 = f1
  f2 = f2
  f3 = f3
  Files = {f1, f2, f3}
  api = api
  worker = worker
  Purgers = {api, worker}
  Worker = worker
  None = None
  MaxDeletes = 2
  MaxFaults = 3
  MaxCrashes = 2
SPECIFICATION FairSpec
INVARIANT TypeOK
INVARIANT RestorableOnDisk
INVARIANT VisibleDownloadable
INVARIANT ImportedOnlyAfterText
INVARIANT NoLeftovers
INVARIANT OneFilePerRequest
PROPERTY ExpiredPurged
CHECK_DEADLOCK FALSE
