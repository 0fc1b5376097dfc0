CONSTANTS
  f1 = f1
  f2 = f2
  Files = {f1, f2}
  api = api
  worker = worker
  Purgers = {api, worker}
  Worker = worker
  None = None
  MaxDeletes = 0
  MaxFaults = 0
  MaxCrashes = 2
SPECIFICATION FairSpec
PROPERTY ReservationResolved
CHECK_DEADLOCK FALSE
