CONSTANTS
  Retention = 2
  PageSize = 1
  PendingLimit = 2
  None = None
  MaxEvents = 4
  MaxSilent = 1
  MaxFaults = 1
SPECIFICATION FairSpec
INVARIANT TypeOK
INVARIANT PendingBounded
PROPERTY FeedKept
PROPERTY LiveEventDelivered
PROPERTY CaughtUp
CHECK_DEADLOCK FALSE
