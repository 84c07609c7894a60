SPECIFICATION FairSpec
CONSTANTS
  Requests <- ClientRequests
  WhoIsRanges <- Ranges
  Storable = {1, 2, 3}
  FactoryNames <- SomeNames
  FactorySettings <- SomeSettings
  ClockSize = 6
  Interval = 2
  MaxAge = 7
  MaxWrites = 2
INVARIANTS
  TypeOK
  AcknowledgedIsRead
  ListIsTrue
PROPERTIES
  UptimeFollows
  WhoIsAnswered
