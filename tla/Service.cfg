SPECIFICATION FairSpec
CONSTANTS
  api = api
  x1 = x1
  x2 = x2
  host = host
  Generators = {api, x1, x2}
  Host <- OneHost
  Extractors = {x1, x2}
  Table <- Tables
  WorkerId <- WorkerIds
  WorkerIdCount = 2
  SequenceCount = 2
  MaxFailures = 1
  MaxStepsBack = 1
  LastCall = 2
  MaxClock = 2
  MaxIds = 4
INVARIANTS
  PrimaryKeysUnique
  IdsAscend
  BucketRaceLostOnce
PROPERTY NextIdReturns
CHECK_DEADLOCK FALSE
