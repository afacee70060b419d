SPECIFICATION Spec
CONSTANTS
  Watcher = {multus}
  Timer = timer
  Worker = fscagent
  MayEnable <- Either
  MaxCancels = 1
  MaxCrashes = 1
  MaxWriteFailures = 1
INVARIANTS
  TypeOK
  OnlyCancelCloses
PROPERTIES
  EventuallyServing
  ReadyAgain
  ReadyForGood
  FailureShows
