SPECIFICATION ClusterSpec
CONSTANTS
  Hosts <- OneHost
  InitialWorlds <- FirstWorlds
  NoItf = NoItf
  NoResource = NoResource
  NoVlan = NoVlan
  MayFail = {}
  MaxChanges = 1
  MaxFailures = 0
  MaxCrashes = 1
  node = n1
  Workload = {w1}
  Specs <- OneSpec
  Absent = Absent
  Empties <- NoStatus
  MaxLag = 2
  MaxRestarts = 1
INVARIANTS
  StatusIsSnapshot
PROPERTIES
  WorkloadsFollowHost
