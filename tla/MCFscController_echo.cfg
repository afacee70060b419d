SPECIFICATION Spec
CONSTANTS
  Workload = {w1}
  Foreign = {}
  Node = {n1}
  Specs <- OneSpec
  Topologies <- OneTopology
  Absent = Absent
  Empties <- NoStatus
  MaxSpecs = 0
  MaxTopos = 2
  MaxLag = 2
  MaxFailures = 0
  MaxCrashes = 0
PROPERTIES
  EventuallyAugmented
