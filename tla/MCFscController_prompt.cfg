SPECIFICATION Spec
CONSTANTS
  Workload = {w1}
  Foreign = {}
  Node = {n1, n2}
  Specs <- TwoSpecs
  Topologies <- EitherVlan
  Absent = Absent
  Empties <- NoStatus
  MaxSpecs = 0
  MaxTopos = 2
  MaxLag = 2
  MaxFailures = 1
  MaxCrashes = 1
PROPERTIES
  AugmentedUnlessRefused
  EventuallyQuiet
