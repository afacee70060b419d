SPECIFICATION Spec
CONSTANTS
  Workload = {w1, w2}
  Foreign = {w2}
  Node = {n1, n2}
  Specs <- RepeatingSpecs
  Topologies <- MixedOrLocal
  Absent = Absent
  Empties <- NoStatus
  MaxSpecs = 1
  MaxTopos = 0
  MaxLag = 2
  MaxFailures = 1
  MaxCrashes = 1
SYMMETRY Symmetry
INVARIANTS
  TypeOK
  FreshIsCurrent
  ConstructsWanted
  
  IndicesInRange
PROPERTIES
  NoUserChangeLost
