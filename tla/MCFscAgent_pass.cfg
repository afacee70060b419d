SPECIFICATION Spec
CONSTANTS
  Hosts <- BondAndSriov
  InitialWorlds <- BondAndSriovInitial
  NoItf = NoItf
  NoResource = NoResource
  NoVlan = NoVlan
  MayFail = {"netlink", "lldp", "api"}
  MaxChanges = 2
  MaxFailures = 1
  MaxCrashes = 1
INVARIANTS
  TypeOK
  NoStaleMark
  NothingInvented
PROPERTIES
  PassExact
