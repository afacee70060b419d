SPECIFICATION Spec
CONSTANTS
  Hosts <- SingleHost
  InitialWorlds <- SingleWorlds
  NoItf = NoItf
  NoResource = NoResource
  NoVlan = NoVlan
  MayFail = {"netlink", "lldp"}
  MaxChanges = 3
  MaxFailures = 1
  MaxCrashes = 1
INVARIANTS
  FlagsAgree
PROPERTIES
  PublishedWhenChanged
  EventuallyRecovers
  Quiesces
