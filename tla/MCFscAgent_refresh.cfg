SPECIFICATION Spec
CONSTANTS
  Hosts <- RefreshHost
  InitialWorlds <- SriovInitial
  NoItf = NoItf
  NoResource = NoResource
  NoVlan = NoVlan
  MayFail = {}
  MaxChanges = 1
  MaxFailures = 0
  MaxCrashes = 0
PROPERTIES
  EventuallyCurrent
