SPECIFICATION Spec
CONSTANTS
  Hosts <- AttachHost
  InitialWorlds <- OneAttachedOnly
  NoItf = NoItf
  NoResource = NoResource
  NoVlan = NoVlan
  MayFail = {}
  MaxChanges = 1
  MaxFailures = 0
  MaxCrashes = 0
PROPERTIES
  EventuallyAligned
