SPECIFICATION ProcessSpec
CONSTANTS
  Watcher = {configmap, multus}
  Timer = timer
  configmap = configmap
  Resource <- AllResources
  Name <- AllNames
  NoName = NoName
  Torn = Torn
  Configs <- AllConfigs
  Absent = Absent
  Unparsable = Unparsable
  Attachment <- OneAttachment
  MaxChanges = 1
  MaxCrashes = 1
INVARIANTS
  TypeOK
  ProcessTypeOK
  OneTickToCome
  SendersQueued
  MapFollowsConfig
PROPERTIES
  EverySenderServed
  AlwaysTicks
  EventuallyNamed
  EventuallySteady
  ImplementsWorkLoop
