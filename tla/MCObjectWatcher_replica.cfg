SPECIFICATION Spec
CONSTANTS
  Key = {k1}
  Thread = {t1, t2}
  None = None
  Kinds <- Kind
  MaxRev = 3
  MaxErrors = 7
INVARIANTS
  TypeOK
  NoSharedKey
  NoLostUpdate
PROPERTIES
  NeverBackwards
  Converges
  ImplementsReplica
CHECK_DEADLOCK FALSE
