SPECIFICATION MCSpec
CONSTANTS
  Callers = {c1, c2}
  Ids = {d, p1, p2}
  Default = d
  Contents = {v1, v2}
  Sample = sample
  Legacy = legacy
  None = none
  LegacyIn = {"key", "db"}
  Ops = {"load", "save", "list", "select", "create", "rename", "delete", "clear"}
INVARIANT ConsistentAlone
PROPERTY KeepsOneProfile
PROPERTY ImplementsStoreAlone
PROPERTY MigrationCompletesAlone
