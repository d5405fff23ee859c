SPECIFICATION Spec
CONSTANTS
  Callers = {c1}
  Ids = {d}
  Default = d
  Contents = {v1}
  Sample = sample
  Legacy = legacy
  None = none
  LegacyIn = {"key", "db"}
  Ops = {"load", "list"}
PROPERTY OldDataDeletedLast
