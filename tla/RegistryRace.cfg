SPECIFICATION Spec
CONSTANTS
  Mapping = {m1, m2}
  Source = {s1}
  Version = {v1, v2}
  Field = {f1, f2}
  Bodies = {{{f1}}, {{f2}}}
  Sessions = {r1, r2}
  Ops = {"create", "validate", "activate"}
  PutStatuses = {}
INVARIANTS OneActive
CHECK_DEADLOCK FALSE
