SPECIFICATION Spec
CONSTANTS
  Mapping = {m1, m2, m3}
  Source = {s1, s2}
  Version = {v1, v2}
  Field = {f1}
  Bodies = {{}, {{f1}}}
  Sessions = {r1}
  Ops = {"create", "version", "status", "replace", "add_entity", "validate", "activate", "delete"}
  PutStatuses = {"DRAFT", "ERROR"}
SYMMETRY Symmetry
INVARIANTS OneActive
PROPERTIES HandOver
CHECK_DEADLOCK FALSE
