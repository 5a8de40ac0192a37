SPECIFICATION Spec
CONSTANTS
  Mapping = {m1}
  Source = {s1}
  Version = {v1}
  Field = {f1}
  Bodies = {{}, {{f1}}}
  Sessions = {r1, r2}
  Ops = {"create", "ingest", "version", "status", "replace", "add_entity", "delete_entity", "add_field", "delete_field", "validate", "activate", "delete", "logical", "sources"}
  PutStatuses = {"VALIDATED", "ACTIVE"}
SYMMETRY Symmetry
INVARIANTS TypeOK ActiveIsChecked
PROPERTIES DeletedForGood
CHECK_DEADLOCK FALSE
