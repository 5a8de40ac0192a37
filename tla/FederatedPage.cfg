SPECIFICATION Spec
CONSTANTS
  Source = {1, 2}
  Name <- MCName
  ColumnOrder <- MCColumnOrder
  Setups <- MCSetups
  Schemas <- MCSchemas
  Altered <- MCAltered
  Queries <- MCQueries
  Timed = {1, 2}
  MaxChanges = 1
INVARIANTS AnswerIsPage FailureIsIsolated
PROPERTIES Answered
CHECK_DEADLOCK FALSE
