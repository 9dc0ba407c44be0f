\* The shortest session in which a record outlives it.
SPECIFICATION Spec
CONSTANTS
  Writers = {"writer", "dispatcher"}
  Loggers = {"task"}
  MaxRequests = 2
  MaxRecords = 1
  MaxTexts = 0
CHECK_DEADLOCK FALSE
INVARIANT AfterExitOnlyText
