CONSTANTS
  Values = {v}
  MaxLines = 5
SPECIFICATION Spec
CHECK_DEADLOCK FALSE
INVARIANTS
  EveryBlockDispatched
  FieldsAreLast
