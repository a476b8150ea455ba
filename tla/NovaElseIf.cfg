CONSTANTS
  Families <- ElseIfFamilies
  Expressions <- OneExpression
  UIntMax = 7
SPECIFICATION NovaSpec
INVARIANT UnreachableNeverRuns
CHECK_DEADLOCK FALSE
