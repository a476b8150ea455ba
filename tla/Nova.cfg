CONSTANTS
  Families <- AllFamilies
  Expressions <- AllExpressions
  UIntMax = 7
SPECIFICATION NovaSpec
INVARIANTS
  UnreachableNeverRuns FallsThroughOnlyIfReported UnassignedReadsReported InferredResultHolds RepairsPreserveRuns
   ConstantsHold RangesHold
CHECK_DEADLOCK FALSE
