SPECIFICATION Spec
CONSTANTS
  Segment = {"a", "b", "c"}
  Depth = 2
  First <- AnyFirst
  Windows = 2
  Edits = 2
  Provisions = 4
CHECK_DEADLOCK FALSE
INVARIANTS PairsProvisions ReadsBackwards HistoryIsOwn PathAgreesWithDiff
