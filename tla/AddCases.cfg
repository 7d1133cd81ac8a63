CONSTANTS
  None = None
  HeadLines = 3
  Centred = 10
  Quota = 2
  MaxFailures = 1
SPECIFICATION MCSpec
INVARIANTS CaseIsWhole WritingsApart PagesAreTrue
PROPERTY AllStored
CHECK_DEADLOCK FALSE
