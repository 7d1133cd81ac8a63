SPECIFICATION Spec
CONSTANTS
  Lower <- LowerCase
  Parts <- Spelling
  Mark <- Marks
  Common = {"and"}
  FewWords = 1
  FirstWords = 2
  Classified <- Rows
  Books <- AllBooks
  FirstDoc <- TwoSections
  Windows = 3
  Edits = 3
CHECK_DEADLOCK FALSE
INVARIANTS OneCause LinksAreTrue
PROPERTY LinksStand
