SPECIFICATION WorkSpec
CONSTANTS
  Lower <- LowerCase
  Parts <- Spelling
  Mark <- Marks
  Common = {"and"}
  FewWords = 1
  FirstWords = 2
  Classified <- Rows
  Books <- WorkBooks
  FirstDoc <- TwoSections
  Windows = 2
  Edits = 2
  Versions = 2
  Work = 4
CHECK_DEADLOCK FALSE
INVARIANTS RefutedIsWork OutdatedIsTrue
PROPERTY RunSettles
