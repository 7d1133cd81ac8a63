SPECIFICATION Spec
CONSTANTS
  C1 = C1
  C2 = C2
  None = None
  Numbers <- MCNumbers
  Letters <- MCLetters
  Numerals <- MCNumerals
  Style <- MCStyle
  ClauseDepth = 5
  Title = "26"
  YearOf <- MCYear
  Case = {C1, C2}
  Orders <- MCOrders
  Decided <- MCDecided
  Texts <- MCTexts
  Date = {1, 3, 5}
  Trees <- MCTrees
  Refutations = 1
INVARIANTS LinksAreRead SilentIsTrue AskedAsWritten ReadersAgree TallyIsTrue WordsAreRead
