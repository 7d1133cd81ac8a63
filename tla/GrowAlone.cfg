SPECIFICATION Spec
CONSTANTS
  Proc = {p1, p2}
  NoProc = NoProc
  Date <- MCDate
  FirstDates <- MCFirstDates
  b1 = b1
  b2 = b2
  Bill <- MCBill
  NoBill = NoBill
  Declaration = {d1, d2}
  NoDeclaration = NoDeclaration
  Stated <- MCStated
  Beside <- BesideSettle
  SlowWrites = TRUE
SYMMETRY Symmetry
INVARIANTS RunsHaveLinks
PROPERTIES RunsKept DeclarationKept KeepsLedger
