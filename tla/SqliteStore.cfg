SPECIFICATION Spec
CONSTANTS
  Expr <- MCExpr
  Path <- MCPath
  Tree <- MCTree
  Link = {l1}
  About <- MCAbout
  Writes = {"machine"}
  None = None
  Every = Every
  Proc = {p1, p2}
  Saved <- MCSaved
  MaxNodes = 3
  Asked <- MCAsked
  Likes <- InAnyCase
SYMMETRY Symmetry
INVARIANTS IndexIsDocuments ReadersAlike LoadedRunsHaveLinks
PROPERTY KeepsMemory
