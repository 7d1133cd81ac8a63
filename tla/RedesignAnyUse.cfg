SPECIFICATION Spec
CONSTANTS
  p3 = p3
  p4 = p4
  p5 = p5
  s1 = s1
  s2 = s2
  c1 = c1
  c2 = c2
  Date = {1, 2, 3, 4}
  Enacted = 2
  Stated <- Statements
  Provision = {p3, p4}
  MovesOf <- States
  Container = {c1, c2}
  ContainerOf <- In
  Documents <- TwoSubsections
  Verdicts = {"refuted", "confirmed"}
INVARIANTS LinksAreEvidence PlacedOnce GrownHoldsBuilt
CHECK_DEADLOCK FALSE
