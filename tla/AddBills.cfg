SPECIFICATION Spec
CONSTANTS
  b1 = b1
  b2 = b2
  b3 = b3
  m1 = m1
  m2 = m2
  Process = {"p", "q"}
  Bill = {b1, b2, b3}
  Member = {m1, m2}
  MembersOf <- Names
  CallsOf <- TwoCalls
  Undated = {b3}
  Asks <- AnyAsk
  Fails = TRUE
INVARIANTS LoadedIsWhole VotesOnce ReadersAgree
