SPECIFICATION Spec
CONSTANTS
  bill = bill
  actions = actions
  vote = vote
  roster = roster
  m1 = m1
  m2 = m2
  Worker = {"w1", "w2"}
  Main = "main"
  Member = {m1, m2}
  Page = {bill, actions, vote, roster}
  Parts <- Listed
INVARIANTS GapsAreNamed OfflineAnswers
PROPERTIES WaitsOnce DownloadEnds
