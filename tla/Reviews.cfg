SPECIFICATION ReviewSpec
CONSTANTS
  s1 = s1
  s2 = s2
  ann = ann
  ben = ben
  l1 = l1
  l2 = l2
  Proc = {s1, s2}
  Reviewer = {ann, ben}
  ReviewerOf <- OneEach
  Link = {l1, l2}
  Again <- SplitAndMerged
  Settled = {"old"}
  MaxTime = 3
  None = None
INVARIANTS NewestStands CarriedAll
