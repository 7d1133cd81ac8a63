----------------------------- MODULE MCReviews -----------------------------
(* Two reviewers, and two citation links a rebuild keeps, splits, merges.  *)
EXTENDS Reviews, TLC

CONSTANTS s1, s2, ann, ben, l1, l2

OneEach == s1 :> ann @@ s2 :> ben

(* Both links keep their ids in the rebuild, and what l1 said is also said  *)
(* by l2: l1 splits, and reviews of the two may merge in l2.                *)
SplitAndMerged == {<<l1, l1>>, <<l1, l2>>, <<l2, l2>>}
=============================================================================
