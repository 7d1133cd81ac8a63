--------------------------- MODULE MCGrowDataset ---------------------------
(* Two processes, a work first held at dates 1 and 3 and later also at 2,   *)
(* and two bills that both renumber in the last window, where evidence      *)
(* finds a change of the first.                                             *)
EXTENDS GrowDataset, TLC

CONSTANTS b1, b2

MCDate == 1..3
MCFirstDates == {1, 3}
MCBill == {b1, b2}
MCStated ==
  {s \in Statement :
     s.window = <<2, 3>> /\ (s.method = "evidence" => s.bill = b1)}

(* Every command that writes no metadata and adds no window, beside any.    *)
BesideSettle ==
  {b \in Command \X Command : "settle" \in {b[1], b[2]}}

(* Commands whose metadata or transactions meet.                            *)
TwoWriters ==
  {<<"link-by-evidence", "redesignations">>,
   <<"redesignations", "link-by-evidence">>}
RedesignationsBesideReleasePoints ==
  {<<"redesignations", "add-release-points">>,
   <<"add-release-points", "redesignations">>}

Symmetry == Permutations(Proc) \cup Permutations(Declaration)
=============================================================================
