----------------------------- MODULE MCWorkList -----------------------------
EXTENDS WorkList, MCEvidenceMatching

(* One law edits (a), and another edits what it wrote.                     *)
Twice ==
  LET quoted == <<Quoted("struck", <<"v">>), Quoted("inserted", <<"z">>)>>
  IN <<Law(Bill(<<Level(1, "a", Amended(SectionOf26("1", <<"a">>)))>>), <<Edits1(2)>>),
       Law(Bill(<<Level(1, "a", Amended([Section1("1", <<>>, "revenue code")
                                           EXCEPT !.units = <<<<"a">>>>]))>>),
           <<Act(2, "second", {"amend", "delete", "insert"}, quoted, NoBlocks,
                 <<Reword(<<S1, A>>, <<"v">>, <<"z">>)>>)>>)>>

WorkBooks == {ReadBook(laws) : laws \in {Twice, TwoItems}}
=============================================================================
