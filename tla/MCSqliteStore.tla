--------------------------- MODULE MCSqliteStore ---------------------------
(***************************************************************************)
(* Two works, one of them at two dates.  A long document has two nodes at  *)
(* one path, and a node that says the query in two fields; a short one     *)
(* replaces it.  Readers ask of a work, of dates, of a path and of what is *)
(* beneath it, also in another case than the documents have it, where LIKE *)
(* finds what the dataset in memory does not.                              *)
(***************************************************************************)
EXTENDS SqliteStore, TLC

s1 == <<"s1">>
s1a == <<"s1", "a">>
s1b == <<"s1", "b">>
S1 == <<"S1">>

MCPath == {s1, s1a, s1b, S1}

Long ==
  <<[path |-> s1, says |-> {}],
    [path |-> s1a, says |-> {"content"}],
    [path |-> s1a, says |-> {"heading", "footnotes"}]>>

Short == <<[path |-> s1, says |-> {"content"}], [path |-> s1b, says |-> {"heading"}]>>

MCTree == {Long, Short}

(* Work 1 is held at up to three dates, work 2 at one of them.              *)
MCExpr == {<<1, 1>>, <<1, 2>>, <<1, 3>>, <<2, 2>>}

MCAbout == [l \in Link |-> <<1, 2>>]

(* One empty dataset, and one a person has confirmed a link in.            *)
MCSaved ==
  {[laws |-> [e \in Expr |-> None], links |-> [l \in Link |-> None], runs |-> {}],
   [laws |-> [[e \in Expr |-> None] EXCEPT ![<<1, 2>>] = Short, ![<<2, 2>>] = Long],
    links |-> [l \in Link |-> "human"], runs |-> {}]}

Everywhere == [work |-> Every, window |-> Every, path |-> Every, matching |-> "subtree"]

MCAsked ==
  {Everywhere,
   [Everywhere EXCEPT !.work = 1],
   [Everywhere EXCEPT !.work = 2, !.window = <<1, 1>>],
   [Everywhere EXCEPT !.window = <<2, 2>>],
   [Everywhere EXCEPT !.path = s1, !.matching = "exact"],
   [Everywhere EXCEPT !.path = s1, !.work = 1],
   [Everywhere EXCEPT !.path = s1b],
   [Everywhere EXCEPT !.path = S1]}

(* The case a segment is read in: LIKE knows one only.                     *)
LowerCase(segment) == IF segment = "S1" THEN "s1" ELSE segment

(* What LIKE takes for beneath a path: no path here has a `_`.             *)
InAnyCase ==
  {pair \in MCPath \X MCPath :
     /\ Len(pair[1]) < Len(pair[2])
     /\ \A i \in DOMAIN pair[1] : LowerCase(pair[1][i]) = LowerCase(pair[2][i])}

Symmetry == Permutations(Proc)
=============================================================================
