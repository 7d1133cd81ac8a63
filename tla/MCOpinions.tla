---------------------------- MODULE MCOpinions -----------------------------
(* Two cases, one title whose section 174 changes, loses a subdivision and  *)
(* is removed, and words that are cut, listed, bare, ranged and marked.     *)
EXTENDS Opinions

CONSTANTS C1, C2

MCNumbers == << "1", "2", "3", "4" >>
MCLetters == { << "a", "b", "c" >>, << "h", "i", "j" >> }
MCNumerals == { << "i", "ii", "iii" >> }
MCStyle == [d \in {"1", "2", "3", "4"} |-> "digit"] @@ [d \in {"a", "b", "c", "h", "i", "ii", "iii", "j"} |-> "lower"]
MCYear == 1 :> 2001 @@ 3 :> 2003 @@ 5 :> 2005
MCDecided == C1 :> 2 @@ C2 :> 3

-----------------------------------------------------------------------------
S1 == << <<"1">> >>
S2 == << <<"2">> >>
A == S1 \o <<"a">>
A1 == S1 \o <<"a", "1">>
A2 == S1 \o <<"a", "2">>
B == S1 \o <<"b">>

First == [p \in {S1, A, A1, A2, S2} |-> 0]
Struck == [p \in {S1, A, A2, B} |-> IF p = A THEN 1 ELSE 0]

MCTrees == { First, Struck }

-----------------------------------------------------------------------------
Num(n) == Section(<<n>>, <<>>, <<>>, "whole", None)
Sub(n, below) == Section(<<n>>, below, <<>>, "whole", None)
Ranged(n, below, to) == Section(<<n>>, below, to, "whole", None)
Dashed(n, m) == Section(<<n, m>>, <<>>, <<>>, "whole", None)
Marked(n, label) == Section(<<n>>, <<>>, <<>>, "marked", label)
Cut(n) == Section(<<n>>, <<>>, <<>>, "cut", None)
T26 == Num("26")
T42 == Num("42")
Sign == Marker(FALSE, FALSE)
Signs == Marker(TRUE, FALSE)
Sec == Marker(FALSE, TRUE)
Secs == Marker(TRUE, TRUE)

Para(words) == [ words |-> words, footnote |-> None ]
Note(label, words) == [ words |-> words, footnote |-> label ]

Cites(w, at, written, full, edition) ==
  [ writing |-> w, start |-> at, title |-> "26", written |-> written, full |-> full, edition |-> edition ]
Plain(w, at, written) ==
  Cites(w, at, written, << written.sec >> \o written.below, None)

\* One citation cut by a break, and one that a further section follows.
Broken ==
  [ writings |-> << << Para(<< Word, T26, Reporter >>),
                       Para(<< Sign, Sub("1", <<"a", "1">>), Comma, Num("2"), Comma, T42, Reporter, Sign, Num("1") >>) >> >>,
    means |-> { Plain(1, 2, Sub("1", <<"a", "1">>)), Plain(1, 2, Num("2")) } ]

\* A default stated in the second writing; bare references in the first, of
\* which one names a regulation and one another law.
Bare ==
  [ writings |-> << << Para(<< Sec, Sub("1", <<"a">>), Word, OtherLaw, Sec, Sub("1", <<"b">>), Sec, Num("2"), OfALaw >>),
                       Para(<< Irc, Signs, Num("2"), Comma, Sub("1", <<"b">>), Sign, Num("2") >>) >>,
                    << Para(<< StatesDefault(TRUE, 2003) >>) >> >>,
    means |-> { Plain(1, 1, Sub("1", <<"a">>)), Plain(1, 10, Num("2")), Plain(1, 10, Sub("1", <<"b">>)) } ]

\* A range of paragraphs, and a range of sections.
Ranges ==
  [ writings |-> << << Para(<< T26, Reporter, Signs, Ranged("1", <<"a", "1">>, <<"3">>) >>),
                       Para(<< T26, Reporter, Signs, Dashed("1", "2") >>) >> >>,
    means |-> { Cites(1, 1, Ranged("1", <<"a", "1">>, <<"3">>), S1 \o <<"a", n>>, None) : n \in {"1", "2", "3"} }
              \cup { Cites(1, 5, Dashed("1", "2"), s, None) : s \in {S1, S2} } ]

\* No marker: a subdivision makes it a section, and a bare number may be a
\* page.  A footnote's mark against a number, and one that is no footnote's.
Marks ==
  [ writings |-> << << Para(<< T26, Reporter, Sub("1", <<"a", "1">>), T26, Reporter, Num("1"), T26, Reporter, Sign, Cut("2") >>),
                       Para(<< T26, Reporter, Sign, Marked("2", "6"), T26, Reporter, Sign, Marked("1", "7") >>),
                       Note("6", << Word >>) >> >>,
    means |-> { Plain(1, 1, Sub("1", <<"a", "1">>)), Cites(1, 11, Section(<<"2">>, <<>>, <<>>, "whole", "6"), S2, None) } ]

\* One subdivision twice in a passage, once by its edition, and a dissent.
Editions ==
  [ writings |-> << << Para(<< T26, Reporter, Sign, Sub("1", <<"a", "1">>), EditionOf(2001), Word, T26, Reporter, Sign, Sub("1", <<"a", "1">>), EditionOf(1999) >>) >>,
                    << Para(<< T26, Reporter, Sign, Sub("1", <<"a", "1">>), EditionOf(1999) >>) >> >>,
    means |-> { Cites(1, 1, Sub("1", <<"a", "1">>), A1, 2001), Cites(1, 7, Sub("1", <<"a", "1">>), A1, 1999),
                Cites(2, 1, Sub("1", <<"a", "1">>), A1, 1999) } ]

OneCite ==
  [ writings |-> << << Para(<< T26, Reporter, Sign, Sub("1", <<"a", "2">>) >>) >> >>,
    means |-> { Plain(1, 1, Sub("1", <<"a", "2">>)) } ]

MCTexts == C1 :> { Broken, Bare, Ranges, Marks, Editions } @@ C2 :> { OneCite }
MCOrders == { << C1, C2 >> }
=============================================================================
