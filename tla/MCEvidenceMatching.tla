------------------------- MODULE MCEvidenceMatching -------------------------
EXTENDS EvidenceMatching

Words == {"1", "u", "v", "w", "x", "y", "z", "k", "l", "m", "n", "and", "V"}

Marks == {"(", ")", "\"", "["}

LowerCase == [t \in Words \cup Marks |-> IF t = "V" THEN "v" ELSE t]

Spelling == [t \in Words \cup Marks |-> <<t>>]

Seg(level, number) == [level |-> level, number |-> number]

S1 == Seg("section", "1")
S2 == Seg("section", "2")
S3 == Seg("section", "3")
S4 == Seg("section", "4")
K9 == Seg("chapter", "9")
A == Seg("subsection", "a")
B == Seg("subsection", "b")
C == Seg("subsection", "c")
P1 == Seg("paragraph", "1")
P2 == Seg("paragraph", "2")

ByNumber1(number) == [level |-> "any", number |-> number]

Node(path, above, words) == [path |-> path, above |-> above, words |-> words]

(* A section of two subsections, the first with a paragraph, and another.  *)
TwoSections ==
  [i \in {1, 10, 20, 21, 30, 60} |->
     CASE i = 1 -> Node(<<>>, 0, <<>>)
       [] i = 10 -> Node(<<S1>>, 1, <<"u">>)
       [] i = 20 -> Node(<<S1, A>>, 10, <<"x", "y">>)
       [] i = 21 -> Node(<<S1, A, P1>>, 20, <<"w", "y">>)
       [] i = 30 -> Node(<<S1, B>>, 10, <<"z", "y">>)
       [] i = 60 -> Node(<<S2>>, 1, <<"z", "y">>)]

Row(place, range, section, note) ==
  [law |-> 1, place |-> place, range |-> range, section |-> section, note |-> note]

Rows == {Row(<<"1", "1">>, {"b", "c"}, S2, FALSE),
         Row(<<"1", "1", "a">>, {}, S1, FALSE),
         Row(<<"1", "1", "b", "2">>, {}, S1, TRUE)}

Quoted(direction, text) == [text |-> text, direction |-> direction]

Block(text) == [text |-> text, printed |-> <<>>]

NoBlocks == <<>>
NoStrings == <<>>

-----------------------------------------------------------------------------
(* The bills. The Code of these instances is title 26; a section of        *)
(* another title is one it does not hold.                                  *)
Address == INSTANCE Addresses

Unit(level, number) == [level |-> level, numbers |-> <<number>>]

SubsectionA == Unit("subsection", "a")

Cites(number, trail) == [number |-> number, trail |-> trail]

NoLine ==
  [opens |-> "other", sections |-> <<>>, units |-> <<>>, matter |-> FALSE,
   such |-> "no", of |-> "nothing", title |-> "none", index |-> "no",
   shown |-> {}, listed |-> <<>>]

(* "Section <number>(<trail>)", and what it is a section of.               *)
Section1(number, trail, of) ==
  [NoLine EXCEPT !.opens = "place", !.sections = <<Cites(number, trail)>>, !.of = of]

SectionOf26(number, trail) ==
  [Section1(number, trail, "of title") EXCEPT !.title = "26"]

SuchSection == [NoLine EXCEPT !.such = "section"]

Silent ==
  [lead |-> Address!NoUnit, ofSection |-> FALSE, verb |-> "none", line |-> NoLine,
   after |-> Address!NoUnit, inserts |-> "no", names |-> {}, run |-> FALSE,
   chapeau |-> FALSE]

Amended(line) == [Silent EXCEPT !.verb = "amended", !.line = line]

InUnit(unit) == [Silent EXCEPT !.lead = unit]

Level(above, number, words) ==
  [above |-> above, kind |-> "subsection", number |-> number, declares |-> FALSE,
   text |-> words, refs |-> <<>>, enacts |-> <<>>]

Opening(kind) == [Level(0, "1", Silent) EXCEPT !.kind = kind]

Ref(section, trail, form) ==
  [title |-> "26", section |-> section, trail |-> trail, form |-> form]

(* A bill of one section, and the levels in it, its own the first.         *)
Bill(levels) == <<[Opening("section") EXCEPT !.refs = <<Ref("9", <<>>, "margin")>>]>> \o levels

Shows(line, ref) == [line EXCEPT !.shown = {ref}]

WithRef(level, ref) == [level EXCEPT !.refs = <<ref>>]

(* The designations of the law down to a level.                            *)
PlaceIn(bill, node) ==
  LET through == Reverse(Address!LevelsAbove(bill, node))
  IN [n \in DOMAIN through |-> bill[through[n]].number]

InCode(section) ==
  IF section = Address!Nowhere THEN NoSection
  ELSE IF section.title = "26" THEN Seg("section", section.number)
  ELSE Seg("section of another title", section.number)

(* An instruction: the level that states it, and what it does.             *)
Act(node, id, actions, strings, blocks, does) ==
  [node |-> node, id |-> id, actions |-> actions, strings |-> strings,
   blocks |-> blocks, does |-> does, rewrites |-> FALSE, itemWords |-> <<>>]

(* The amendments of a law (stated_amendments), each with its address.     *)
Law(bill, acts) == [bill |-> bill, acts |-> acts]

ReadItem(bill, i) ==
  [place |-> PlaceIn(bill, i.at), section |-> InCode(i.section),
   unresolved |-> i.unresolved, container |-> i.container, number |-> i.number]

ReadAct(l, bill, act, address) ==
  [id |-> act.id, law |-> l, enacted |-> 0, place |-> PlaceIn(bill, act.node),
   unresolved |-> address.unresolved, section |-> InCode(address.section),
   container |-> address.container,
   items |-> [n \in DOMAIN address.items |-> ReadItem(bill, address.items[n])],
   itemWords |-> act.itemWords, item |-> FALSE,
   evidence |-> [quoted |-> act.strings, enacted |-> act.blocks],
   actions |-> act.actions, rewrites |-> act.rewrites, asMoved |-> FALSE,
   headingAlone |-> FALSE,
   unitsNamed |-> Address!UnitsNamedIn(bill[act.node].text)]

ReadLaw(l, law) ==
  [n \in DOMAIN law.acts |->
     [states |-> ReadAct(l, law.bill, law.acts[n],
                         Address!AddressOf(law.bill, law.acts[n].node)),
      does |-> law.acts[n].does]]

ReadBook(laws) == [l \in DOMAIN laws |-> ReadLaw(l, laws[l])]

-----------------------------------------------------------------------------
YtoV == <<Quoted("struck", <<"y">>), Quoted("inserted", <<"v">>)>>

Reword(path, struck, inserted) ==
  [what |-> "reword", path |-> path, struck |-> struck, inserted |-> inserted]

Rewrite(path, words) == [what |-> "rewrite", path |-> path, inserted |-> words]

Strike(path) == [what |-> "strike", path |-> path]

Renumber(path, to) == [what |-> "renumber", path |-> path, to |-> to]

Add(path, new) == [what |-> "add", path |-> path, new |-> new]

New(path, words) == [path |-> path, words |-> words]

Edits1(node) == Act(node, "edit", {"amend", "delete", "insert"}, YtoV, NoBlocks,
                    <<Reword(<<S1, A>>, <<"y">>, <<"v">>)>>)

MovesA(node) == Act(node, "move", {"redesignate"}, NoStrings, NoBlocks,
                    <<Renumber(<<S1, A>>, C)>>)

AddsA(node) == Act(node, "add", {"add"}, NoStrings, <<Block(<<"k", "l", "m", "n">>)>>,
                   <<Add(<<S1>>, 40 :> New(<<S1, A>>, <<"k", "l", "m", "n">>))>>)

(* One law edits (a), renumbers it and adds another (a): "Subsection (a)   *)
(* of section 1 of title 26 is amended", then "Such section" twice.        *)
OwnMove ==
  LET bill == Bill(<<Level(1, "a", Amended([SectionOf26("1", <<>>)
                                    EXCEPT !.units = <<<<"a">>>>])),
                     Level(1, "b", Amended(SuchSection)),
                     Level(1, "c", Amended(SuchSection))>>)
  IN <<Law(bill, <<Edits1(2), MovesA(3), AddsA(4)>>)>>

(* Two laws do: "Section 1 of title 26 is amended in subsection (a)", and  *)
(* "Section 1 of title 26", then "Section 1 of such title".                *)
OtherMove ==
  <<Law(Bill(<<Level(1, "a", [Amended(SectionOf26("1", <<>>))
                                EXCEPT !.after = SubsectionA])>>), <<Edits1(2)>>),
    Law(Bill(<<Level(1, "a", Amended(SectionOf26("1", <<>>))),
               Level(1, "b", Amended(Section1("1", <<>>, "such title")))>>),
        <<MovesA(2), AddsA(3)>>)>>

(* Two laws state the same words, one of section 9 of an Act, placed at    *)
(* section 1, and one of its subsection (a), beside a margin that has a    *)
(* section 9 of the Code.                                                  *)
SameWords ==
  LET whole == Ref("1", <<>>, "section")
      part == Ref("1", <<"a">>, "section")
  IN <<Law(Bill(<<WithRef(Level(1, "a", Amended(Shows(Section1("9", <<>>, "the Act"), whole))),
                          whole)>>),
           <<Act(2, "wide", {"delete", "insert"}, YtoV, NoBlocks,
                 <<Reword(<<S1, B>>, <<"y">>, <<"v">>)>>)>>),
       Law(Bill(<<WithRef(Level(1, "a", Amended(Shows(Section1("9", <<"a">>, "such Act"), part))),
                          part)>>),
           <<Edits1(2)>>)>>

(* A paragraph is struck by words that name it, (a) is edited, and another *)
(* law adds a paragraph. The first amends the Revenue Code by a clause of  *)
(* its title, and then by a list under the title.                          *)
StrikeAndAdd ==
  LET declaring ==
        <<[Opening("title") EXCEPT !.declares = TRUE],
          [Level(1, "1", Silent) EXCEPT !.kind = "section"],
          Level(2, "a", Amended(Section1("1", <<>>, "nothing"))),
          [Level(3, "1", [InUnit(SubsectionA) EXCEPT
                            !.names = {Unit("paragraph", "1")}]) EXCEPT !.kind = "paragraph"],
          Level(2, "b", [Amended([NoLine EXCEPT !.of = "whole title", !.title = "26"])
                           EXCEPT !.chapeau = TRUE]),
          [Level(5, "1", [Silent EXCEPT !.line = Section1("1", <<"a">>, "nothing")])
             EXCEPT !.kind = "paragraph"]>>
  IN <<Law(declaring,
           <<Act(4, "strike", {"repeal"}, NoStrings, NoBlocks, <<Strike(<<S1, A, P1>>)>>),
             Act(6, "edit", {"amend"}, <<Quoted("either", <<"x">>)>>, NoBlocks,
                 <<Reword(<<S1, A>>, <<"x">>, <<"u">>)>>)>>),
       Law(Bill(<<Level(1, "a", Amended([Section1("1", <<>>, "revenue code")
                                           EXCEPT !.units = <<<<"a">>>>]))>>),
           <<Act(2, "add", {"add"}, NoStrings, <<Block(<<"k", "l">>)>>,
                 <<Add(<<S1, A>>, 41 :> New(<<S1, A, P2>>, <<"k", "l">>))>>)>>)>>

(* (a) reads anew, with its paragraph; another law edits the paragraph,    *)
(* under a filler level: "Section 1(a) of title 26 is amended", (1) "in    *)
(* paragraph (1)".                                                         *)
ReadsAnew ==
  <<Law(Bill(<<Level(1, "a", Amended(SectionOf26("1", <<"a">>)))>>),
        <<[Act(2, "rewrite", {"amend"}, NoStrings,
               <<Block(<<"k", "l", "(", "1", ")", "m", "n">>)>>,
               <<Rewrite(<<S1, A>>, <<"k", "l">>), Rewrite(<<S1, A, P1>>, <<"m", "n">>)>>)
             EXCEPT !.rewrites = TRUE]>>),
    Law(Bill(<<Level(1, "a", Amended(SectionOf26("1", <<"a">>))),
               [Level(2, "", Silent) EXCEPT !.kind = "level"],
               Level(3, "1", InUnit(Unit("paragraph", "1")))>>),
        <<Act(4, "edit", {"insert"}, <<Quoted("inserted", <<"z">>)>>, NoBlocks,
              <<Reword(<<S1, A, P1>>, <<"n">>, <<"n", "z">>)>>)>>)>>

(* A law adds (c) with a paragraph; another adds words to the paragraph,   *)
(* of a section that only the margin places.                               *)
AddedAround ==
  <<Law(Bill(<<Level(1, "a", Amended(SectionOf26("1", <<>>)))>>),
        <<Act(2, "add", {"add"}, NoStrings, <<Block(<<"k", "l">>)>>,
              <<Add(<<S1>>, (40 :> New(<<S1, C>>, <<"k", "l">>))
                            @@ (41 :> New(<<S1, C, P1>>, <<"m">>)))>>)>>),
    Law(Bill(<<WithRef(Level(1, "a", Amended([Section1("1", <<"c">>, "nothing")
                                                EXCEPT !.units = <<<<"1">>>>])),
                       Ref("1", <<>>, "margin"))>>),
        <<Act(2, "words", {"insert"}, <<Quoted("inserted", <<"n">>)>>, NoBlocks,
              <<Reword(<<S1, C, P1>>, <<"m">>, <<"m", "n">>)>>)>>)>>

(* One amendment of two sections of an Act, "in section 9(a) (26 U.S.C.    *)
(* 1(a))" and "in section 10", whose section only the tables give.         *)
TwoItems ==
  LET part == Ref("1", <<"a">>, "section")
      item(number, line) == Level(2, number, [Silent EXCEPT !.line = line])
      bill == Bill(<<[Level(1, "1", [Amended(NoLine) EXCEPT !.chapeau = TRUE])
                        EXCEPT !.refs = <<Ref("1", <<>>, "et seq.")>>],
                     WithRef(item("a", Shows(Section1("9", <<"a">>, "nothing"), part)), part),
                     item("b", Section1("10", <<>>, "nothing"))>>)
      words == <<"\"", "y", "\"", "\"", "v", "\"">>
  IN <<Law(bill, <<[Act(2, "items", {"delete", "insert"}, YtoV, NoBlocks,
                        <<Reword(<<S1, A>>, <<"y">>, <<"v">>),
                          Reword(<<S2>>, <<"y">>, <<"v">>)>>)
                      EXCEPT !.itemWords = <<words, words>>]>>)>>

(* "Sections 9(a) and 10(b) of such Act (26 U.S.C. 1(a), 1(b))".           *)
TwoCited ==
  LET line == [NoLine EXCEPT !.sections = <<Cites("9", <<"a">>), Cites("10", <<"b">>)>>,
                             !.of = "such Act",
                             !.listed = <<Ref("1", <<"a">>, "section"),
                                          Ref("1", <<"b">>, "section")>>]
      words == <<"\"", "y", "\"", "\"", "v", "\"">>
  IN <<Law(Bill(<<Level(1, "a", Amended(line))>>),
           <<[Act(2, "cited", {"delete", "insert"}, YtoV, NoBlocks,
                  <<Reword(<<S1, A>>, <<"y">>, <<"v">>),
                    Reword(<<S1, B>>, <<"y">>, <<"v">>)>>)
                EXCEPT !.itemWords = <<words, words>>]>>)>>

(* An amendment inserts words inside words that its law inserts before:    *)
(* "Section 1(a) of title 26", then "Such section".                        *)
Nested1 ==
  <<Law(Bill(<<Level(1, "a", Amended(SectionOf26("1", <<"a">>))),
               Level(1, "b", Amended(SuchSection))>>),
        <<Act(2, "first", {"insert"}, <<Quoted("inserted", <<"v", "w">>)>>, NoBlocks,
              <<Reword(<<S1, A>>, <<"y">>, <<"v", "w">>)>>),
          Act(3, "second", {"insert"}, <<Quoted("inserted", <<"k">>)>>, NoBlocks,
              <<Reword(<<S1, A>>, <<"v", "w">>, <<"v", "k", "w">>)>>)>>)>>

(* Two blocks hold the one word an added paragraph prints.                 *)
FewShown ==
  <<Law(Bill(<<Level(1, "a", Amended(SectionOf26("1", <<>>)))>>),
        <<Act(2, "part", {"add"}, NoStrings, <<Block(<<"k", "l", "m", "n">>)>>,
              <<Add(<<S1>>, (40 :> New(<<S1, C>>, <<"k", "l">>))
                            @@ (41 :> New(<<S1, C, P1>>, <<"m", "n">>)))>>)>>),
    Law(Bill(<<Level(1, "a", Amended([SectionOf26("1", <<>>)
                                        EXCEPT !.units = <<<<"a">>>>]))>>),
        <<Act(2, "few", {"add"}, NoStrings, <<Block(<<"k", "z">>)>>,
              <<Add(<<S1, A>>, 42 :> New(<<S1, A, P2>>, <<"k">>))>>)>>)>>

(* A block gives (a) new words; another law, which quotes nothing, amends  *)
(* the paragraph inside it: "Subsection (a) of section 1 of title 26",     *)
(* then "Paragraph (1) of such subsection".                                *)
EditedInside ==
  <<Law(Bill(<<Level(1, "a", Amended(SectionOf26("1", <<"a">>)))>>),
        <<Act(2, "around", {"amend"}, NoStrings, <<Block(<<"k", "l">>)>>,
              <<Rewrite(<<S1, A>>, <<"k", "l">>)>>)>>),
    Law(Bill(<<Level(1, "a", Amended([SectionOf26("1", <<>>)
                                        EXCEPT !.units = <<<<"a">>>>])),
               Level(1, "b", Amended([NoLine EXCEPT !.such = "subsection",
                                        !.units = <<<<"1">>>>]))>>),
        <<Act(3, "inside", {"amend"}, NoStrings, NoBlocks,
              <<Reword(<<S1, A, P1>>, <<"w">>, <<"u">>)>>)>>)>>

(* "Chapter 1 of title 26 is amended by inserting the following new        *)
(* section": "SEC. 3.", and then its table of sections; another law amends *)
(* section 2.                                                              *)
NewOne ==
  LET chapter == [NoLine EXCEPT !.of = "of title", !.title = "26"]
      bill == Bill(<<[Level(1, "a", [Amended(chapter) EXCEPT !.inserts = "new section"])
                        EXCEPT !.enacts = <<[sign |-> "SEC.", number |-> "3"]>>],
                     Level(1, "b", Amended([chapter EXCEPT !.index = "table of sections"]))>>)
  IN <<Law(bill, <<Act(2, "new", {"add", "insert"}, NoStrings, <<Block(<<"k", "l">>)>>,
                       <<Add(<<>>, 44 :> New(<<S3>>, <<"k", "l">>))>>),
                   Act(3, "table", {"amend"}, NoStrings, <<Block(<<"k", "l">>)>>, <<>>)>>),
       Law(Bill(<<Level(1, "a", Amended(SectionOf26("2", <<>>)))>>),
           <<Act(2, "words", {"amend"}, YtoV, NoBlocks,
                 <<Reword(<<S2>>, <<"y">>, <<"v">>)>>)>>)>>

(* "Section 2 of the Act (26 U.S.C. 1(b))", under a margin that notes      *)
(* section 2 of the Code, and a section of such Act nothing places, which  *)
(* is section 2 of the Code. Neither quotes words.                         *)
ActSections ==
  LET part == Ref("1", <<"b">>, "section")
      bill == <<[Opening("section") EXCEPT !.refs = <<Ref("2", <<>>, "margin")>>],
                WithRef(Level(1, "a", Amended(Shows(Section1("2", <<>>, "the Act"), part))),
                        part),
                Level(1, "b", Amended(Section1("5", <<>>, "such Act")))>>
  IN <<Law(bill, <<Act(2, "placed", {"amend"}, NoStrings, NoBlocks,
                       <<Reword(<<S1, B>>, <<"z">>, <<"v">>)>>),
                   Act(3, "unplaced", {"amend"}, NoStrings, NoBlocks,
                       <<Reword(<<S2>>, <<"y">>, <<"w">>)>>)>>)>>

(* "Title 26 is amended by adding at the end the following new chapter",   *)
(* of sections 3 and 4; another law adds words to each section.            *)
TwoInChapter ==
  LET title == [NoLine EXCEPT !.of = "of title", !.title = "26"]
      words(node, id, word, path, last) ==
        Act(node, id, {"insert"}, <<Quoted("inserted", <<word>>)>>, NoBlocks,
            <<Reword(path, <<last>>, <<last, word>>)>>)
  IN <<Law(Bill(<<Level(1, "a", Amended(title))>>),
           <<Act(2, "chapter", {"add"}, NoStrings, <<Block(<<"k", "l">>)>>,
                 <<Add(<<>>, (44 :> New(<<K9>>, <<"k">>))
                             @@ (45 :> New(<<K9, S3>>, <<"l", "m">>))
                             @@ (46 :> New(<<K9, S4>>, <<"n", "u">>)))>>)>>),
       Law(Bill(<<Level(1, "a", Amended(SectionOf26("3", <<>>))),
                  Level(1, "b", Amended(SectionOf26("4", <<>>)))>>),
           <<words(2, "three", "v", <<K9, S3>>, "m"),
             words(3, "four", "w", <<K9, S4>>, "u")>>)>>

(* A law adds (a) to section 2 and renumbers the section; another adds (b)  *)
(* of the same words to the section of the new number.                     *)
SectionMoves ==
  LET adds(node, id, section, unit, i) ==
        Act(node, id, {"add"}, NoStrings, <<Block(<<"k", "l">>)>>,
            <<Add(<<section>>, i :> New(<<section, unit>>, <<"k", "l">>))>>)
  IN <<Law(Bill(<<Level(1, "a", Amended(SectionOf26("2", <<>>))),
                  Level(1, "b", Amended(SuchSection))>>),
           <<adds(2, "before", S2, A, 61),
             Act(3, "move", {"redesignate"}, NoStrings, NoBlocks,
                 <<Renumber(<<S2>>, S4)>>)>>),
       Law(Bill(<<Level(1, "a", Amended(SectionOf26("4", <<>>)))>>),
           <<adds(2, "after", S4, B, 62)>>)>>

Drafts == {NewOne, ActSections, OwnMove, OtherMove, SameWords, StrikeAndAdd, ReadsAnew, AddedAround,
           TwoItems, TwoCited, Nested1, FewShown, EditedInside, TwoInChapter,
           SectionMoves}

AllBooks == {ReadBook(laws) : laws \in Drafts}
=============================================================================
