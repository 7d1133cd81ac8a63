----------------------------- MODULE Addresses -----------------------------
(***************************************************************************)
(* Where each amending instruction of a law says it acts                   *)
(* (uslm::amendment_address).                                              *)
(*                                                                         *)
(* A bill maps its levels, numbered in the order of the document, to       *)
(* [above, kind, declares, text, refs, enacts]: the level above (0 at the  *)
(* root), whether it says that a bare section is one of the Internal       *)
(* Revenue Code, what its own words say, the publisher's references to the *)
(* Code in them, and the heading each block it enacts opens with, [sign,   *)
(* number]: "SEC." 174A, or "S" 310 for the section sign.                  *)
(*                                                                         *)
(* What words say is [lead, ofSection, verb, line, after, inserts, names,  *)
(* run, chapeau]:                                                          *)
(*   lead      the unit an "in paragraph (2)" in front names, or NoUnit;   *)
(*             ofSection when it goes on "of section"                      *)
(*   verb      "amended", "repealed" or "none"                             *)
(*   line      what the words before the verb name, or before the first    *)
(*             quotation where there is no verb                            *)
(*   after     the unit an "in subsection (c)" after "is amended" names    *)
(*   inserts   "new section" where they say "the following new section",   *)
(*             "following" where they say "the following", or "no"         *)
(*   names     the units the words name below the line; run when they name *)
(*             a run of them, "(C) through (F)"                            *)
(*   chapeau   whether the line stands in the level's chapeau              *)
(*                                                                         *)
(* A line is [opens, sections, units, matter, such, of, title, index,      *)
(* shown, listed]:                                                         *)
(*   opens     "place" where it opens with In, Section or by amending      *)
(*             section                                                     *)
(*   sections  each section it cites, [number, trail]; several are the     *)
(*             list of "Sections 351(a), 352(a)"                           *)
(*   units     the units of "Paragraph (2) of subsection (f) of", in that  *)
(*             order; matter when they only place "the matter preceding"   *)
(*   such      the unit it ends with as "such section", or "no"            *)
(*   of, title what it names the part of: "of title" or "whole title" and  *)
(*             which ("of title 10", "Title 10, United States Code"; "of   *)
(*             whole title" is both), "revenue code", "such title", "such  *)
(*             Act", "the Act", "Public Law" or "nothing"                  *)
(*   index     "table of sections", "analysis" or "no"                     *)
(*   shown     the references whose words it holds                         *)
(*   listed    the references "(50 U.S.C. 98d(a)(2), 98e(d)(1))" lists     *)
(*                                                                         *)
(* A reference is [title, section, trail, form], its form "section",       *)
(* "margin" for the publisher's note beside the words, "note" or "et seq." *)
(***************************************************************************)
EXTENDS Integers, Sequences, SequencesExt, FiniteSets, FiniteSetsExt

NoUnit == [level |-> "any", numbers |-> <<>>]

RevenueCode == "26"

Nowhere == [title |-> "none", number |-> "none"]

(* A step gives a number, and the level where the words name one.          *)
NumberedSteps(numbers) ==
  [n \in DOMAIN numbers |-> [level |-> "any", number |-> numbers[n]]]

NamedSteps(unit) ==
  [n \in DOMAIN unit.numbers |->
     [level |-> IF n = 1 THEN unit.level ELSE "any", number |-> unit.numbers[n]]]

(* A section found, with what is cited below it, or why there is none.     *)
Placed(title, number, trail) ==
  [section |-> [title |-> title, number |-> number], trail |-> trail, why |-> "no"]

Refused(why) == [section |-> Nowhere, trail |-> <<>>, why |-> why]

-----------------------------------------------------------------------------
(* The bill.                                                               *)

(* came_through: the levels from the root down to one.                     *)
Through(bill, node) ==
  LET to[n \in {0} \cup DOMAIN bill] ==
        IF n = 0 THEN <<>> ELSE Append(to[bill[n].above], n)
  IN to[node]

IsInLevel(bill, node, above) == above \in Range(Through(bill, node))

IsLevel(bill, node) == bill[node].kind # "level"

(* is_stored_level: a "level" is the parser's filler and says nothing.     *)
LevelsAbove(bill, node) ==
  SelectSeq(Reverse(Through(bill, node)), LAMBDA n : IsLevel(bill, n))

NearestSection(bill, node) ==
  LET sections == {n \in Range(Through(bill, node)) : bill[n].kind = "section"}
  IN IF sections = {} THEN 0 ELSE Max(sections)

(* stored_usc_references: those of a level and all below it.               *)
ReferencesUnder(bill, node) ==
  FlattenSeq([n \in 1..Max(DOMAIN bill) |->
                IF n \in DOMAIN bill /\ IsInLevel(bill, n, node)
                THEN bill[n].refs ELSE <<>>])

(* stored_titles_declaring_the_1986_code.                                  *)
DeclaringTitles(bill) ==
  {t \in DOMAIN bill : /\ bill[t].kind = "title"
                       /\ \E n \in DOMAIN bill :
                            bill[n].declares /\ IsInLevel(bill, n, t)}

-----------------------------------------------------------------------------
(* What a line says.                                                       *)

(* units_before_the_citation: the bill names the innermost unit first.     *)
UnitsBefore(line) ==
  IF line.matter THEN <<>> ELSE FlattenSeq(Reverse(line.units))

(* citation_alone_in and citation_in, as sets of at most one.              *)
CitationAlone(line) == IF Len(line.sections) = 1 THEN {line.sections[1]} ELSE {}

Citation(line) ==
  {[c EXCEPT !.trail = @ \o UnitsBefore(line)] : c \in CitationAlone(line)}

NamesAnIndex(line) == line.index # "no"

(* title_named_in.                                                         *)
TitleNamed(line) ==
  IF line.of \in {"of title", "of whole title"} THEN {line.title}
  ELSE IF line.of = "revenue code" /\ CitationAlone(line) # {} THEN {RevenueCode}
  ELSE {}

(* amending_line_of; repealing_line_of: a repeal counts where it cites a   *)
(* section and names the Code.                                             *)
AmendingLine(text) == IF text.verb = "amended" THEN {text.line} ELSE {}

RepealingLine(text) ==
  {line \in {text.line} : /\ text.verb = "repealed" /\ CitationAlone(line) # {}
                          /\ \/ TitleNamed(line) # {}
                             \/ \E r \in line.shown : r.form # "margin"}

LineOf(text) == AmendingLine(text) \cup RepealingLine(text)

(* title_a_line_names_outright.                                            *)
OutrightTitle(text) ==
  {line.title : line \in {line \in LineOf(text) :
                            line.of \in {"of title", "whole title", "of whole title"}}}

(* leading_in_phrase, and in_phrase_after_amending_line: a phrase inside   *)
(* "such paragraph" is inside a unit nothing names.                        *)
LeadingSteps(text) == IF text.ofSection THEN <<>> ELSE NamedSteps(text.lead)

StepsAfterLine(text) ==
  IF text.verb = "amended" /\ text.line.such # "smaller unit"
  THEN NamedSteps(text.after) ELSE <<>>

(* cites_a_section_of_another_law.                                         *)
CitesAnotherLaw(line) ==
  /\ CitationAlone(line) # {}
  /\ line.of \in {"Public Law", "such Act", "the Act"}

(* cites_an_act_after_the_list: after the designations the list ends with. *)
ListIsOfAnAct(line) ==
  /\ line.of \in {"Public Law", "such Act", "the Act"}
  /\ Last(line.sections).trail # <<>>

(* units_named_in: the scope phrases count as well.                        *)
UnitsNamedIn(text) ==
  LET scope == IF text.verb = "amended" THEN text.after ELSE text.lead IN
  IF text.run THEN {}
  ELSE {NamedSteps(u) : u \in text.names \cup ({scope} \ {NoUnit})}

-----------------------------------------------------------------------------
(* A list of instructions under a line that names a whole title.           *)

(* title_a_list_amends, of the chapeau (stored_list_title).                *)
ListTitle(text) ==
  {line.title : line \in {line \in AmendingLine(text) :
     /\ text.chapeau /\ line.of \in {"whole title", "of whole title"}
     /\ CitationAlone(line) = {} /\ ~NamesAnIndex(line)}}

(* section_a_list_item_names.                                              *)
SectionItemNames(text) ==
  IF text.line.opens = "place" /\ ~NamesAnIndex(text.line)
  THEN Citation(text.line) ELSE {}

(* section_of_a_list_item: of the level right below the one that says the  *)
(* line.                                                                   *)
ItemsBelow(bill, node, holder) ==
  {n \in Range(Through(bill, node)) : n > holder /\ IsLevel(bill, n)}

SectionOfListItem(bill, node, holder) ==
  LET below == ItemsBelow(bill, node, holder) IN
  IF below = {} THEN {}
  ELSE {Placed(title, item.number, item.trail) :
          title \in ListTitle(bill[holder].text),
          item \in SectionItemNames(bill[Min(below)].text)}

(* title_of_a_list_above.                                                  *)
TitleOfListAbove(bill, holder) ==
  LET saying == {n \in Range(Through(bill, holder)) \ {holder} :
                   IsLevel(bill, n) /\ AmendingLine(bill[n].text) # {}}
  IN IF saying = {} THEN {} ELSE ListTitle(bill[Max(saying)].text)

-----------------------------------------------------------------------------
(* The section an amending line names.                                     *)

(* earlier_level_saying: the nearest of some levels before one, in the     *)
(* section of the bill it is in, 0 where there is none.                    *)
EarlierSaying(bill, holder, saying) ==
  LET section == NearestSection(bill, holder)
      earlier == {n \in saying : /\ n < holder /\ IsLevel(bill, n)
                                 /\ IsInLevel(bill, n, section)}
  IN IF section = 0 \/ earlier = {} THEN 0 ELSE Max(earlier)

NamingATitle(bill) == {n \in DOMAIN bill : OutrightTitle(bill[n].text) # {}}

(* such_title_named_by.                                                    *)
SuchTitle(bill, line, holder) ==
  LET earlier == EarlierSaying(bill, holder, NamingATitle(bill)) IN
  IF line.of # "such title" \/ earlier = 0 THEN {}
  ELSE OutrightTitle(bill[earlier].text)

PlacesASection(ref) == ref.form \in {"section", "margin"}

(* placed_by: the reference says where, and its trail wins unless the      *)
(* line's goes on from it.                                                 *)
PlacedBy(ref, trail) ==
  Placed(ref.title, ref.section,
         IF IsPrefix(ref.trail, trail) THEN trail ELSE ref.trail)

ReferencesIn(line, refs) == SelectSeq(refs, LAMBDA r : r \in line.shown)

\* Mutant: the section of an Act is read as one of the Code.
BareSection(line, cited, refs) == {}

(* section_of_an_act, a set of at most one answer.                         *)
SectionOfAnAct(line, cited, refs) ==
  LET inLine == ReferencesIn(line, refs)
      placing == SelectSeq(inLine, PlacesASection)
  IN IF line.of # "the Act" /\ ~CitesAnotherLaw(line) THEN {}
     ELSE IF placing # <<>> THEN {PlacedBy(placing[1], cited.trail)}
     ELSE IF CitesAnotherLaw(line) \/ inLine # <<>> THEN {Refused("another law")}
     ELSE {}

(* The publisher's reference to a section of the number cited, in the      *)
(* level that cites it or one above, to the section of the bill.           *)
TitleInTheMargin(bill, holder, number) ==
  LET through == Through(bill, holder)
      stop == Max({1} \cup {n \in DOMAIN through :
                \/ bill[through[n]].kind = "section"
                \/ n > 1 /\ ~IsLevel(bill, through[n - 1])})
      same(n) == SelectSeq(ReferencesUnder(bill, through[n]),
                           LAMBDA r : r.section = number)
      told == {n \in stop..Len(through) : same(n) # <<>>}
  IN IF told = {} THEN {} ELSE {Head(same(Max(told))).title}

FirstTold(told) ==
  CHOOSE place \in told[SelectInSeq(told, LAMBDA t : t # {})] : TRUE

(* stored_section_under_amendment: what the line says is trusted first,    *)
(* and a title nobody states is never guessed.                             *)
PlaceOf(bill, cited, line, holder) ==
  LET in(titles) == {Placed(t, cited.number, cited.trail) : t \in titles}
      declared == \E t \in DeclaringTitles(bill) : IsInLevel(bill, holder, t)
  IN FirstTold(<<in(TitleNamed(line)),
                 in(SuchTitle(bill, line, holder)),
                 SectionOfAnAct(line, cited, ReferencesUnder(bill, holder)),
                 in(TitleInTheMargin(bill, holder, cited.number)),
                 in(TitleOfListAbove(bill, holder)),
                 in(IF declared THEN {RevenueCode} ELSE {}),
                 {Refused("no title")}>>)

-----------------------------------------------------------------------------
(* "Such section": what an earlier amendment named.                        *)

SuchUnits == {"section", "subsection"}

(* line_names_a_section.                                                   *)
NamingASection(bill) ==
  {n \in DOMAIN bill : \E line \in AmendingLine(bill[n].text) :
     /\ line.index # "table of sections"
     /\ CitationAlone(line) # {} \/ line.such \in SuchUnits}

(* unit_named_by_line and such_unit_address: the section a level's line    *)
(* names, what its citation gives below it and the whole unit. A line that *)
(* says "such section" names what the one before it names.                 *)
UnitNamed(bill, holder) ==
  LET unit[n \in DOMAIN bill] ==
        LET line == bill[n].text.line
            earlier == EarlierSaying(bill, n, NamingASection(bill))
            none == [place |-> Refused("no antecedent"), cited |-> <<>>]
            before == IF earlier = 0 THEN none ELSE unit[earlier]
            named(trail) ==
              [before EXCEPT !.place.trail = trail \o UnitsBefore(line)]
        IN IF line.such \notin SuchUnits
           THEN LET at(c) == PlaceOf(bill, c, line, n) IN
                CHOOSE u \in {[place |-> at(c), cited |-> at(a).trail] :
                                c \in Citation(line), a \in CitationAlone(line)} : TRUE
           ELSE IF before.place.why # "no" THEN before
           ELSE IF line.such = "section" THEN named(before.cited)
           ELSE IF before.place.trail = <<>> THEN none
           ELSE named(<<Head(before.place.trail)>>)
  IN unit[holder]

-----------------------------------------------------------------------------
(* A whole new section.                                                    *)

(* first_enacted_block.                                                    *)
FirstHeading(bill, node) ==
  IF bill[node].enacts = <<>> THEN {} ELSE {Head(bill[node].enacts)}

(* new_section_inserted, and new_section_an_item_inserts: the line names a *)
(* part of a title, and the new section states its own number.             *)
NewSection(bill, node, holder) ==
  LET inserts == bill[node].text.inserts
      signed(sign) == {[number |-> h.number, trail |-> <<>>] :
                         h \in {h \in FirstHeading(bill, node) : h.sign = sign}}
  IN IF inserts = "new section" /\ signed("SEC.") # {} THEN signed("SEC.")
     ELSE IF inserts # "no" /\ ListTitle(bill[holder].text) # {} THEN signed("S")
     ELSE {}

-----------------------------------------------------------------------------
(* One instruction that acts on many sections.                             *)

Item(node, number, place) ==
  [at |-> node, number |-> number, section |-> place.section,
   container |-> NumberedSteps(place.trail), unresolved |-> place.why]

CitedItem(node, cited, place) ==
  [Item(node, cited.number, place) EXCEPT !.container =
     IF place.why = "no" THEN @ ELSE NumberedSteps(cited.trail)]

(* items_cited_by.                                                         *)
ItemsCited(bill, line, holder) ==
  LET marked == SelectSeq(ReferencesIn(line, ReferencesUnder(bill, holder)),
                          PlacesASection)
      placing == IF Len(marked) = Len(line.sections) THEN marked ELSE line.listed
      each == Len(placing) = Len(line.sections)
      bare == TitleNamed(line) # {} \/ ~(each \/ ListIsOfAnAct(line))
      place(n) == IF bare THEN PlaceOf(bill, line.sections[n], line, holder)
                  ELSE IF each THEN PlacedBy(placing[n], line.sections[n].trail)
                  ELSE Refused("another law")
  IN [n \in DOMAIN line.sections |-> CitedItem(holder, line.sections[n], place(n))]

(* list_items: an item that names no section comes back too, so that the   *)
(* list is read whole; a list none of whose items names one is none.       *)
ListItems(bill, holder) ==
  LET items == SelectSeq([n \in 1..Max(DOMAIN bill) |-> n],
                 LAMBDA n : /\ n \in DOMAIN bill /\ bill[n].above = holder
                            /\ IsLevel(bill, n))
      placing(n) == SelectSeq(ReferencesIn(bill[n].text.line, bill[n].refs),
                              PlacesASection)
      titles == ListTitle(bill[holder].text)
      place(n, c) ==
        IF titles # {} THEN Placed(CHOOSE t \in titles : TRUE, c.number, c.trail)
        ELSE IF placing(n) # <<>> THEN PlacedBy(placing(n)[1], c.trail)
        ELSE Refused("another law")
      named(n) == SectionItemNames(bill[n].text)
      item(n) == IF named(n) = {} THEN Item(n, "none", Refused("no section named"))
                 ELSE LET c == CHOOSE c \in named(n) : TRUE
                      IN Item(n, c.number, place(n, c))
  IN IF \E n \in Range(items) : named(n) # {}
     THEN [n \in DOMAIN items |-> item(items[n])] ELSE <<>>

(* sections_a_line_cites: a list whose every section is one is not a list. *)
CitesSections(line) == Cardinality({c.number : c \in Range(line.sections)}) > 1

-----------------------------------------------------------------------------
(* The place a line names, for the instruction of a level at or below it.  *)
PlaceNamed(bill, node, holder, line) ==
  LET item == SectionOfListItem(bill, node, holder)
      cited == IF Citation(line) # {} THEN Citation(line)
               ELSE NewSection(bill, node, holder)
  IN IF line.index = "table of sections" THEN Refused("table of sections")
     ELSE IF line.such \in SuchUnits THEN UnitNamed(bill, holder).place
     ELSE IF item # {} THEN CHOOSE p \in item : TRUE
     ELSE IF cited = {} THEN Refused("no section named")
     ELSE PlaceOf(bill, CHOOSE c \in cited : TRUE, line, holder)

AddressAt(place, steps, items) ==
  [section |-> place.section, unresolved |-> place.why, items |-> items,
   container |-> IF place.why = "no" THEN NumberedSteps(place.trail) \o steps
                 ELSE steps]

AddressBy(bill, node, holder, line, place, steps) ==
  AddressAt(place, steps,
            IF place.why # "no section named" \/ holder # node THEN <<>>
            ELSE IF CitesSections(line) THEN ItemsCited(bill, line, holder)
            ELSE ListItems(bill, holder))

(* The address of an instruction (address_of): the section, the steps      *)
(* below it, why there is none, and the items of one that acts on many.    *)
AddressOf(bill, node) ==
  LET levels == LevelsAbove(bill, node)
      stop == SelectInSeq(levels, LAMBDA n : LineOf(bill[n].text) # {})
      read == IF stop = 0 THEN levels ELSE SubSeq(levels, 1, stop)
      holder == levels[stop]
      line == CHOOSE line \in LineOf(bill[holder].text) : TRUE
      says(n) == (IF n = stop THEN StepsAfterLine(bill[read[n]].text) ELSE <<>>)
                 \o LeadingSteps(bill[read[n]].text)
      steps == FlattenSeq(Reverse([n \in DOMAIN read |-> says(n)]))
  IN IF stop = 0 THEN AddressAt(Refused("no amending line"), steps, <<>>)
     ELSE AddressBy(bill, node, holder, line,
                    PlaceNamed(bill, node, holder, line), steps)
=============================================================================
