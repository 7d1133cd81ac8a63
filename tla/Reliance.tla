----------------------------- MODULE Reliance ------------------------------
(***************************************************************************)
(* The citation links of a dataset, as they are written and as the reports *)
(* read them: which cases cite a provision, which of them are now          *)
(* unreliable, and how far the printings held can say                      *)
(* (src/judicial/reliance.rs, src/bin/words_to_data/cases_citing.rs).      *)
(*                                                                         *)
(* The printings of the one title held are a function from dates to trees. *)
(***************************************************************************)
EXTENDS Citations, FiniteSetsExt

CONSTANTS
  Title,           \* the title of the Code the dataset's printings are of
  YearOf           \* the year of each date

-----------------------------------------------------------------------------
(* Links.                                                                  *)

Latest(dates) == Max(dates)

\* The printing a case decided on `decided` is resolved in.
PrintingFor(dates, decided) ==
  IF \E d \in dates : d <= decided
  THEN Max({ d \in dates : d <= decided })
  ELSE Min(dates)

\* A title with no printing held is out of scope, or a gap: it makes no link.
InScope(printings, title) == title = Title /\ printings # <<>>

\* Every provision the citation leads to, each with the place that cites it.
PlacesOf(tree, citation) ==
  UNION { { [ object |-> r.path,
              place |-> [ start |-> citation.start, written |-> citation.sections[k],
                          unresolved |-> r.unresolved, edition |-> citation.edition ],
              basis |-> citation.basis ] :
            r \in Resolved(tree, citation.sections[k]) } :
          k \in DOMAIN citation.sections }

\* One link for each provision, with every place.
IntoLinks(subject, places, printed, decided) ==
  { [ subject |-> subject, object |-> o,
      places |-> { p.place : p \in { q \in places : q.object = o } },
      basis |-> { p.basis : p \in { q \in places : q.object = o } } \ {None},
      decided |-> decided, printed |-> printed, after |-> printed > decided ] :
    o \in { p.object : p \in places } }

\* Mutant: the citations are resolved in the latest printing.
CitesLinksInLatest(subject, citations, printings, decided) ==
  LET printed == PrintingFor(DOMAIN printings, decided)
      places == UNION { PlacesOf(printings[Latest(DOMAIN printings)], c) :
                          c \in { d \in citations : InScope(printings, d.title) } } IN
  IntoLinks(subject, places, printed, decided)

\* The links of one passage, resolved in the printing for the day of decision.
CitesLinksIn(subject, citations, printings, decided) ==
  LET printed == PrintingFor(DOMAIN printings, decided)
      places == UNION { PlacesOf(printings[printed], c) :
                          c \in { d \in citations : InScope(printings, d.title) } } IN
  IntoLinks(subject, places, printed, decided)

Id(link) == << link.subject, link.object >>

\* Mutant: the link is stored under the passage alone.
AddLinkOfPassage(links, link) == { l \in links : l.subject # link.subject } \cup { link }

\* A link is stored under what it says: its newest payload stands.
AddLink(links, link) == { l \in links : Id(l) # Id(link) } \cup { link }

-----------------------------------------------------------------------------
(* The windows since an opinion.                                           *)

Covers(p, q) == IsPrefix(p, q)

Windows(dates) == { w \in dates \X dates : w[1] < w[2] /\ ~ \E d \in dates : w[1] < d /\ d < w[2] }

SectionPath(path) == << path[1] >>
Written(path) == Tail(path)

\* Where the designations of `path` lead in one printing of its section.
Leads(tree, path) == Walked(tree, SectionPath(path), Written(path))
Whole(reached) == reached.unresolved = <<>>

Under(tree, path) == { q \in DOMAIN tree : Covers(path, q) }

ChangedPaths(before, after, at) ==
  { q \in Under(before, at) \cup Under(after, at) :
      \/ q \notin DOMAIN before \/ q \notin DOMAIN after
      \/ before[q] # after[q] }

ChangedAbove(before, after, at) ==
  { q \in Under(before, SectionPath(at)) \cap DOMAIN after :
      Covers(q, at) /\ q # at /\ before[q] # after[q] }

\* Read at the cited subdivision where both printings hold it, and else at the
\* section; a section that one of them does not hold is no change.
ReadAt(before, after, path) ==
  IF Whole(Leads(before, path)) /\ Whole(Leads(after, path)) THEN path ELSE SectionPath(path)

ChangeWindow(printings, window, path, decided) ==
  LET before == printings[window[1]]
      after == printings[window[2]]
      at == ReadAt(before, after, path)
      held == SectionPath(path) \in DOMAIN before \cap DOMAIN after IN
  [ from |-> window[1], to |-> window[2], at |-> at,
    changed |-> held /\ ChangedPaths(before, after, at) # {},
    above |-> IF held THEN ChangedAbove(before, after, at) ELSE {},
    startsBefore |-> window[1] < decided ]

\* Mutant: a window that starts before the opinion is left out.
WindowsFrom(printings, path, decided) ==
  { ChangeWindow(printings, w, path, decided) :
      w \in { v \in Windows(DOMAIN printings) : v[1] >= decided } }

SincePublication(printings, path, decided) ==
  { ChangeWindow(printings, w, path, decided) :
      w \in { v \in Windows(DOMAIN printings) : v[2] > decided } }

PrintingsInYear(printings, year) == { d \in DOMAIN printings : YearOf[d] = year }

\* Each place of each link names an edition, and no printing held is of one.
EditionNotHeld(printings, citing) ==
  \A l \in citing :
    LET named == { p.edition : p \in l.places } \ {None} IN
    named # {} /\ \A year \in named : PrintingsInYear(printings, year) = {}

-----------------------------------------------------------------------------
(* Which cases cite a path.                                                *)

\* Mutant: a citation the latest printing does not hold reaches nothing.
RelationHeld(printings, object, asked) ==
  LET holding == { d \in DOMAIN printings : SectionPath(object) \in DOMAIN printings[d] }
      reached == Leads(printings[Max(holding)], object) IN
  IF Covers(asked, SectionPath(object)) THEN "within"
  ELSE IF holding = {} \/ ~ Whole(reached) THEN "none"
  ELSE IF Covers(asked, reached.path) THEN "within"
  ELSE IF Covers(reached.path, asked) THEN "holds"
  ELSE "none"

\* How the citation that ends at `object` stands to `asked`, read in the
\* latest printing that holds its section.
RelationTo(printings, object, asked) ==
  LET section == SectionPath(object)
      holding == { d \in DOMAIN printings : section \in DOMAIN printings[d] }
      reached == Leads(printings[Max(holding)], object) IN
  IF Covers(asked, section) THEN "within"
  ELSE IF holding = {} \/ object = section \/ ~ Whole(reached) THEN "holds"
  ELSE IF Covers(asked, reached.path) THEN "within"
  ELSE IF Covers(reached.path, asked) THEN "holds"
  ELSE "none"

Comparable(p, q) == Covers(p, q) \/ Covers(q, p)
WritingOf(subject) == << subject[1], subject[2] >>

\* The provision `object` as the writing cites it, with each link that does.
CitedProvision(printings, citing, object, asked) ==
  [ path |-> object, relation |-> RelationTo(printings, object, asked), links |-> citing,
    windows |-> IF EditionNotHeld(printings, citing) THEN {}
                ELSE SincePublication(printings, object, (CHOOSE l \in citing : TRUE).decided) ]

CasesCiting(printings, links, refuted, asked) ==
  LET naming == { l \in links : Id(l) \notin refuted /\ Comparable(asked, l.object)
                                /\ RelationTo(printings, l.object, asked) # "none" } IN
  { [ writing |-> w,
      cites |-> { CitedProvision(printings,
                    { l \in naming : WritingOf(l.subject) = w /\ l.object = o }, o, asked) :
                  o \in { l.object : l \in { n \in naming : WritingOf(n.subject) = w } } } ] :
    w \in { WritingOf(l.subject) : l \in naming } }

WithRelation(cases, relation) ==
  { k \in { [c EXCEPT !.cites = { p \in @ : p.relation = relation }] : c \in cases } : k.cites # {} }

\* How one citing writing counts, from the strongest answer down.
Tally(case) ==
  LET windows == UNION { p.windows : p \in case.cites } IN
  IF \E w \in windows : w.changed /\ ~ w.startsBefore THEN "after"
  ELSE IF \E w \in windows : w.changed THEN "straddles"
  ELSE IF \E w \in windows : w.above # {} THEN "above"
  ELSE "unchanged"

\* The cases held with no writing that cites the path.
Silent(held, cases) == held \ { c.writing[1] : c \in cases }

-----------------------------------------------------------------------------
(* The other readers of the links.                                         *)

\* `path`: the links that name the path at either end.
CitationsNaming(links, path) ==
  { [ link |-> l, role |-> IF l.object = path THEN "cited"
                           ELSE IF Covers(path, l.object) THEN "beneath" ELSE "above" ] :
    l \in { k \in links : Comparable(path, k.object) } }

\* Mutant: words that do not lead all the way down are not asked about.
TypedHeld(printings, written) ==
  IF printings = <<>> THEN {}
  ELSE { r.path : r \in { q \in Resolved(printings[Latest(DOMAIN printings)], written) : Whole(q) } }

\* `cases-citing --cites`: where typed words lead in the latest printing.  A
\* subdivision it does not hold is answered about the whole section.
TypedIn(tree, written) ==
  { IF written.to = <<>> /\ ~ Whole(r) THEN SectionPath(r.path) ELSE r.path :
      r \in Resolved(tree, written) }

TypedPaths(printings, written) ==
  IF printings = <<>> THEN {} ELSE TypedIn(printings[Latest(DOMAIN printings)], written)
=============================================================================
