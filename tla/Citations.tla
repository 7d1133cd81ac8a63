----------------------------- MODULE Citations -----------------------------
(***************************************************************************)
(* What the words of an opinion cite, and where in a printing of the Code  *)
(* each citation leads (src/citation).  The words of a writing are tokens  *)
(* in passages; the sections of one printing of a title are a tree, a      *)
(* function from paths to words, where a path is a section's number, itself *)
(* a sequence of its dashed parts, and the designations below it.          *)
(***************************************************************************)
EXTENDS Integers, Sequences, SequencesExt, FiniteSets

CONSTANTS
  None,            \* no value: no year, no edition, no default code
  Numbers,         \* designations in the order they are counted: 1, 2, 3,
  Letters,         \* a, b, c, ... and A, B, C, ...: a set of sequences
  Numerals,        \* i, ii, iii, ... and I, II, III, ...: the same
  Style,           \* whether a designation begins with a digit or a capital
  ClauseDepth      \* paths of this length or more are clauses and subclauses

IsList(s) == s \in Seq(Range(s))
IsPath(p) == IsList(p) /\ p # <<>>

ASSUME SeriesAssumption ==
  /\ IsList(Numbers) /\ \A s \in Letters \cup Numerals : IsList(s)
  /\ IsFiniteSet(Letters) /\ IsFiniteSet(Numerals)

-----------------------------------------------------------------------------
(* Tokens.  A number is written with the designations after it and, for a  *)
(* range of them, its second end.                                          *)

Word == [t |-> "word"]
Reporter == [t |-> "reporter"]
Marker(plural, word) == [t |-> "marker", plural |-> plural, word |-> word]
Irc == [t |-> "irc"]
Comma == [t |-> "comma"]
OtherLaw == [t |-> "law"]
OfALaw == [t |-> "of"]
EditionOf(year) == [t |-> "edition", year |-> year]
StatesDefault(bare, year) == [t |-> "default", bare |-> bare, year |-> year]
\* form: "whole"; "cut", when the number runs on past what is read; "dotted",
\* a regulation's; or "marked", with a footnote's label set against it.
Section(sec, below, to, form, label) ==
  [t |-> "section", sec |-> sec, below |-> below, to |-> to, form |-> form, label |-> label]

IsToken(token) ==
  token.t = "section" =>
    /\ token = Section(token.sec, token.below, token.to, token.form, token.label)
    /\ IsList(token.sec) /\ IsList(token.below) /\ IsList(token.to)
    /\ token.to # <<>> => token.below # <<>>

-----------------------------------------------------------------------------
(* Reading one text.                                                       *)

Is(text, i, kind) == i \in DOMAIN text /\ text[i].t = kind

\* The number with the footnote mark taken off it, where it stands right after a
\* marker and a space follows, when the writing has that footnote.
WithoutMark(token, taken) ==
  IF token.t = "section" /\ token.form = "marked"
  THEN [token EXCEPT !.form = IF taken THEN "whole" ELSE "dotted"]
  ELSE token

MarkStands(text, i) == Is(text, i - 1, "marker") /\ ~ Is(text, i + 1, "comma")

WithoutFootnoteMarks(text, labels) ==
  [i \in DOMAIN text |->
     WithoutMark(text[i], MarkStands(text, i) /\ text[i].label \in labels)]

\* The end of the list of sections that begins with the section at `at`: a
\* comma, and a number that is no title of the citation after it.
Further(text, i) ==
  /\ Is(text, i + 1, "comma") /\ Is(text, i + 2, "section")
  /\ text[i + 2].form # "cut"
  /\ ~ Is(text, i + 3, "reporter")

ListEnd(text, at) ==
  CHOOSE n \in { at + 2 * k : k \in 0..Len(text) } :
    /\ ~ Further(text, n)
    /\ \A k \in 0..Len(text) : at + 2 * k < n => Further(text, at + 2 * k)

SectionsRead(text, at, end) == [k \in 1..((end - at) \div 2 + 1) |-> text[at + 2 * (k - 1)]]

\* A citation that names its title: a number, a reporter, a marker and a
\* section.  Without the marker, only a number that carries a subdivision is
\* one, and it is read no further: another can be a page or a year.
FirstSection(text, i) == IF Is(text, i + 2, "marker") THEN i + 3 ELSE i + 2

IsCitation(text, i) ==
  LET at == FirstSection(text, i) IN
  /\ Is(text, i, "section") /\ Is(text, i + 1, "reporter") /\ Is(text, at, "section")
  /\ text[at].form # "cut"
  /\ at = i + 2 => text[at].below # <<>> /\ Len(text[at].sec) = 1

ReadCitation(text, i) ==
  LET at == FirstSection(text, i)
      short == at = i + 2 /\ text[at].to # <<>>
      end == IF short THEN at ELSE ListEnd(text, at) IN
  [ title |-> text[i].sec[1],
    sections |-> IF short THEN << [text[at] EXCEPT !.to = <<>>] >> ELSE SectionsRead(text, at, end),
    start |-> i, end |-> end, basis |-> None,
    edition |-> IF ~ short /\ Is(text, end + 1, "edition") THEN text[end + 1].year ELSE None ]

ReadCitations(text) == { ReadCitation(text, i) : i \in { j \in DOMAIN text : IsCitation(text, j) } }

-----------------------------------------------------------------------------
(* A case's default code: the statement of its first writing that has one. *)

Stated(text) ==
  LET at == { i \in DOMAIN text : text[i].t = "default" } IN
  IF at = {} THEN None ELSE text[CHOOSE i \in at : \A j \in at : i <= j]

DefaultOfCase(texts) ==
  LET stating == { w \in DOMAIN texts : Stated(texts[w]) # None } IN
  IF stating = {} THEN None
  ELSE Stated(texts[CHOOSE w \in stating : \A v \in stating : w <= v])

NamesAnotherLaw(text, i, end) == Is(text, i - 1, "law") \/ Is(text, end + 1, "of")

\* A bare reference to the section at `at`, that begins at i.
BareReference(text, i, at, default) ==
  LET end == IF text[at - 1].plural THEN ListEnd(text, at) ELSE at IN
  [ title |-> "26", sections |-> SectionsRead(text, at, end),
    start |-> i, end |-> end, basis |-> default.year, edition |-> None ]

Inside(i, read) == \E c \in read : c.start <= i /\ i <= c.end

Reads(text, i, at, read) ==
  /\ Is(text, at - 1, "marker") /\ Is(text, at, "section")
  /\ text[at].form # "cut"
  /\ ~ Inside(i, read) /\ ~ Inside(at, read)

NoRegulation(c) == \A k \in DOMAIN c.sections : c.sections[k].form # "dotted"

\* "I.R.C. § 174": read under every default.
NamedReferences(text, default, read) ==
  { c \in { BareReference(text, i, i + 2, default) :
              i \in { j \in DOMAIN text : Is(text, j, "irc") /\ Reads(text, j, j + 2, read) } } :
      NoRegulation(c) }

\* "section 174": read only when the default covers it and no other law is
\* named.  A bare sign follows the names of other codes, so it is no marker.
BareReferences(text, default, read) ==
  { c \in { BareReference(text, i, i + 1, default) :
              i \in { j \in DOMAIN text :
                        /\ Is(text, j, "marker") /\ text[j].word
                        /\ Reads(text, j, j + 1, read)
                        /\ ~ NamesAnotherLaw(text, j, j + 1) } } :
      NoRegulation(c) }

FindBare(text, default, read) ==
  LET named == NamedReferences(text, default, read) IN
  IF default.bare THEN named \cup BareReferences(text, default, read \cup named) ELSE named

-----------------------------------------------------------------------------
(* The citations of a writing, each given to the passage that holds its    *)
(* first word.  The passages are read as one text.                         *)

Joined(passages) == FlattenSeq([k \in DOMAIN passages |-> passages[k].words])
PassageStart(passages, k) ==
  1 + Len(FlattenSeq([j \in 1..(k - 1) |-> passages[j].words]))
Labels(passages) == { passages[k].footnote : k \in DOMAIN passages } \ {None}

ReadText(text, default) ==
  LET read == ReadCitations(text) IN
  IF default = None THEN read ELSE read \cup FindBare(text, default, read)

\* The last passage that starts at or before the citation.
PassageOf(passages, start) ==
  CHOOSE k \in DOMAIN passages :
    /\ PassageStart(passages, k) <= start
    /\ \A j \in DOMAIN passages : PassageStart(passages, j) <= start => j <= k

\* Mutant: each passage is read on its own.
ReadAlone(passages, default) ==
  [k \in DOMAIN passages |-> ReadText(WithoutFootnoteMarks(passages[k].words, Labels(passages)), default)]

CitationsByPassage(passages, default) ==
  LET read == ReadText(WithoutFootnoteMarks(Joined(passages), Labels(passages)), default) IN
  [k \in DOMAIN passages |-> { c \in read : PassageOf(passages, c.start) = k }]

-----------------------------------------------------------------------------
(* Where a citation leads in one printing.                                 *)

\* The designations of `below` that lead somewhere under `path`, as far as
\* each leads to a provision.
Walked(tree, path, below) ==
  LET n == CHOOSE k \in 0..Len(below) :
             /\ path \o SubSeq(below, 1, k) \in DOMAIN tree \cup {path}
             /\ k < Len(below) => path \o SubSeq(below, 1, k + 1) \notin DOMAIN tree
             /\ \A j \in 1..k : path \o SubSeq(below, 1, j) \in DOMAIN tree IN
  [ path |-> path \o SubSeq(below, 1, n), unresolved |-> SubSeq(below, n + 1, Len(below)) ]

\* The designations from x to y, counted in `series`; none when it does not
\* count both or y is not after x.
Counted(series, x, y) ==
  { n \in 1..Len(series) :
      \E i, j \in DOMAIN series :
        series[i] = x /\ series[j] = y /\ i < j /\ i <= n /\ n <= j }

In(series, x, y) == { series[n] : n \in Counted(series, x, y) }

MembersBetween(x, y, roman) ==
  LET numbers == In(Numbers, x, y)
      letters == UNION { In(s, x, y) : s \in Letters }
      numerals == UNION { In(s, x, y) : s \in Numerals } IN
  IF numbers # {} THEN numbers
  ELSE IF letters # {} /\ numerals # {} THEN (IF roman THEN numerals ELSE letters)
  ELSE letters \cup numerals

\* How many designations of `from` the second end shares: those above the
\* deepest one numbered as the second end begins, and the ones both then
\* write alike.
AlikeAt(from, to) ==
  LET at == { n \in DOMAIN from : Style[from[n]] = Style[to[1]] } IN
  IF at = {} THEN Len(from) - 1 ELSE (CHOOSE n \in at : \A m \in at : m <= n) - 1

AlsoShared(from, to, shared) ==
  CHOOSE n \in 0..Len(to) :
    /\ shared + n < Len(from) /\ n < Len(to)
    /\ \A k \in 1..n : from[shared + k] = to[k]
    /\ \/ shared + n + 1 = Len(from) \/ n + 1 = Len(to)
       \/ from[shared + n + 1] # to[n + 1]

\* Each member of a range of subdivisions, walked down like any other; the
\* provision above the range when its members cannot be counted.
ReachRange(tree, path, from, to) ==
  LET alike == AlikeAt(from, to)
      also == AlsoShared(from, to, alike)
      shared == alike + also
      parent == Walked(tree, path, SubSeq(from, 1, shared))
      first == from[shared + 1]
      roman == /\ Len(parent.path) + 1 >= ClauseDepth
               /\ Append(parent.path, first) \in DOMAIN tree
      members == IF /\ parent.unresolved = <<>>
                    /\ Len(from) = shared + 1 /\ Len(to) = also + 1
                 THEN MembersBetween(first, to[also + 1], roman) ELSE {} IN
  IF members = {}
  THEN { [path |-> parent.path,
          unresolved |-> parent.unresolved \o SubSeq(from, shared + 1, Len(from))
                           \o SubSeq(to, also + 1, Len(to))] }
  ELSE { Walked(tree, parent.path, <<m>>) : m \in members }

Reach(tree, path, written) ==
  IF written.to = <<>> THEN { Walked(tree, path, written.below) }
  ELSE ReachRange(tree, path, written.below, written.to)

SectionOf(sec) == << sec >>

\* A number, a dash and a number is that section where the title holds one,
\* and else the two ends of a range.
RangeEnds(written) ==
  IF /\ Len(written.sec) = 2 /\ written.below = <<>>
     /\ Counted(Numbers, written.sec[1], written.sec[2]) # {}
  THEN { SectionOf(<<n>>) : n \in Range(written.sec) } ELSE {}

\* The provisions one written section leads to in a title that is in scope,
\* with the part of it that leads nowhere.
Resolved(tree, written) ==
  LET at == SectionOf(written.sec) IN
  IF written.form # "whole" THEN {}
  ELSE IF at \in DOMAIN tree THEN Reach(tree, at, written)
  ELSE { [path |-> end, unresolved |-> <<>>] : end \in RangeEnds(written) \cap DOMAIN tree }
=============================================================================
