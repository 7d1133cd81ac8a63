----------------------------- MODULE PlainText ------------------------------
(***************************************************************************)
(* Reading the text layer of a court's PDF into sections, paragraphs and   *)
(* footnotes from the way it is set (src/courtlistener/plain.rs).  A text  *)
(* is a sequence of pages and a page a sequence of lines; the watermark of *)
(* a preliminary print is taken as off.                                    *)
(***************************************************************************)
EXTENDS Writings

CONSTANTS HeadLines, Centred   \* HEAD_LINES and CENTRED of the source

-----------------------------------------------------------------------------
(* Lines.  `form` is how a line is set; `number` is a page number or a     *)
(* footnote's label printed on it; `head` is the running head it would be. *)

Line(form, words, indent, number, head) ==
  [form |-> form, words |-> words, indent |-> indent, number |-> number, head |-> head]

Blank == Line("blank", None, 0, None, None)
Rule == Line("rule", None, 0, None, None)
Number(n) == Line("number", None, 4, n, None)
Text(words, indent) == Line("text", words, indent, None, None)
NumberThenText(n, words) == Line("numbered", words, 4, n, None)
Stars(stars, words) == Line("stars", words, 4, stars, None)
\* A line that prints the page number too: it can only be a running head.
PageHead(words, n) == Line("page head", words, 0, n, None)
HeadLine(words, head) == Line("text", words, 0, None, head)

IsBlank(line) == line.form = "blank"
Full(lines) == SelectSeq(lines, LAMBDA l : ~ IsBlank(l))
\* Two lines are alike when their words are, numbers aside.
Shape(line) == IF line.form = "number" THEN "number" ELSE <<line.form, line.words>>

-----------------------------------------------------------------------------
(* Page furniture.                                                         *)

HeadShapes(page) ==
  LET full == Full(page) IN { Shape(full[i]) : i \in { j \in DOMAIN full : j <= HeadLines } }

\* The lines that head two pages, and half of them, or more.
RunningHeads(pages) ==
  { shape \in UNION { HeadShapes(pages[k]) : k \in DOMAIN pages } :
      LET n == Cardinality({ k \in DOMAIN pages : shape \in HeadShapes(pages[k]) }) IN
      n >= 2 /\ 2 * n >= Len(pages) }

LastFull(lines) == Max({0} \cup { i \in DOMAIN lines : ~ IsBlank(lines[i]) })

UpTo(lines, last) ==
  SubSeq(lines, 1, IF last > 0 /\ lines[last].form = "number" THEN last - 1 ELSE last)

WithoutTail(lines) == UpTo(lines, LastFull(lines))

NamesWriting(line, seen) == seen > 0 /\ line.head # None

IsHead(line, seen, heads) ==
  \/ Shape(line) \in heads
  \/ seen = 0 /\ line.form = "page head"
  \/ NamesWriting(line, seen)

\* How many of the page's first lines are running heads.
HeadsSeen(full, heads) ==
  CHOOSE n \in 0..Len(full) :
    /\ \A k \in 1..n : k <= HeadLines + 1 /\ IsHead(full[k], k - 1, heads)
    /\ n < Len(full) => ~ (n <= HeadLines /\ IsHead(full[n + 1], n, heads))

\* The lines below the first n that are not blank.
Below(lines, n) ==
  LET body == { i \in DOMAIN lines : ~ IsBlank(lines[i])
                                     /\ Len(Full(SubSeq(lines, 1, i))) > n } IN
  IF body = {} THEN <<>> ELSE SubSeq(lines, Min(body), Len(lines))

\* The head that names a page's writing, `rest` being what is below the heads.
\* The Reporter's Note is headed by its own title, which is kept.
PageLabel(heads, rest) ==
  LET named == { k \in DOMAIN heads : NamesWriting(heads[k], k - 1) }
      appendix == { k \in named : heads[k].head.is = "appendix" } IN
  IF appendix # {} THEN heads[Min(appendix)].head
  ELSE IF named # {} THEN heads[Min(named)].head
  ELSE IF rest # <<>> /\ rest[1].head # None /\ rest[1].head.is = "note" THEN rest[1].head
  ELSE None

UnderHeads(full, n, rest) == [ lines |-> rest, label |-> PageLabel(SubSeq(full, 1, n), rest) ]

Under(lines, full, n) == UnderHeads(full, n, Below(lines, n))

\* The lines of a page below its running heads, and the head that names its
\* writing.
WithoutFurniture(page, heads) ==
  LET lines == WithoutTail(page) IN Under(lines, Full(lines), HeadsSeen(Full(lines), heads))

-----------------------------------------------------------------------------
(* Layout.                                                                 *)

\* Most lines have a blank line after them.  The first page is left out when
\* there are others with words: its caption is set in single lines.
LayoutOf(pages) ==
  LET others == { k \in DOMAIN pages : k > 1 }
      counted == IF \A k \in others : Full(pages[k]) = <<>> THEN {1} ELSE others
      pairs == UNION { { <<k, i>> : i \in { j \in 1..(Len(pages[k]) - 1) : ~ IsBlank(pages[k][j]) } } :
                       k \in counted }
      followed == { p \in pairs : IsBlank(pages[p[1]][p[2] + 1]) } IN
  [ double |-> pairs # {} /\ Cardinality(followed) * 10 > Cardinality(pairs) * 6,
    ruled |-> \E k \in DOMAIN pages : \E i \in DOMAIN pages[k] : pages[k][i].form = "rule" ]

NextNote(notes) ==
  LET numbers == { i \in DOMAIN notes : Numbered(notes[i].label) } IN
  IF numbers = {} THEN 1 ELSE notes[Max(numbers)].label + 1

-----------------------------------------------------------------------------
(* Footnotes.                                                              *)

BlanksBefore(lines, i) ==
  LET full == { j \in 1..(i - 1) : ~ IsBlank(lines[j]) } IN
  i - 1 - (IF full = {} THEN 0 ELSE Max(full))

\* Where the footnotes of a page start: under a rule, or, where no page has
\* one, at the next number, at stars, or where one goes on from the page before.
OpensNotes(lines, i, notes, layout) ==
  LET line == lines[i]
      blanks == BlanksBefore(lines, i)
      body == \E j \in 1..(i - 1) : ~ IsBlank(lines[j]) IN
  /\ ~ IsBlank(line) /\ line.form # "rule" /\ ~ layout.ruled
  /\ \/ line.form = "number" /\ line.number = NextNote(notes)
     \/ line.form = "numbered" /\ blanks > 0 /\ line.number = NextNote(notes)
     \/ line.form = "stars" /\ blanks > 0 /\ body
     \/ layout.double /\ blanks >= 2 /\ body /\ notes # <<>>

\* The line of a page its body ends above.
BodyEnd(lines, notes, layout) ==
  Min({ Len(lines) + 1 }
        \cup { i \in DOMAIN lines : lines[i].form = "rule" \/ OpensNotes(lines, i, notes, layout) })

CutAbove(lines, end) ==
  LET first == IF end <= Len(lines) /\ lines[end].form = "rule" THEN end + 1 ELSE end
      full == SetToSortSeq({ i \in 1..(end - 1) : ~ IsBlank(lines[i]) }, <) IN
  [ notes |-> Full(SubSeq(lines, first, Len(lines))),
    body |-> [k \in DOMAIN full |-> [ line |-> lines[full[k]], blanks |-> BlanksBefore(lines, full[k]),
                                      indent |-> lines[full[k]].indent ]] ]

SplitNotes(lines, notes, layout) == CutAbove(lines, BodyEnd(lines, notes, layout))

LineWords(line) == IF line.words = None THEN <<>> ELSE << line.words >>

\* A line that opens with the next number, or with stars, starts a footnote;
\* any other goes on with the one before.
ReadNote(notes, line) ==
  IF \/ line.form \in {"number", "numbered"} /\ line.number = NextNote(notes)
     \/ line.form = "stars"
  THEN Append(notes, [label |-> line.number, text |-> LineWords(line)])
  ELSE IF notes = <<>> THEN << [label |-> None, text |-> LineWords(line)] >>
  ELSE [notes EXCEPT ![Len(notes)].text = @ \o LineWords(line)]

\* Each page is indented from a margin of its own.
FromMargin(body) ==
  LET margin == IF body = <<>> THEN 0 ELSE Min({ body[i].indent : i \in DOMAIN body }) IN
  [i \in DOMAIN body |-> [body[i] EXCEPT !.indent = @ - margin]]

AddSplit(section, split) ==
  [section EXCEPT !.notes = FoldLeft(ReadNote, @, split.notes),
                  !.body = @ \o FromMargin(split.body)]

AddLines(section, lines, layout) == AddSplit(section, SplitNotes(lines, section.notes, layout))

-----------------------------------------------------------------------------
(* Sections.                                                               *)

Section(head, opened) == [head |-> head, opened |-> opened, body |-> <<>>, notes |-> <<>>]

Is(line, is) == line.words # None /\ line.words.is = is

\* Where the line that opens a writing stands, when words of another writing
\* stand above it.
OpeningBelowTop(lines) ==
  LET at == { i \in DOMAIN lines : i > 1 /\ Is(lines[i], "heading") }
      above == IF at = {} THEN {} ELSE { i \in 1..(Min(at) - 1) : ~ IsBlank(lines[i]) } IN
  IF above = {} \/ \E i \in above : Is(lines[i], "caption") THEN 1 ELSE Min(at)

\* A page goes on with the section before it, unless its running head names
\* another writing.
Opens(sections, label) ==
  \/ sections = <<>>
  \/ label # None /\ label.is # "appendix" /\ Last(sections).head # label

\* The page is cut at each line that opens a Tax Court writing.
AddParts(sections, lines, layout) ==
  LET cuts == SetToSortSeq({ i \in DOMAIN lines : Is(lines[i], "separate") }, <)
      to(k) == IF k = Len(cuts) THEN Len(lines) ELSE cuts[k + 1] - 1
      first == ReplaceAt(sections, Len(sections),
                         AddLines(Last(sections), SubSeq(lines, 1, to(0)), layout)) IN
  first \o [k \in DOMAIN cuts |->
              AddLines(Section(None, lines[cuts[k]].words.says), SubSeq(lines, cuts[k], to(k)), layout)]

\* The lines above the `at`-th end the section before the page's own.
AddPage(sections, read, at, layout) ==
  LET ended == IF at = 1 THEN sections
               ELSE ReplaceAt(sections, Len(sections),
                              AddLines(Last(sections), SubSeq(read.lines, 1, at - 1), layout)) IN
  AddParts(IF Opens(sections, read.label) THEN Append(ended, Section(read.label, None)) ELSE ended,
           SubSeq(read.lines, at, Len(read.lines)), layout)

AddPageRead(sections, read, layout) ==
  AddPage(sections, read,
          IF sections # <<>> /\ Opens(sections, read.label) THEN OpeningBelowTop(read.lines) ELSE 1,
          layout)

ReadPage(sections, page, heads, layout) ==
  AddPageRead(sections, WithoutFurniture(page, heads), layout)

-----------------------------------------------------------------------------
(* Paragraphs.                                                             *)

Ends(entry, is) == entry.line.words # None /\ entry.line.words.is = is

\* Whether the k-th line of a body starts a paragraph; the paragraph before it
\* starts at `start`.
Starts(body, k, start, layout) ==
  LET here == body[k].indent
      there == body[k - 1].indent
      blank == body[k].blanks > 0
      first == start = k - 1 IN
  \/ ~ layout.double /\ blank
  \/ Ends(body[k - 1], "heading")
  \/ here > there
  \/ here = there /\ here > 0 /\ blank
  \/ here = there /\ here > 0 /\ first /\ ~ layout.double
       /\ Ends(body[k - 1], "item") /\ Ends(body[k], "item")
  \/ here = there /\ here > 0 /\ Ends(body[k - 1], "lead-in") /\ Ends(body[k], "item")
  \/ here < there /\ (~ first \/ there > Centred)

ParagraphStarts(body, layout) ==
  FoldLeft(LAMBDA starts, k :
             IF k = 1 \/ Starts(body, k, Last(starts), layout) THEN Append(starts, k) ELSE starts,
           <<>>, [k \in DOMAIN body |-> k])

Paragraphs(body, layout) ==
  LET starts == ParagraphStarts(body, layout)
      to(n) == IF n = Len(starts) THEN Len(body) ELSE starts[n + 1] - 1
      text(n) == FlattenSeq([k \in 1..(to(n) - starts[n] + 1) |->
                               LineWords(body[starts[n] + k - 1].line)]) IN
  [n \in DOMAIN starts |-> Paragraph(text(n))]

SectionRead(section, layout) ==
  [ head |-> section.head, opened |-> section.opened,
    passages |-> Paragraphs(section.body, layout)
                   \o [n \in DOMAIN section.notes |->
                         Footnote(section.notes[n].label, section.notes[n].text)] ]

SectionsRead(sections, layout) ==
  [k \in DOMAIN sections |-> SectionRead(sections[k], layout)]

ReadInLayout(pages, heads, layout) ==
  SectionsRead(FoldLeft(LAMBDA s, page : ReadPage(s, page, heads, layout), <<>>, pages), layout)

ReadPlainText(pages) == ReadInLayout(pages, RunningHeads(pages), LayoutOf(pages))
=============================================================================
