---------------------------- MODULE CaseRecords -----------------------------
(***************************************************************************)
(* A court case read out of the publisher's records                        *)
(* (src/courtlistener/opinion.rs): which record and which field its words  *)
(* are taken from, the writings a record holds, and the nodes they become. *)
(* A node is [path, is, type, author, text]; a path is a tuple.            *)
(***************************************************************************)
EXTENDS PlainText

-----------------------------------------------------------------------------
(* A record is [id, cluster, type, author, key, fields], where `fields` maps *)
(* the text fields that are filled to what they hold: markup, or for         *)
(* "plain_text" the pages of a document.                                     *)

TEXT_FIELDS == << "xml_harvard", "html_columbia", "html_anon_2020", "html_lawbox", "html", "plain_text" >>
STRUCTURED == {"xml_harvard", "html_columbia"}
CASE_MATTER == << "headmatter", "syllabus", "headnotes", "summary" >>
SEPARATE == {"concurrence", "concurrence in part", "dissent"}

IsCombined(record) == record.type = "combined"
IsSeparate(record) == record.type \in SEPARATE

ChosenField(record) ==
  LET filled == { i \in DOMAIN TEXT_FIELDS : TEXT_FIELDS[i] \in DOMAIN record.fields } IN
  IF filled = {} THEN None ELSE TEXT_FIELDS[Min(filled)]

ByKey(a, b) == a.key < b.key \/ (a.key = b.key /\ a.id < b.id)

\* Mutant: a combined record is one writing more.
EveryRecord(opinions) == [ writings |-> SetToSortSeq(opinions, ByKey), sources |-> {} ]

\* Beside split records a combined one holds the same words, and is a source.
WritingsAndSources(opinions) ==
  LET split == \E o \in opinions : ~ IsCombined(o)
      sources == { o \in opinions : split /\ IsCombined(o) } IN
  [ writings |-> SetToSortSeq(opinions \ sources, ByKey), sources |-> { o.id : o \in sources } ]

-----------------------------------------------------------------------------
(* Reading one record.  A citation is [kind, page]: the official reporter,   *)
(* a commercial parallel of it, or a database's name for the case.           *)

\* The citation whose volume the first page label is in, when it is the
\* official reporter's.
OfficialPages(first, citations) ==
  LET starts == { c \in citations : /\ c.kind # "database"
                                    /\ Numbered(first) /\ c.page <= first } IN
  \E c \in starts : c.kind = "official" /\ \A d \in starts : d.page <= c.page

AsRead(structure, structured, headed, matter) ==
  [ structure |-> structure, structured |-> structured, headed |-> headed, matter |-> matter ]

FromMarkup(structure, citations) ==
  AsRead(IF structure.first # None /\ OfficialPages(structure.first, citations)
         THEN PagesOfOneReporter(structure) ELSE WithoutPages(structure),
         TRUE, <<>>, <<>>)

FromPages(read) ==
  LET passages == FlattenSeq([k \in DOMAIN read.writings |-> read.writings[k].passages]) IN
  AsRead(OfPassages(passages), TRUE, read.writings, read.matter)

ReadField(field, raw, citations, forSplit) ==
  IF field \in STRUCTURED THEN FromMarkup(ReadStructure(raw), citations)
  ELSE IF field = "plain_text"
  THEN FromPages(TakeSummaries(ReadRunningHeads(ReadPlainText(raw))))
  ELSE AsRead(IF forSplit THEN WithoutPages(ReadStructure(raw))
              ELSE OfPassages(<< Paragraph(SelectSeq(raw, InText)) >>),
              FALSE, <<>>, <<>>)

ReadWriting(record, citations, forSplit) ==
  LET field == ChosenField(record) IN
  ReadField(field, record.fields[field], citations, forSplit)

\* The writings a rule finds in a record, or None when it is one writing.
\* A separate writing's record is cut only when it opens with its author's own.
FoundIn(record, trySplit, read, cut) ==
  IF trySplit THEN (IF Len(read.headed) >= 2 THEN read.headed ELSE cut)
  ELSE IF IsSeparate(record) /\ cut # None
          /\ record.author # None /\ cut[1].author = record.author
       THEN cut
  ELSE None

-----------------------------------------------------------------------------
(* The nodes.                                                                *)

Node(path, is, type, author, text) ==
  [ path |-> path, is |-> is, type |-> type, author |-> author, text |-> text ]
Leaf(path, is, text) == Node(path, is, None, None, text)

\* The pages printed, each with the paragraphs that start on it; the
\* paragraphs on no page; then the footnotes.
PassageNodes(structure, path) ==
  LET body == SelectSeq(structure.passages, LAMBDA p : ~ p.note)
      notes == SelectSeq(structure.passages, LAMBDA p : p.note)
      On(page) == SelectSeq(body, LAMBDA p : p.page = page)
      named == SelectSeq([i \in DOMAIN body |-> body[i].page], LAMBDA page : page # None)
      pages == Once(structure.pages \o named)
      unpaged == On(None)
      PageNodes(page) ==
        << Leaf(path \o << "page", page >>, "page", <<>>) >>
          \o [n \in DOMAIN On(page) |->
                Leaf(path \o << "page", page, "paragraph", n >>, "paragraph", On(page)[n].text)] IN
  FlattenSeq([i \in DOMAIN pages |-> PageNodes(pages[i])])
    \o [n \in DOMAIN unpaged |-> Leaf(path \o << "paragraph", n >>, "paragraph", unpaged[n].text)]
    \o [n \in DOMAIN notes |-> Leaf(path \o << "footnote", notes[n].label >>, "footnote", notes[n].text)]

AllText(passages) == FlattenSeq([i \in DOMAIN passages |-> passages[i].text])

WritingNodes(path, type, author, structure, structured) ==
  IF structured
  THEN << Node(path, "opinion", type, author, <<>>) >> \o PassageNodes(structure, path)
  ELSE << Node(path, "opinion", type, author, AllText(structure.passages)) >>

\* The nodes of the writings in one record: at the record's own path, or
\* numbered when a rule found several.
RecordNodes(record, path, read, found) ==
  IF found = None
  THEN WritingNodes(path, record.type, record.author, read.structure, read.structured)
  ELSE FlattenSeq([k \in DOMAIN found |->
         WritingNodes(Append(path, k), found[k].type, found[k].author,
                      OfPassages(found[k].passages), read.structured)])

\* The matter in a record, under the case; a name the case has already is
\* told apart by the record's id.
AddMatter(cluster, record, matter, nodes) ==
  LET Add(all, m) ==
        LET path == << cluster.id, m.field >>
            taken == \E i \in DOMAIN all : all[i].path = path IN
        Append(all, Leaf(IF taken THEN Append(path, record.id) ELSE path, m.field, AllText(m.passages)))
  IN FoldLeft(Add, nodes, matter)

MatterNodes(cluster) ==
  LET filled == SelectSeq(CASE_MATTER, LAMBDA f : f \in DOMAIN cluster.fields) IN
  [k \in DOMAIN filled |-> Leaf(<< cluster.id, filled[k] >>, filled[k], cluster.fields[filled[k]])]

\* None of the case's records may be without words.
Readable(opinions) == \A o \in opinions : ChosenField(o) # None

AddRead(cluster, record, trySplit, nodes, read, again) ==
  AddMatter(cluster, record, read.matter, nodes)
    \o RecordNodes(record, << cluster.id, "opinion", record.id >>, read,
                   FoundIn(record, trySplit, read, SplitAtHeadings(again.structure.passages)))

AddRecord(cluster, record, trySplit, nodes) ==
  AddRead(cluster, record, trySplit, nodes,
          ReadWriting(record, cluster.citations, trySplit),
          ReadWriting(record, cluster.citations, TRUE))

CaseFrom(cluster, read, maySplit) ==
  [ nodes |-> FoldLeft(LAMBDA nodes, record :
                         AddRecord(cluster, record, maySplit /\ IsCombined(record), nodes),
                       MatterNodes(cluster), read.writings),
    sources |-> read.sources ]

CaseOf(cluster, opinions) ==
  CaseFrom(cluster, WritingsAndSources(opinions), \A o \in opinions : IsCombined(o))
=============================================================================
