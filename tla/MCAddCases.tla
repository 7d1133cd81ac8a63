----------------------------- MODULE MCAddCases -----------------------------
(* Two cases asked for.  One has two writings with footnotes, in markup of   *)
(* several makes or as a slip opinion's pages; the other may be unreadable.  *)
EXTENDS AddCases

Court == "court"
Dissent == "dissent"

\* A word's identity: the writing it is of, 0 for the body or a footnote's label, its
\* place there, the official page it is on, and whether that page is known.
W(w, in, n, is, says) == Words([w |-> w, in |-> in, n |-> n, page |-> 0, known |-> FALSE], is, says)
Body(w, n) == W(w, 0, n, "plain", None)
Heading(w, type) == W(w, 0, 1, "heading", [type |-> type, author |-> w])
NoteWord(w, label, n) == W(w, label, n, "plain", None)
\* "18 U.S.C.", where the label is 1.
NoteNumber(w, label) == [NoteWord(w, label, 1) EXCEPT !.first = 10 * label + 8]

-----------------------------------------------------------------------------
(* Markup.  A case's markup is stamped with the pages its words are on.      *)

Official(n) == << PageMark(n, "official") >>
Parallel(n) == << PageMark(n, "parallel") >>

Marks(tokens, of) == { tokens[i].label : i \in { j \in DOMAIN tokens : tokens[j].t = "page" /\ tokens[j].of = of } }
FirstMark(tokens) == SelectSeq(tokens, LAMBDA t : t.t = "page")[1]

\* `started` is the page the last paragraph that started on an official page
\* is on, `parallel` whether the last mark is of the other reporter.
Stamp(s, token) ==
  LET begins == s.fresh /\ ~ s.note
      known == ~ s.parallel \/ s.page = s.started IN
  CASE token.t = "page" ->
         [s EXCEPT !.out = Append(@, token), !.parallel = token.of = "parallel",
                   !.page = IF token.of = "official" THEN token.label ELSE @]
    [] token.t = "words" ->
         [s EXCEPT !.fresh = FALSE, !.started = IF begins /\ ~ s.parallel THEN s.page ELSE @,
                   !.out = Append(@, [token EXCEPT !.id.page = s.page, !.id.known = known])]
    [] OTHER -> [s EXCEPT !.fresh = @ \/ token.t \in {"open", "close", "end of note"},
                          !.note = (@ \/ token.t = "note") /\ token.t # "end of note", !.out = Append(@, token)]

Printed(tokens) ==
  IF Marks(tokens, "official") = {} THEN tokens
  ELSE LET before == Min(Marks(tokens, "official")) - 1 IN
       FoldLeft(Stamp, [page |-> before, started |-> before, parallel |-> FALSE, fresh |-> TRUE, note |-> FALSE, out |-> <<>>],
                tokens).out

P(tokens, closed) == << Open("p") >> \o tokens \o (IF closed THEN << Close("p") >> ELSE <<>>)
Quote(tokens) == << Open("blockquote"), Open("p") >> \o tokens \o << Close("p"), Close("blockquote") >>

\* A footnote's label is printed where its words begin, and stated by the markup
\* too; or it is only stated, or neither, and its words begin with a number.
NoteOf(w, label, make) ==
  << NoteOpen(IF make \in {"both", "stated"} THEN label ELSE None), Open("p") >>
    \o (IF make \in {"both", "printed"} THEN << Label(label), NoteWord(w, label, 1) >>
        ELSE << NoteNumber(w, label) >>)
    \o << Close("p"), NoteWord(w, label, 2), NoteClose >>

\* `at` gives the marks that stand at each of six places.
CourtText(at, inline, closed, make) ==
  at[1] \o P(<< Heading(Court, "lead") >>, closed)
    \o P(<< Body(Court, 2), Reference(1) >> \o at[2] \o << Body(Court, 3) >>, closed)
    \o (IF inline THEN NoteOf(Court, 1, make) ELSE <<>>) \o at[3]
    \o Quote(<< Body(Court, 4), Reference(2) >>)
    \o (IF inline THEN NoteOf(Court, 2, make) ELSE <<>>)
    \o P(at[4] \o << Body(Court, 5) >>, closed)
DissentText(at, inline, closed, make) ==
  at[5] \o P(<< Heading(Dissent, "dissent") >>, closed)
    \o P(<< Body(Dissent, 2) >> \o at[6] \o << Reference(1), Body(Dissent, 3) >>, TRUE)
    \o (IF inline THEN NoteOf(Dissent, 1, make) ELSE <<>>) \o << Body(Dissent, 4) >>
NotesLast(inline, make) ==
  IF inline THEN <<>> ELSE NoteOf(Court, 1, make) \o NoteOf(Court, 2, make) \o NoteOf(Dissent, 1, make)

None6 == [k \in 1..6 |-> <<>>]
\* Official pages 5, 6, ... at the places of S, one of the parallel reporter at p.
MarksAt(S, p) ==
  [k \in 1..6 |-> (IF k \in S THEN Official(4 + Cardinality({ j \in S : j <= k })) ELSE <<>>)
                    \o (IF k = p THEN Parallel(100) ELSE <<>>)]

WholeText(at, inline, closed, make) ==
  Printed(CourtText(at, inline, closed, make) \o DissentText(at, inline, closed, make) \o NotesLast(inline, make))
CourtAlone == CourtText(None6, TRUE, TRUE, "both")
DissentAlone == DissentText(None6, TRUE, TRUE, "both")

-----------------------------------------------------------------------------
(* A slip opinion's pages.                                                   *)

Cover == W("furniture", 0, 1, "plain", None)
RunningHead(is, type, author) == [is |-> is, type |-> type, author |-> author]
LeadHead == HeadLine(W("furniture", 0, 2, "plain", None), RunningHead("writing", "lead", None))
DissentHead == HeadLine(W("furniture", 0, 3, "plain", None), RunningHead("opinion of", None, Dissent))
SyllabusHead == HeadLine(W("furniture", 0, 4, "plain", None), RunningHead("syllabus", None, None))
Cite(n) == PageHead(Cover, n)

\* Lines set single, or with a blank line after each.
Set(lines, double) ==
  IF double THEN FlattenSeq([i \in DOMAIN lines |-> << lines[i], Blank >>]) ELSE lines
FootOf(rule, label, w) ==
  (IF rule THEN << Rule >> ELSE << Blank >>)
    \o << NumberThenText(label, NoteWord(w, label, 1)), Text(NoteWord(w, label, 2), 0) >>

Slip(double, rule, syllabus, summary) ==
  (IF syllabus THEN << << Cite(1), SyllabusHead, Blank >>
                         \o Set(<< Text(W("syllabus", 0, 1, "plain", None), 2),
                                   Text(W("syllabus", 0, 2, "plain", None), 0) >>, double) >> ELSE <<>>)
  \o << << Cite(1), LeadHead, Blank >>
          \o (IF summary THEN << Text(W("summary", 0, 1, "summary", None), 12), Blank,
                                 Text(W("summary", 0, 2, "disclaimer", None), 2), Blank,
                                 Text(W(Court, 0, 1, "capitals", None), 12), Blank >>
              ELSE << Text(W(Court, 0, 1, "plain", None), 2) >>)
          \o Set(<< Text(Body(Court, 2), 2), Text(Body(Court, 3), 0) >>, double)
          \o FootOf(rule, 1, Court),
        << Cite(2), LeadHead, Blank >>
          \o Set(<< Text(Body(Court, 4), 0), Text(Body(Court, 5), 2) >>, double)
          \o FootOf(rule, 2, Court) \o << Number(2) >>,
        << Cite(1), DissentHead, Blank >>
          \o << Text(Heading(Dissent, "dissent"), 2), Blank >>
          \o Set(<< Text(Body(Dissent, 2), 2), Text(Body(Dissent, 3), 0) >>, double)
          \o FootOf(rule, 1, Dissent),
        << Cite(2), DissentHead, Blank >>
          \o Set(<< Text(Body(Dissent, 4), 0), Text(Body(Dissent, 5), 0) >>, double) >>

-----------------------------------------------------------------------------
(* What the publisher holds.                                                 *)

IdsOf(raw) == { raw[i].id : i \in { j \in DOMAIN raw : raw[j].t = "words" } }
Unlabelled(raw) == { raw[i].id : i \in { j \in DOMAIN raw : raw[j].t = "words" /\ raw[j].first # None } }
IdsOfPages(pages) ==
  (UNION { { pages[k][i].words.id : i \in { j \in DOMAIN pages[k] : pages[k][j].words # None } } : k \in DOMAIN pages })
  \ { Cover.id, LeadHead.words.id, DissentHead.words.id, SyllabusHead.words.id }

Record(id, type, author, fields) ==
  [id |-> id, cluster |-> 1, type |-> type, author |-> author, key |-> id % 10, fields |-> fields]
ClusterOfWords(id, opinions, printed, unlabelled, pages, apart) ==
  [ id |-> id, opinions |-> opinions, citations |-> { [kind |-> "official", page |-> 4],
                                                      [kind |-> "parallel", page |-> 90],
                                                      [kind |-> "database", page |-> 5] },
    fields |-> [f \in {"headmatter"} |-> << W("matter", 0, 1, "plain", None) >>],
    printed |-> printed, unlabelled |-> unlabelled, pages |-> pages, apart |-> apart ]
Cluster(id, opinions, printed, pages, apart) == ClusterOfWords(id, opinions, printed, {}, pages, apart)

\* Another case of one record, which may hold no text or name no cluster.
Other(fields, cluster) ==
  [id |-> 301, cluster |-> cluster, type |-> "lead", author |-> None, key |-> 1, fields |-> fields]
OtherWord == W("other", 0, 1, "plain", None)
OtherFields == { "html" :> << OtherWord >>, <<>> }

Publish(records, cluster, other, asked) ==
  [ records |-> [id \in { r.id : r \in records } \cup {301} |->
                   IF id = 301 THEN other ELSE CHOOSE r \in records : r.id = id],
    clusters |-> 1 :> cluster @@ 2 :> Cluster(2, {301}, IF other.fields = <<>> THEN {} ELSE {OtherWord.id}, {}, TRUE),
    asked |-> asked,
    \* A record that names no cluster stops the run where it is read, one
    \* without text where its case is built.
    stores |-> LET read == other.cluster # None
                   built == other.fields # <<>> IN
               1 :> (asked = << 111 >> \/ (read /\ (built \/ asked[1] = 111)))
                 @@ 2 :> (Len(asked) = 2 /\ read /\ built) ]

Asks == { << 111, 301 >>, << 301, 111 >> }
Good == Other("html" :> << OtherWord >>, 2)
Others == { Good, Other(<<>>, 2), Other("html" :> << OtherWord >>, None) }
Alone(records, cluster) == { Publish(records, cluster, Good, << 111 >>) }
WithOthers(records, cluster) == { Publish(records, cluster, o, a) : o \in Others, a \in Asks }

Pages(raw) ==
  IF Marks(raw, "official") = {} \/ FirstMark(raw).of = "parallel" THEN {}
  ELSE Marks(raw, "official") \cup (IF raw[1].t = "page" THEN {} ELSE { Min(Marks(raw, "official")) - 1 })

\* One record holds the case, in markup that may mark pages.
OneRecord(raw, apart) ==
  Alone({ Record(111, "combined", None, "xml_harvard" :> raw) },
        ClusterOfWords(1, {111}, IdsOf(raw), Unlabelled(raw), Pages(raw), apart))

Combined ==
  UNION { UNION { OneRecord(WholeText(MarksAt(S, p), inline, closed, IF closed THEN "printed" ELSE "both"), TRUE) :
                    p \in (0..6) \ S } :
            S \in { T \in SUBSET (1..6) : Cardinality(T) <= 3 }, inline \in BOOLEAN, closed \in BOOLEAN }

\* Footnotes that print no label: without one stated, they are taken for others.
Bare ==
  UNION { OneRecord(WholeText(MarksAt(S, 0), inline, TRUE, make), make = "stated") :
            S \in {{}, {2, 4, 6}}, inline \in BOOLEAN, make \in {"stated", "neither"} }

\* A combined record beside split ones; a record read from unmarked HTML; two
\* writings in a record that is typed as one.
Split(fields) ==
  LET dissent == Record(113, "dissent", Dissent, "html" :> DissentAlone) IN
  WithOthers({ Record(111, "lead", Court, fields), dissent,
               Record(112, "combined", None, "xml_harvard" :> (CourtAlone \o DissentAlone)) },
             Cluster(1, {111, 112, 113}, IdsOf(CourtAlone \o DissentAlone), {}, TRUE))
Unmarked ==
  Alone({ Record(111, "combined", None, "html" :> (CourtAlone \o DissentAlone)) },
        Cluster(1, {111}, IdsOf(CourtAlone \o DissentAlone), {}, FALSE))
TwoInOne ==
  UNION { Alone({ Record(111, "concurrence", author, "html_columbia" :> (CourtAlone \o DissentAlone)) },
                Cluster(1, {111}, IdsOf(CourtAlone \o DissentAlone), {}, author = Court)) :
          author \in {Court, Dissent, None} }

Slips ==
  UNION { LET pages == Slip(double, rule, syllabus, summary) IN
          Alone({ Record(111, "combined", None, "plain_text" :> pages) },
                Cluster(1, {111}, IdsOfPages(pages), {}, TRUE)) :
          double \in BOOLEAN, rule \in BOOLEAN, syllabus \in BOOLEAN, summary \in BOOLEAN }

MCPublished ==
  Combined \cup Bare \cup Split("html_columbia" :> CourtAlone) \cup Unmarked \cup TwoInOne \cup Slips

MCInit == InitFrom(MCPublished)
MCSpec == MCInit /\ [][Next]_vars /\ Fairness
=============================================================================
