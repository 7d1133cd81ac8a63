------------------------------ MODULE Writings ------------------------------
(***************************************************************************)
(* Finding the writings inside a record that holds a whole case, by rule,  *)
(* and the matter in it that is no part of any writing                     *)
(* (src/courtlistener/writings.rs).  A writing found is [type, author,     *)
(* passages]; matter found is [field, passages].                           *)
(***************************************************************************)
EXTENDS Passages, FiniteSetsExt

-----------------------------------------------------------------------------
(* A combined record, cut at the line that opens each writing.             *)

\* The whole paragraph is the line: "JUSTICE THOMAS, dissenting."
IsHeading(passage) ==
  ~ passage.note /\ Len(passage.text) = 1 /\ passage.text[1].t = "words"
    /\ passage.text[1].is = "heading"

Says(passage) == passage.text[1].says
Found(type, author, passages) == [type |-> type, author |-> author, passages |-> passages]

Refers(writing, label) ==
  \E i \in DOMAIN writing.passages : label \in FootnoteMarks(writing.passages[i].text)

\* Mutant: a label is looked for from the first writing on, and may be given twice.
FirstReferring(writings, given, previous, label) ==
  { w \in DOMAIN writings : Refers(writings[w], label) }

\* The writings that may be given the next footnote: those at or after the one
\* the previous footnote went to, that refer to its label and have not had it.
Candidates(writings, given, previous, label) ==
  { w \in DOMAIN writings : w >= previous /\ Refers(writings[w], label) /\ label \notin given[w] }

Owner(writings, given, previous, label) ==
  LET found == Candidates(writings, given, IF previous = 0 THEN 1 ELSE previous, label) IN
  IF found # {} THEN Min(found) ELSE IF previous # 0 THEN previous ELSE Len(writings)

GiveFootnotes(writings, notes) ==
  LET Give(s, note) ==
        LET owner == Owner(writings, s.given, s.previous, note.label) IN
        [ given |-> [s.given EXCEPT ![owner] = @ \cup {note.label}], previous |-> owner,
          writings |-> [s.writings EXCEPT ![owner].passages = Append(@, note)] ]
  IN FoldLeft(Give, [given |-> [w \in DOMAIN writings |-> {}], previous |-> 0,
                     writings |-> writings], notes).writings

\* Words before the first heading stay with the first writing.  None when
\* there are not two headings.
SplitAtHeadings(passages) ==
  LET notes == SelectSeq(passages, LAMBDA p : p.note)
      body == SelectSeq(passages, LAMBDA p : ~ p.note)
      heads == SetToSortSeq({ i \in DOMAIN body : IsHeading(body[i]) }, <)
      from(k) == IF k = 1 THEN 1 ELSE heads[k]
      to(k) == IF k = Len(heads) THEN Len(body) ELSE heads[k + 1] - 1 IN
  IF Len(heads) < 2 THEN None
  ELSE GiveFootnotes([k \in DOMAIN heads |->
                        Found(Says(body[heads[k]]).type, Says(body[heads[k]]).author,
                              SubSeq(body, from(k), to(k)))], notes)

-----------------------------------------------------------------------------
(* The sections of a plain text, each a writing or matter of the case.     *)

OPENING_WITHIN == 40

\* The words that open the first paragraph with a judge's name, or the heading
\* of a separate writing.
JudgeWriting(section) ==
  LET opens == { i \in DOMAIN section.passages :
                   /\ ~ section.passages[i].note
                   /\ section.passages[i].text[1].t = "words"
                   /\ section.passages[i].text[1].is = "judge" } IN
  IF section.opened # None
  THEN Found(section.opened.type, section.opened.author, section.passages)
  ELSE IF opens # {}
  THEN Found("lead", section.passages[Min(opens)].text[1].says.author, section.passages)
  ELSE Found(None, None, section.passages)

\* "Opinion of ALITO, J." heads a plurality, a concurrence or a dissent: the
\* line that opens the writing says which, and who wrote it, where the running
\* head does not.
HeadWriting(section) ==
  LET near == { i \in DOMAIN section.passages :
                  i <= OPENING_WITHIN /\ IsHeading(section.passages[i]) }
      head == IF section.head = None THEN [is |-> None, type |-> None, author |-> None]
              ELSE section.head IN
  IF near = {} THEN Found(head.type, head.author, section.passages)
  ELSE LET opening == Says(section.passages[Min(near)]) IN
       Found(IF head.is = "opinion of" THEN opening.type ELSE head.type,
             IF head.author = None THEN opening.author ELSE head.author, section.passages)

IsCover(section) ==
  /\ section.head = None /\ section.opened = None
  /\ \E i \in DOMAIN section.passages :
       Len(section.passages[i].text) = 1 /\ section.passages[i].text[1].is = "cover"

\* The matter a section is, when its pages say it is none of the Court's.
MatterOf(sections, k) ==
  LET section == sections[k] IN
  IF k = 1 /\ IsCover(section) /\ (\E j \in DOMAIN sections : sections[j].head # None) THEN "headmatter"
  ELSE IF section.head = None THEN None
  ELSE IF section.head.is = "note" THEN "reporters_note"
  ELSE IF section.head.is = "syllabus" THEN "syllabus"
  ELSE None

ReadRunningHeads(sections) ==
  LET judged == \E k \in DOMAIN sections : sections[k].opened # None
      matter == SelectSeq([k \in DOMAIN sections |-> [k |-> k, field |-> MatterOf(sections, k)]],
                          LAMBDA m : m.field # None)
      others == SelectSeq([k \in DOMAIN sections |-> [k |-> k, field |-> MatterOf(sections, k)]],
                          LAMBDA m : m.field = None) IN
  [ matter |-> [i \in DOMAIN matter |->
                  [field |-> matter[i].field, passages |-> sections[matter[i].k].passages]],
    writings |-> [i \in DOMAIN others |->
                    LET s == sections[others[i].k] IN
                    IF judged /\ s.head = None THEN JudgeWriting(s) ELSE HeadWriting(s)] ]

-----------------------------------------------------------------------------
(* A summary court staff print before an opinion.                          *)

Reads(passage, is) == \E i \in DOMAIN passage.text : passage.text[i].is = is
HeadedIn(passage, headings) ==
  ~ passage.note /\ Len(passage.text) = 1 /\ passage.text[1].is \in headings
InCapitals == {"capitals", "summary", "caption", "cover"}

\* From its heading to the next heading in capitals, with the footnote that
\* says it is no part of the opinion; nothing, when one of them is missing.
StaffSummary(passages) ==
  LET saying == { i \in DOMAIN passages : Reads(passages[i], "disclaimer") }
      starts == { i \in DOMAIN passages : HeadedIn(passages[i], {"summary"}) }
      ends == { i \in DOMAIN passages : HeadedIn(passages[i], InCapitals) /\ i > Min(starts) } IN
  IF saying = {} \/ starts = {} \/ ends = {} THEN {}
  ELSE LET taken == Min(starts)..(Min(ends) - 1) IN
       IF Min(saying) \in taken THEN taken
       ELSE IF passages[Min(saying)].note THEN taken \cup {Min(saying)}
       ELSE {}

Taken(passages, at) ==
  LET indexes == SetToSortSeq(at, <) IN [k \in DOMAIN indexes |-> passages[indexes[k]]]

\* The writings without their summaries, and the matter those are.
TakeSummaries(read) ==
  LET at(k) == StaffSummary(read.writings[k].passages)
      summaries == SelectSeq([k \in DOMAIN read.writings |->
                                Taken(read.writings[k].passages, at(k))],
                             LAMBDA p : p # <<>>) IN
  [ matter |-> read.matter \o [k \in DOMAIN summaries |-> [field |-> "summary", passages |-> summaries[k]]],
    writings |-> [k \in DOMAIN read.writings |->
                    [read.writings[k] EXCEPT !.passages = Taken(@, DOMAIN @ \ at(k))]] ]
=============================================================================
