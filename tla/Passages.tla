------------------------------ MODULE Passages ------------------------------
(***************************************************************************)
(* The inside of a writing whose markup marks paragraphs, reporter pages   *)
(* and footnotes (src/courtlistener/structure.rs).  The markup is a        *)
(* sequence of tokens; reading it is a fold over them, which loses no      *)
(* words although the tags need not nest.                                  *)
(***************************************************************************)
EXTENDS Integers, Sequences, SequencesExt

CONSTANT None

-----------------------------------------------------------------------------
(* Tokens.  `is` is what a rule can see of a run of words: "heading" for    *)
(* the line that opens a writing, with what it says; `id` names the run,   *)
(* `first` is its first word when that is a number, and `cut` whether the  *)
(* run has lost its first word, or digits of it.                           *)

Words(id, is, says) ==
  [t |-> "words", id |-> id, is |-> is, says |-> says, first |-> None, cut |-> FALSE]
Open(name) == [t |-> "open", name |-> name]
Close(name) == [t |-> "close", name |-> name]
NoteOpen(label) == [t |-> "note", label |-> label]
NoteClose == [t |-> "end of note"]
Reference(label) == [t |-> "ref", label |-> label]
Label(label) == [t |-> "label", label |-> label]
\* `of` is the reporter whose page it is: nothing in the markup says it.
PageMark(label, of) == [t |-> "page", label |-> label, of |-> of]

InText(token) == token.t \in {"words", "ref", "label", "page"}

-----------------------------------------------------------------------------
(* The reader.                                                             *)

Start == [page |-> None, marks |-> <<>>, block |-> None, note |-> None, passages |-> <<>>]

Block(name, page) ==
  [name |-> name, depth |-> 0, page |-> page, text |-> <<>>, inside |-> <<>>]

EndBlock(r) ==
  IF r.block = None THEN r
  ELSE [r EXCEPT !.block = None,
                 !.passages = Append(@, [note |-> FALSE, label |-> None, page |-> r.block.page,
                                         text |-> r.block.text, inside |-> r.block.inside])]

\* Words outside any element are a paragraph of their own.
ReadWords(r, token) ==
  IF r.block = None THEN [r EXCEPT !.block = [Block(None, r.page) EXCEPT !.text = <<token>>]]
  ELSE [r EXCEPT !.block.text = Append(@, token)]

\* A mark before a paragraph's first words is the page it starts on.  A mark
\* between two paragraphs is no paragraph.
PageBreak(r, token) ==
  LET marked == [r EXCEPT !.page = token.label, !.marks = Append(@, token.label)] IN
  IF r.block = None THEN marked
  ELSE IF r.block.text = <<>>
  THEN [marked EXCEPT !.block.page = token.label, !.block.text = <<token>>]
  ELSE [marked EXCEPT !.block.inside = Append(@, token.label), !.block.text = Append(@, token)]

\* A paragraph cannot hold another, so a new one ends it; any other element
\* holds what opens inside it.
OpenBlock(r, token) ==
  IF r.block = None \/ r.block.name \in {"p", None}
  THEN [EndBlock(r) EXCEPT !.block = Block(token.name, r.page)]
  ELSE IF r.block.name = token.name THEN [r EXCEPT !.block.depth = @ + 1]
  ELSE r

CloseBlock(r, token) ==
  IF r.block = None \/ r.block.name # token.name THEN r
  ELSE IF r.block.depth > 0 THEN [r EXCEPT !.block.depth = @ - 1]
  ELSE EndBlock(r)

OpenNote(r, token) ==
  [EndBlock(r) EXCEPT !.note = [label |-> token.label, depth |-> 0, text |-> <<>>]]

EndNote(r) ==
  IF r.note = None THEN r
  ELSE [r EXCEPT !.note = None,
                 !.passages = Append(@, [note |-> TRUE, label |-> r.note.label, page |-> None,
                                         text |-> r.note.text, inside |-> <<>>])]

\* A footnote is read whole, whatever opens and closes inside it.
InsideNote(r, token) ==
  CASE token.t = "note" -> [r EXCEPT !.note.depth = @ + 1]
    [] token.t = "end of note" ->
         IF r.note.depth > 0 THEN [r EXCEPT !.note.depth = @ - 1] ELSE EndNote(r)
    [] InText(token) -> [r EXCEPT !.note.text = Append(@, token)]
    [] OTHER -> r

ReadToken(r, token) ==
  CASE r.note # None -> InsideNote(r, token)
    [] token.t = "page" -> PageBreak(r, token)
    [] token.t = "note" -> OpenNote(r, token)
    [] token.t = "open" -> OpenBlock(r, token)
    [] token.t = "close" -> CloseBlock(r, token)
    [] InText(token) -> ReadWords(r, token)
    [] OTHER -> r

-----------------------------------------------------------------------------
(* What was read.                                                          *)

FootnoteMarks(text) == { text[i].label : i \in { j \in DOMAIN text : text[j].t = "ref" } }

\* None stands for a word that is no number.
FirstWord(token) ==
  CASE token.t \in {"label", "ref"} -> token.label
    [] token.t = "words" -> token.first
    [] token.t = "page" -> None

\* The digits of `label` are the first digits of `number`.
Begins(label, number) == number # None /\ \E k \in 0..3 : number \div (10 ^ k) = label

WithoutLabel(text, label) ==
  LET opening == text[1] IN
  IF opening.t = "words" THEN << [opening EXCEPT !.cut = TRUE] >> \o Tail(text)
  ELSE IF FirstWord(opening) = label THEN Tail(text)
  ELSE << [opening EXCEPT !.label = None] >> \o Tail(text)

\* A footnote's label is the one the source states, or else the first word of
\* its text, whatever that is.  The characters of the label are taken off the
\* text when it begins with them, whether the note prints its label or not.
Labelled(passage) ==
  LET first == FirstWord(passage.text[1])
      stated == passage.label # None
      label == IF stated THEN passage.label ELSE first IN
  IF ~ passage.note THEN passage
  ELSE [passage EXCEPT !.label = label,
                       !.text = IF ~ stated \/ Begins(label, first) THEN WithoutLabel(@, label) ELSE @]

Numbered(label) == label \in Nat

PageBefore(label) == IF Numbered(label) /\ label > 0 THEN label - 1 ELSE None

\* The paragraphs before the first mark are on the page before it; when that
\* page cannot be counted, none is on a page.
FirstPage(passages, first) ==
  LET paged == { i \in DOMAIN passages : ~ passages[i].note /\ passages[i].page # None }
      leading(i) == ~ passages[i].note /\ \A j \in paged : i < j IN
  IF PageBefore(first) = None
  THEN [i \in DOMAIN passages |-> [passages[i] EXCEPT !.page = None]]
  ELSE [i \in DOMAIN passages |->
          IF leading(i) THEN [passages[i] EXCEPT !.page = PageBefore(first)] ELSE passages[i]]

Once(labels) ==
  FoldLeft(LAMBDA seen, l : IF Contains(seen, l) THEN seen ELSE Append(seen, l), <<>>, labels)

\* Every page the body is printed on, in order, whether a paragraph starts on
\* it or not.
PagesPrinted(passages, marks) ==
  LET body == SelectSeq(passages, LAMBDA p : ~ p.note) IN
  IF body = <<>> \/ body[1].page = None THEN <<>> ELSE Once(<< body[1].page >> \o marks)

ReadStructure(markup) ==
  LET end == EndNote(EndBlock(FoldLeft(ReadToken, Start, markup)))
      kept == SelectSeq(end.passages, LAMBDA p : p.text # <<>>)
      labelled == [i \in DOMAIN kept |-> Labelled(kept[i])]
      first == IF end.marks = <<>> THEN None ELSE end.marks[1]
      passages == IF first = None THEN labelled ELSE FirstPage(labelled, first) IN
  [passages |-> passages, first |-> first, pages |-> PagesPrinted(passages, end.marks)]

WithoutPages(structure) ==
  [ passages |-> [i \in DOMAIN structure.passages |->
                    [structure.passages[i] EXCEPT !.page = None, !.inside = <<>>]],
    first |-> None, pages |-> <<>> ]

\* A page numbered further from the last one kept than there are pages is of
\* another reporter.
Distance(m, n) == IF m > n THEN m - n ELSE n - m

KeptPages(pages) ==
  FoldLeft(LAMBDA k, l :
             IF Numbered(l) /\ k.last # None /\ Distance(l, k.last) > Len(pages) THEN k
             ELSE [last |-> IF Numbered(l) THEN l ELSE k.last, kept |-> Append(k.kept, l)],
           [last |-> None, kept |-> <<>>], pages).kept

\* Only the pages of the first page's reporter: a paragraph that starts on a
\* page of another is put where the last paragraph on a kept page starts.
PagesOfOneReporter(structure) ==
  LET kept == KeptPages(structure.pages)
      on(p) == ~ p.note /\ p.page # None
      Place(i) ==
        LET p == structure.passages[i]
            before == { j \in 1..i : on(structure.passages[j])
                                     /\ Contains(kept, structure.passages[j].page) } IN
        [p EXCEPT !.inside = SelectSeq(@, LAMBDA l : Contains(kept, l)),
                  !.page = IF on(p) /\ before # {}
                           THEN structure.passages[CHOOSE j \in before : \A k \in before : k <= j].page
                           ELSE @] IN
  [structure EXCEPT !.passages = [i \in DOMAIN structure.passages |-> Place(i)], !.pages = kept]

\* Mutant: a page a paragraph runs on is not one of its writing's pages.
StartPages(passages) ==
  [ passages |-> passages, first |-> None,
    pages |-> Once(FlattenSeq([i \in DOMAIN passages |->
                IF passages[i].note \/ passages[i].page = None THEN <<>>
                ELSE << passages[i].page >>])) ]

\* The passages of one writing out of several, with the pages it is printed on.
OfPassages(passages) ==
  [ passages |-> passages, first |-> None,
    pages |-> Once(FlattenSeq([i \in DOMAIN passages |->
                IF passages[i].note \/ passages[i].page = None THEN <<>>
                ELSE << passages[i].page >> \o passages[i].inside])) ]

Paragraph(text) == [note |-> FALSE, label |-> None, page |-> None, text |-> text, inside |-> <<>>]
Footnote(label, text) == [note |-> TRUE, label |-> label, page |-> None, text |-> text, inside |-> <<>>]
=============================================================================
