----------------------------- MODULE Opinions ------------------------------
(***************************************************************************)
(* A dataset that takes printings of a title and the opinions of cases, in *)
(* any order: `add-opinions` stores the cases it was given, reads what     *)
(* each passage cites, and writes the links one at a time into the file;   *)
(* release points are added beside it, a reviewer refutes links, and the   *)
(* command may be killed between any two writes                            *)
(* (src/bin/words_to_data/add_opinions.rs).                                *)
(***************************************************************************)
EXTENDS Reliance

CONSTANTS
  Case,            \* the cases
  Orders,          \* the sequences of cases a command may be given
  Decided,         \* the day each was decided
  Texts,           \* the words each case may have, and what they cite
  Date,            \* the dates release points have
  Trees,           \* what a printing of the title may hold
  Refutations      \* a bound: how many links are refuted

ASSUME DateAssumption == Date \subseteq Nat /\ Decided \in [Case -> Nat]
ASSUME OrdersAssumption == Orders \subseteq Seq(Case)
\* A printing is a finite set of provisions, each at a path.
ASSUME TreesAssumption ==
  \A t \in Trees : IsFiniteSet(DOMAIN t) /\ \A p \in DOMAIN t : IsPath(p)
ASSUME TextsAssumption ==
  \A c \in Case : \A said \in Texts[c] :
    /\ IsList(said.writings)
    /\ \A w \in DOMAIN said.writings :
         /\ IsList(said.writings[w])
         /\ \A k \in DOMAIN said.writings[w] :
              LET words == said.writings[w][k].words IN
              IsList(words) /\ \A i \in DOMAIN words : IsToken(words[i])
    /\ \A m \in said.means :
         IsPath(m.full) /\ IsToken(m.written) /\ m.written.t = "section"

VARIABLES
  text,            \* the words of each case
  printings,       \* the printings held, by date
  held,            \* the cases held
  links,           \* the citation links
  refuted,         \* the ids of the links whose newest review refutes them
  run,             \* the `add-opinions` that runs, if one does
  linked           \* history: the printings held when each case was last linked

vars == << text, printings, held, links, refuted, run, linked >>

-----------------------------------------------------------------------------
(* add-opinions.                                                           *)

Idle == [ stage |-> "idle" ]

\* Each passage of a case, as the place a link starts at, with its citations.
PassagesIn(c, said) ==
  LET writings == said.writings
      default == DefaultOfCase([w \in DOMAIN writings |-> Joined(writings[w])]) IN
  UNION { LET read == CitationsByPassage(writings[w], default) IN
          { << << c, w, k >>, read[k] >> : k \in DOMAIN writings[w] } : w \in DOMAIN writings }

PassagesOf(c) == PassagesIn(c, text[c])

\* The links of a case, resolved in the printings held.
LinksOf(c) ==
  UNION { CitesLinksIn(p[1], p[2], printings, Decided[c]) : p \in PassagesOf(c) }

Begin(cases) ==
  /\ run = Idle
  /\ run' = [ stage |-> "store", cases |-> cases, next |-> 1 ]
  /\ UNCHANGED << text, printings, held, links, refuted, linked >>

StoreCase ==
  /\ run.stage = "store" /\ run.next <= Len(run.cases)
  /\ held' = held \cup { run.cases[run.next] }
  /\ run' = [run EXCEPT !.next = @ + 1]
  /\ UNCHANGED << text, printings, links, refuted, linked >>

\* Every case is stored: the printings are read, and each citation resolved.
Resolve ==
  /\ run.stage = "store" /\ run.next > Len(run.cases)
  /\ run' = [ stage |-> "link", cases |-> run.cases, dates |-> DOMAIN printings,
              todo |-> FlattenSeq([k \in DOMAIN run.cases |-> SetToSeq(LinksOf(run.cases[k]))]) ]
  /\ UNCHANGED << text, printings, held, links, refuted, linked >>

WriteLink ==
  /\ run.stage = "link" /\ run.todo # <<>>
  /\ links' = AddLink(links, Head(run.todo))
  /\ run' = [run EXCEPT !.todo = Tail(@)]
  /\ UNCHANGED << text, printings, held, refuted, linked >>

Finish ==
  /\ run.stage = "link" /\ run.todo = <<>>
  /\ linked' = [c \in Case |-> IF c \in Range(run.cases) THEN run.dates ELSE linked[c]]
  /\ run' = Idle
  /\ UNCHANGED << text, printings, held, links, refuted >>

\* The process ends between two writes.
Kill ==
  /\ run # Idle
  /\ run' = Idle
  /\ UNCHANGED << text, printings, held, links, refuted, linked >>

-----------------------------------------------------------------------------
(* Other writers of the same file.                                         *)

\* add_expression puts a printing in the place of one of the same date.  A
\* release point of a date never changes, so what is put there is the same.
AddPrinting(date, tree) ==
  /\ date \in DOMAIN printings => tree = printings[date]
  /\ printings' = [d \in DOMAIN printings \cup {date} |-> IF d = date THEN tree ELSE printings[d]]
  /\ UNCHANGED << text, held, links, refuted, run, linked >>

Refute(link) ==
  /\ Id(link) \notin refuted /\ Cardinality(refuted) < Refutations
  /\ refuted' = refuted \cup { Id(link) }
  /\ UNCHANGED << text, printings, held, links, run, linked >>

Init ==
  /\ text \in [Case -> UNION { Texts[c] : c \in Case }]
  /\ \A c \in Case : text[c] \in Texts[c]
  /\ printings = <<>>
  /\ held = {} /\ links = {} /\ refuted = {}
  /\ run = Idle
  /\ linked = [c \in Case |-> {}]

Next ==
  \/ \E cases \in Orders : Begin(cases)
  \/ StoreCase
  \/ Resolve
  \/ WriteLink
  \/ Finish
  \/ Kill
  \/ \E d \in Date, t \in Trees : AddPrinting(d, t)
  \/ \E l \in links : Refute(l)

Spec == Init /\ [][Next]_vars

-----------------------------------------------------------------------------
(* Properties.  text[c].means is what a reader of the words says they      *)
(* cite: where each citation begins, the section as written, the full path *)
(* it names, and the edition.                                              *)

Paths == UNION { DOMAIN t : t \in Trees }

Deepest(tree, full) ==
  { o \in DOMAIN tree : Covers(o, full) /\ ~ \E q \in DOMAIN tree : Covers(q, full) /\ Len(q) > Len(o) }

\* The passage that holds the first word of what is meant.
PassageIn(c, said, m) ==
  LET passages == said.writings[m.writing]
      k == CHOOSE n \in DOMAIN passages :
             /\ PassageStart(passages, n) <= m.start
             /\ m.start < PassageStart(passages, n) + Len(passages[n].words) IN
  << c, m.writing, k >>

PassageHolding(c, m) == PassageIn(c, text[c], m)

MeantOf(said) == { m \in said.means : m.title = Title }

ReadAsMeant(c, said, tree) ==
  \A p \in PassagesIn(c, said) : \A d \in { e \in p[2] : e.title = Title } :
    \A q \in PlacesOf(tree, d) : \E m \in MeantOf(said) :
      /\ m.start = q.place.start /\ m.edition = q.place.edition
      /\ PassageIn(c, said, m) = p[1]
      /\ q.object \in Deepest(tree, m.full)

MeantIsRead(c, said, tree) ==
  \A m \in MeantOf(said) : \A o \in Deepest(tree, m.full) :
    \E p \in PassagesIn(c, said) : \E d \in { e \in p[2] : e.title = Title } :
      p[1] = PassageIn(c, said, m) /\ \E q \in PlacesOf(tree, d) : q.object = o

TypedAsMeant(said, tree, asked) ==
  \A m \in MeantOf(said) :
    Deepest(tree, m.full) # {} /\ SectionPath(m.full) \in DOMAIN asked =>
      \E p \in TypedIn(asked, m.written) : \E o \in Deepest(tree, m.full) : Comparable(p, o)

\* Each place that is read is one that is meant, at the passage and the word
\* where it begins, and leads as far down as the printing goes; none that is
\* meant is missed; and whoever types the words is taken to what they cite.
Legible(c, said) ==
  \A t \in Trees :
    /\ ReadAsMeant(c, said, t) /\ MeantIsRead(c, said, t)
    /\ \A u \in Trees : TypedAsMeant(said, t, u)

TextsAreLegible == \A c \in Case : Legible(c, text[c])

\* Whatever breaks cut them and whatever printing they are read in, the words of
\* every case are read as they are meant (cites_links_in over the joined passages
\* of a writing).  Words never change, so this is asked while nothing is held.
WordsAreRead == held = {} /\ printings = <<>> => TextsAreLegible

InForce(c) == printings[PrintingFor(DOMAIN printings, Decided[c])]
Means(c) == MeantOf(text[c])
UpToDate(c) == c \in held /\ printings # <<>> /\ linked[c] = DOMAIN printings

\* Each place of each link is words of the passage the link starts at, read as
\* they are meant, and they lead to the link's object in the printing that the
\* link says it was resolved in, and no deeper: whatever breaks cut the words,
\* whichever printings were held then or came since.
LinksAreRead ==
  \A l \in links : \A p \in l.places :
    \E m \in Means(l.subject[1]) :
      /\ m.start = p.start /\ m.edition = p.edition
      /\ PassageHolding(l.subject[1], m) = l.subject
      /\ l.object \in Deepest(printings[l.printed], m.full)

\* A case linked with the printings now held is told as silent on a path only
\* when nothing its words cite, in the printing in force when it was decided,
\* is at, under or above the path, but what a reviewer refuted.
SilentIsTrue ==
  LET silent == [p \in Paths |-> Silent(held, CasesCiting(printings, links, refuted, p))] IN
  \A c \in held : UpToDate(c) =>
    \A m \in Means(c) : \A o \in Deepest(InForce(c), m.full) :
      << PassageHolding(c, m), o >> \notin refuted =>
        \A p \in Paths : Comparable(p, o) => c \notin silent[p]

\* Whoever types the words a court wrote is shown that case, when they lead
\* somewhere both in the printing the court had and in the latest one.
AskedAsWritten ==
  \A c \in held : UpToDate(c) =>
    \A m \in Means(c) :
      (Deepest(InForce(c), m.full) # {} /\ SectionPath(m.full) \in DOMAIN printings[Latest(DOMAIN printings)]
        /\ \A r \in refuted : r[1] # PassageHolding(c, m)) =>
      \E p \in TypedPaths(printings, m.written) :
        c \notin Silent(held, CasesCiting(printings, links, refuted, p))

\* `path` and `cases-citing` name the same writings for a path, and a citation
\* is told as one of the path itself, or of what is under it, only when it is.
ReadersAgree ==
  \A p \in Paths :
    LET cases == CasesCiting(printings, links, refuted, p)
        named == { n \in CitationsNaming(links, p) : Id(n.link) \notin refuted } IN
    /\ { WritingOf(n.link.subject) : n \in named } = { c.writing : c \in cases }
    /\ \A c \in cases : \A cited \in c.cites :
         cited.relation = "within" =>
           \E n \in named : n.link \in cited.links /\ n.role \in {"cited", "beneath"}

Same(before, after, path) ==
  /\ Under(before, path) = Under(after, path)
  /\ \A q \in Under(before, path) \cup { r \in DOMAIN before \cap DOMAIN after : Covers(r, path) } :
       before[q] = after[q]

\* A writing counted as citing what changed after it cites a section whose
\* words two printings dated on or after the decision give differently; one
\* counted unchanged cites only words that every printing since the one in
\* force gives alike, in a section all of them hold.
TallyIsTrue ==
  \A asked \in Paths :
    \A c \in WithRelation(CasesCiting(printings, links, refuted, asked), "within") :
      LET decided == Decided[c.writing[1]]
          since == { d \in DOMAIN printings : d >= decided }
          read == { d \in DOMAIN printings : d >= PrintingFor(DOMAIN printings, decided) }
          tally == Tally(c) IN
      /\ tally = "after" =>
           \E p \in c.cites : \E d, e \in since :
             ~ Same(printings[d], printings[e], SectionPath(p.path))
      /\ tally = "unchanged" =>
           \A p \in c.cites :
             (p.windows # {} /\ \A d \in read : SectionPath(p.path) \in DOMAIN printings[d]) =>
               \A d, e \in read : Same(printings[d], printings[e], p.path)

=============================================================================
