-------------------------- MODULE EvidenceMatching --------------------------
(***************************************************************************)
(* Laws, what they do to the Code, and what a dataset that holds some of   *)
(* both makes of it. A law is enacted, its amendments take effect in their *)
(* own time, each in one printing, and the printings are published. The    *)
(* dataset may hold a law or not. What took effect where is the truth the  *)
(* matcher's answer is judged by; the matcher sees the printings, the laws *)
(* it holds and the renumberings they state.                               *)
(***************************************************************************)
EXTENDS WindowMatch

CONSTANTS
  Books,    \* what the laws of a dataset may be: sequences of laws, in the
            \* order it lists them; a law is a sequence of [states, does]
  FirstDoc, \* the first printing
  Windows,  \* how many windows are published at most
  Edits     \* how many amendments take effect in one window at most

ASSUME MatchingAssumption == Windows \in Nat /\ Edits \in Nat

Segment == [level : STRING, number : STRING]

Path == Seq(Segment)

(* No section is inside another.                                           *)
OneSection(path) ==
  \A m, n \in DOMAIN path :
    path[m].level = "section" /\ path[n].level = "section" => m = n

(* Provisions, each below the one that holds it, which none holds is 0.    *)
Provision == [path : Path, above : Nat, words : Seq(STRING)]

Tree(doc) ==
  \A i \in DOMAIN doc :
    /\ i \in Nat \ {0} /\ doc[i].above \in DOMAIN doc \cup {0}
    /\ doc[i].path \in Path /\ OneSection(doc[i].path)
    /\ i # Root => doc[i].path # <<>>
    /\ doc[i].above # 0 => IsPrefix(doc[doc[i].above].path, doc[i].path)

ASSUME DocAssumption ==
  FirstDoc \in [DOMAIN FirstDoc -> Provision] /\ Tree(FirstDoc)

(* What an amendment states, as the bill's reading gives it.               *)
Item == [place : Seq(STRING), section : Segment, unresolved : STRING,
         container : Path, number : STRING]

Evidence == [quoted : Seq([text : Seq(STRING), direction : STRING]),
             enacted : Seq([text : Seq(STRING), printed : Seq(Seq(STRING))])]

Statement ==
  [id : STRING, law : Nat, enacted : Nat, place : Seq(STRING),
   unresolved : STRING, section : Segment, container : Path, items : Seq(Item),
   itemWords : Seq(Seq(STRING)), item : BOOLEAN, evidence : Evidence,
   actions : SUBSET STRING, rewrites : BOOLEAN, asMoved : BOOLEAN,
   headingAlone : BOOLEAN, unitsNamed : SUBSET Path]

(* What it may do: not to the whole Code but add to it or reword it, keep  *)
(* the level of what it renumbers, and add what is in the place it names.  *)
IsEdit(e) ==
  /\ e.what \in {"reword", "rewrite", "strike", "add", "renumber"} /\ e.path \in Path
  /\ e.what \in {"strike", "renumber"} => e.path # <<>>
  /\ e.what = "renumber" => e.to \in Segment /\ e.to.level = Last(e.path).level
  /\ e.what = "add" =>
       \A i \in DOMAIN e.new : LET path == e.new[i].path IN
         /\ i \in Nat \ {0} /\ path \in Path \ {<<>>} /\ OneSection(path)
         /\ \/ Front(path) = e.path
            \/ \E j \in DOMAIN e.new : e.new[j].path = Front(path)

IsLaw(l, law) ==
  /\ Len(law) \in Nat /\ DOMAIN law = 1..Len(law)
  /\ \A n \in DOMAIN law : /\ law[n].states \in Statement /\ law[n].states.law = l
                           /\ Len(law[n].does) \in Nat
                           /\ DOMAIN law[n].does = 1..Len(law[n].does)
                           /\ \A k \in DOMAIN law[n].does : IsEdit(law[n].does[k])

ASSUME BooksAssumption ==
  \A laws \in Books : /\ Len(laws) \in Nat /\ DOMAIN laws = 1..Len(laws)
                      /\ \A l \in DOMAIN laws : IsLaw(l, laws[l])

VARIABLES
  book,       \* the laws there are to enact
  printings,  \* the printings published
  draft,      \* the printing the amendments of the window make
  enacted,    \* the printing each law was enacted after, 0 when it is not
  held,       \* the laws the dataset holds
  effect,     \* the window each amendment took effect in, 0 when it did not
  acted,      \* the provisions each amendment acted on
  stated,     \* the amendments of those, one for each item
  outcomes    \* what the matcher makes of the dataset

vars == <<book, printings, draft, enacted, held, effect, acted, stated, outcomes>>

Last1 == Len(printings)

Laws == DOMAIN book

Amendment == UNION {{l} \X DOMAIN book[l] : l \in Laws}

States(a) == book[a[1]][a[2]].states

-----------------------------------------------------------------------------
(* What the dataset makes of it.                                           *)

(* The renumberings of a window that the laws held state, each by the      *)
(* amendments that made it.                                                *)
Moves(docs, laws, w) ==
  LET old == docs[w]
      new == docs[w + 1]
      renumbers(a) == \E e \in Range(book[a[1]][a[2]].does) : e.what = "renumber"
      by(i) == {a \in Amendment : /\ a[1] \in laws /\ effect[a] = w
                                  /\ renumbers(a) /\ i \in acted[a]}
      moved == {i \in (DOMAIN old \cap DOMAIN new) \ {Root} :
                  Number(old, i) # Number(new, i) /\ by(i) # {}}
  IN {[from |-> old[i].path, to |-> new[i].path,
       by |-> {States(a).id : a \in by(i)}] : i \in moved}

View(docs, laws, w) ==
  LET moves == Moves(docs, laws, w) IN
  [window |-> w, from |-> w, to |-> w + 1, earlier |-> docs[w],
   later |-> docs[w + 1], moves |-> moves,
   changes |-> ChangesOf(docs[w], docs[w + 1], moves)]

Views(docs, laws) == {View(docs, laws, w) : w \in 1..Len(docs) - 1}

(* The amendments of the laws held, in the order of the laws.              *)
StatedBy(laws) ==
  LET of(l) == [n \in DOMAIN book[l] |->
                  [book[l][n].states EXCEPT !.enacted = enacted[l]]]
  IN Stated(FlattenSeq([l \in Laws |-> IF l \in laws THEN of(l) ELSE <<>>])) \o <<>>

OutcomesOf(docs, laws, amendments) == Matched(Views(docs, laws), amendments)

-----------------------------------------------------------------------------
Init ==
  /\ book \in Books
  /\ printings = <<FirstDoc>>
  /\ draft = FirstDoc
  /\ enacted = [l \in Laws |-> 0]
  /\ held = {}
  /\ effect = [a \in Amendment |-> 0]
  /\ acted = [a \in Amendment |-> {}]
  /\ stated = <<>>
  /\ outcomes = {}

Drafted == {a \in Amendment : effect[a] = Last1}

Fresh == Drafted = {}

(* A law enters the books, and the dataset.                                *)
Enact(l) ==
  /\ enacted[l] = 0
  /\ enacted' = [enacted EXCEPT ![l] = Last1]
  /\ UNCHANGED <<book, printings, draft, held, effect, acted, stated, outcomes>>

AddBill(l) ==
  /\ enacted[l] # 0 /\ l \notin held /\ Fresh
  /\ held' = held \cup {l}
  /\ UNCHANGED <<book, printings, draft, enacted, effect, acted>>
  /\ stated' = StatedBy(held \cup {l})
  /\ outcomes' = OutcomesOf(printings, held \cup {l}, StatedBy(held \cup {l}))

(* What an amendment does to the Code, as a set of at most one             *)
(* [doc, on]: the provisions it acts on. It may not be able to.            *)
Renamed(doc, i, segment) ==
  LET n == Len(doc[i].path)
      path == Append(Front(doc[i].path), segment)
  IN [j \in DOMAIN doc |-> IF j \in AtOrUnder(doc, i)
        THEN [doc[j] EXCEPT !.path = path \o Below(@, n)] ELSE doc[j]]

PathIn(doc, new, i) == IF i \in DOMAIN doc THEN doc[i].path ELSE new[i].path

Inserted(doc, new) ==
  LET all == DOMAIN doc \cup DOMAIN new
      holder(path) == CHOOSE j \in all : PathIn(doc, new, j) = Front(path)
  IN [i \in all |-> IF i \in DOMAIN doc THEN doc[i]
        ELSE [path |-> new[i].path, above |-> holder(new[i].path),
              words |-> new[i].words]]

Done(doc, e) ==
  LET here == At(doc, e.path)
      free(path) == At(doc, path) = {}
      result(d, on) == [doc |-> d, on |-> on]
      reworded(i, words) == result([doc EXCEPT ![i].words = words], {i})
  IN CASE e.what = "reword" ->
            {reworded(i, ReplaceFirstSubSeq(e.inserted, e.struck, doc[i].words)) :
               i \in {i \in here : ContainsRun(doc[i].words, e.struck)}}
       [] e.what = "rewrite" -> {reworded(i, e.inserted) : i \in here}
       [] e.what = "strike" ->
            {result(Restrict(doc, DOMAIN doc \ AtOrUnder(doc, i)),
                    AtOrUnder(doc, i)) : i \in here}
       [] e.what = "add" ->
            IF here # {} /\ \A i \in DOMAIN e.new : i \notin DOMAIN doc /\ free(e.new[i].path)
            THEN {result(Inserted(doc, e.new), DOMAIN e.new)} ELSE {}
       [] e.what = "renumber" ->
            {result(Renamed(doc, i, e.to), {i}) :
               i \in {i \in here : free(Append(Front(e.path), e.to))}}

AllDone(doc, edits) ==
  LET done[n \in 0..Len(edits)] ==
        IF n = 0 THEN {[doc |-> doc, on |-> {}]}
        ELSE UNION {{[doc |-> d.doc, on |-> r.on \cup d.on] : d \in Done(r.doc, edits[n])} :
                      r \in done[n - 1]}
  IN done[Len(edits)]

TakeEffect(a) ==
  /\ enacted[a[1]] # 0 /\ effect[a] = 0
  /\ Last1 <= Windows /\ Cardinality(Drafted) < Edits
  /\ \E result \in AllDone(draft, book[a[1]][a[2]].does) :
       /\ draft' = result.doc
       /\ acted' = [acted EXCEPT ![a] = result.on]
  /\ effect' = [effect EXCEPT ![a] = Last1]
  /\ UNCHANGED <<book, printings, enacted, held, stated, outcomes>>

Publish ==
  /\ Last1 <= Windows
  /\ printings' = Append(printings, draft)
  /\ UNCHANGED <<book, draft, enacted, held, effect, acted, stated>>
  /\ outcomes' = OutcomesOf(Append(printings, draft), held, stated)

Next ==
  \/ \E l \in Laws : Enact(l) \/ AddBill(l)
  \/ \E a \in Amendment : TakeEffect(a)
  \/ Publish

Spec == Init /\ [][Next]_vars

-----------------------------------------------------------------------------
(* The state is one the program can be in, and the matcher answers for     *)
(* every amendment stated, once: match_laws expects an answer for each, and *)
(* links written from two would be a second link.                          *)
TypeOK ==
  /\ Len(printings) \in 1..Windows + 1
  /\ held \subseteq {l \in Laws : enacted[l] # 0}
  /\ \A a \in Amendment : effect[a] \in 0..Windows
  /\ \A a \in Amendment : effect[a] # 0 => enacted[a[1]] \in 1..effect[a]
  /\ \A n \in DOMAIN stated : Cardinality({o \in outcomes : o.who = n}) = 1

Links == {o \in outcomes : o.outcome = "linked"}

(* Nothing was renumbered in a window but inside a section.                *)
SectionsStay(w) ==
  \A m \in Moves(printings, held, w) : \E n \in DOMAIN m.from :
    m.from[n].level = "section" /\ n < Len(m.from) /\ IsPrefix(Head1(m.from, n), m.to)

(* A provision added whole around the addresses of two sections: a chapter *)
(* with its sections. Their amendments are resolved apart.                 *)
HoldsSections(c, p, q) ==
  /\ c.whole = "added" /\ \A n \in DOMAIN c.path : c.path[n].level # "section"
  /\ \A o \in {p, q} : IsStrictPrefix(c.path, o.address)

(* Two amendments are never linked to one change (resolve.rs: "A change has *)
(* one cause"), where no section was renumbered in the window, other than   *)
(* to a change of the words of one provision, which both may have edited,   *)
(* and to a provision added around sections, which amendments of each of    *)
(* them may be linked to.                                                  *)
OneCause ==
  \A p, q \in Links : p.who # q.who /\ p.window = q.window /\ SectionsStay(p.window) =>
    \A c \in p.changes \cap q.changes : EditedInPlace(c) \/ HoldsSections(c, p, q)

(* The provisions a change is of, in the two printings.                    *)
ChangeOf(w, change) ==
  (UNION {AtOrUnder(printings[w], i) : i \in {change.provision[1]} \ {0}})
  \cup UNION {AtOrUnder(printings[w + 1], i) : i \in {change.provision[2]} \ {0}}

AmendmentOf(id) == CHOOSE a \in Amendment : States(a).id = id

(* Every amendment that acted in the window is held, and every one held    *)
(* acted in the window.                                                    *)
WholeRecord(w) ==
  \A a \in Amendment : a[1] \in held <=> effect[a] = w

ActsOn(a, w, change) == ChangeOf(w, change) \cap acted[a] # {}

(* Every change of a window that shows words of an amendment is one it     *)
(* acted on, and so is every provision struck inside it.                   *)
WordsTell(w) ==
  LET changes == View(printings, held, w).changes IN
  \A a \in Amendment, c \in changes :
    ShownWords(States(a).evidence, c, <<>>) # <<>> =>
      \A d \in changes : (d = c \/ (RemovesAProvision(d) /\ IsBelow(d.path, c.path)))
                         => ActsOn(a, w, d)

(* A link is true, of a window whose record is whole and whose words tell  *)
(* (WholeRecord, WordsTell): the amendment acted on every provision of     *)
(* every change it is linked to. Numbers that moved, addresses read in the *)
(* wrong document, carrying and elimination must not give it another's.    *)
LinksAreTrue ==
  Fresh => \A p \in Links :
    \/ \A c \in p.changes : ActsOn(AmendmentOf(stated[p.who].id), p.window, c)
    \/ ~(WholeRecord(p.window) /\ WordsTell(p.window))

(* No amendment's address is inside a provision that the window added.     *)
NothingAddedAround(w) ==
  \A o \in outcomes, c \in View(printings, held, w).changes :
    c.whole = "added" => ~IsStrictPrefix(c.path, o.address)

Kept(p) == \E q \in Links : /\ q.who = p.who /\ q.window = p.window
                            /\ q.changes = p.changes

(* A dataset that grows by a printing keeps the links it made, but for an  *)
(* amendment whose address a window added whole: evidence_matching links   *)
(* "the first window after its enactment that shows it", "never a second". *)
LinksStand ==
  [][UNCHANGED held =>
       \A p \in Links : Kept(p)' \/ ~NothingAddedAround(p.window)]_vars
=============================================================================
