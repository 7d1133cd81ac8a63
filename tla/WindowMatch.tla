---------------------------- MODULE WindowMatch ----------------------------
(***************************************************************************)
(* The changes of the Code that each amendment of the laws a dataset holds *)
(* made (legislature::evidence_matching): the address, the window, and the *)
(* assignment of a window's changes (Resolve).                             *)
(*                                                                         *)
(* A stated amendment is [id, law, enacted, place, unresolved, section,    *)
(* container, items, itemWords, item, evidence, actions, rewrites,         *)
(* asMoved, headingAlone, unitsNamed]. section is a segment, NoSection     *)
(* where the markup gives none; unresolved then says why. The last four    *)
(* are what its words say: that the provision reads anew, that it is named *)
(* by its new number, that only its heading is amended, and the units it   *)
(* acts on. A provision has one text field.                                *)
(***************************************************************************)
EXTENDS TreeDiff, Resolve

CONSTANT Classified  \* rows of the OLRC's tables: [law, place, range,
                     \* section, note]

NoSection == [level |-> "none", number |-> "none"]

(* One where a set has one member, 0 where it has none or more.            *)
TheOnly(S) == IF One(S) = {} THEN 0 ELSE CHOOSE x \in S : TRUE

-----------------------------------------------------------------------------
(* The address.                                                            *)

(* LawSection::overlaps: a row for a place names what is in it and what    *)
(* holds it.                                                               *)
Overlaps(one, two) == IsPrefix(one, two) \/ IsPrefix(two, one)

(* Named::names: a row names a place, or a range of the designations below *)
(* it.                                                                     *)
Names(row, place) ==
  /\ Overlaps(row.place, place)
  /\ row.range # {} /\ Len(place) > Len(row.place) =>
       place[Len(row.place) + 1] \in row.range

RowsFor(law, place) == {r \in Classified : r.law = law /\ Names(r, place)}

(* olrc_address: the one section the rows give, notes left out.            *)
OlrcSection(a, numbered) ==
  One({r.section : r \in {r \in RowsFor(a.law, a.place) :
         ~r.note /\ numbered \in {"any", r.section.number}}})

(* address_by_olrc_where_the_markup_gives_none.                            *)
AddressedByOlrc(a, numbered) ==
  LET section == OlrcSection(a, numbered) IN
  IF \/ a.section # NoSection \/ a.unresolved = "table of sections"
     \/ ~QuotesAnything(a.evidence) \/ section = {}
  THEN a
  ELSE [a EXCEPT !.section = CHOOSE s \in section : TRUE, !.unresolved = "no"]

(* one_for_each_item: an amendment nothing addresses, as one for each of   *)
(* the items it lists. An item is [place, section, unresolved, container,  *)
(* number], number being the one it cites where its law is not said.       *)
OneForEachItem(a) ==
  LET one(n) ==
        LET item == a.items[n]
            own == [a EXCEPT !.place = item.place, !.section = item.section,
                             !.container = item.container,
                             !.unresolved = item.unresolved, !.items = <<>>,
                             !.evidence = OfItem(a.evidence, a.itemWords[n]),
                             !.item = TRUE]
        IN IF item.place # a.place THEN AddressedByOlrc(own, "any")
           ELSE IF item.unresolved = "no title"
             THEN AddressedByOlrc(own, item.number)
           ELSE own
  IN IF a.section # NoSection \/ a.items = <<>> THEN <<a>>
     ELSE [n \in DOMAIN a.items |-> one(n)]

(* The amendments to match, of laws in the order the dataset lists them.   *)
Stated(amendments) ==
  FlattenSeq([n \in DOMAIN amendments |->
                OneForEachItem(AddressedByOlrc(amendments[n], "any"))])

(* The action the markup states beside the umbrella word.                  *)
Specific(a) == a.actions \ {"amend"}

StatedOperation(a) ==
  IF One(Specific(a)) = {} THEN "amend" ELSE CHOOSE x \in Specific(a) : TRUE

OnlyInserts(a) == Specific(a) # {} /\ Specific(a) \subseteq {"add", "insert"}

OnlyStrikes(a) == /\ Specific(a) # {}
                  /\ Specific(a) \subseteq {"delete", "repeal"}
                  /\ QuotesOnlyStruck(a.evidence)

UnitsItsWordsName(a) ==
  IF QuotesAnything(a.evidence) THEN {} ELSE a.unitsNamed

(* SectionIndex: the sections a document holds by a number.                *)
Sections(doc, section) ==
  {i \in DOMAIN doc \ {Root} : Number(doc, i) = section /\ section.level = "section"}

(* walk_down: a step leads to the one child it names; 0 where there is     *)
(* none or several.                                                        *)
WalkDown(doc, section, steps) ==
  LET at[n \in 0..Len(steps)] ==
        IF n = 0 \/ section = 0 THEN section
        ELSE IF at[n - 1] = 0 THEN 0
        ELSE TheOnly({i \in Children(doc, at[n - 1]) :
                        StepNames(steps[n], Number(doc, i))})
  IN at[Len(steps)]

Addressed(doc, a) ==
  LET section == TheOnly(Sections(doc, a.section))
      under == WalkDown(doc, section, a.container)
  IN IF under = 0 THEN {} ELSE {[section |-> doc[section].path,
                                 under |-> doc[under].path]}

(* address_path: in the later document or, where not there, the earlier.   *)
AddressPath(view, a) ==
  LET later == Addressed(view.later, a)
  IN IF later # {} THEN later ELSE Addressed(view.earlier, a)

-----------------------------------------------------------------------------
(* One window: [window, from, to, earlier, later, moves, changes]: the     *)
(* dates and documents it is between, the renumberings its links name,     *)
(* each [from, to, by] with the ids of the amendments that made it, and    *)
(* what the diff of the two documents lists.                               *)

Known(moves) ==
  [path \in {m.from : m \in moves} |->
     (CHOOSE m \in moves : m.from = path).to]

AtOrUnder(doc, i) == {j \in DOMAIN doc : IsAtOrBelow(doc[j].path, doc[i].path)}

Texts(doc, S) ==
  LET order == SetToSortSeq(S, LAMBDA i, j : i < j)
  IN [n \in DOMAIN order |-> doc[order[n]].words]

(* Every provision there is one of a number of has its place, so that two  *)
(* changes at one path are two.                                            *)
Change(provision, path, before, after, whole) ==
  [provision |-> provision, path |-> path, before |-> before,
   after |-> after, fields |-> <<after>>, below |-> <<>>, whole |-> whole,
   renumberedBy |-> {}]

AddedChange(doc, i) ==
  LET fields == Texts(doc, AtOrUnder(doc, i))
  IN [Change(<<0, i>>, doc[i].path, <<>>, FlattenSeq(fields), "added")
        EXCEPT !.fields = fields, !.below = Tail(fields)]

ChangesBetween(old, new, moves, known, mate) ==
  LET pairs == {m \in (DOMAIN old) \X (DOMAIN new) : mate[m[1]] = m[2]}
      reworded == {m \in pairs : old[m[1]].words # new[m[2]].words}
      moved == {m \in pairs : /\ old[m[1]].path \in DOMAIN known
                              /\ known[old[m[1]].path] = new[m[2]].path}
      by(m) == UNION {x.by : x \in {x \in moves : x.from = old[m[1]].path
                                                 /\ x.to = new[m[2]].path}}
      of(m) == Change(m, new[m[2]].path, old[m[1]].words, new[m[2]].words, "no")
  IN {of(m) : m \in reworded}
     \cup {AddedChange(new, b) : b \in Added(new, mate)}
     \cup {Change(<<a, 0>>, old[a].path, old[a].words, <<>>, "removed") :
             a \in Removed(old, mate)}
     \cup {[of(m) EXCEPT !.renumberedBy = by(m)] : m \in moved}

(* collect_changes: what the diff of the window lists. The @@ has TLC keep  *)
(* the function it computed.                                               *)
ChangesOf(old, new, moves) ==
  LET known == Known(moves)
  IN ChangesBetween(old, new, moves, known, Mates(old, new, known) @@ <<>>)

(* window_can_hold: a window that ends on the day of the enactment shows   *)
(* the Code before the law.                                                *)
WindowCanHold(enacted, end) == end > enacted

(* through_later_renumberings: the path that one later amendment of the    *)
(* same law moves the address to.                                          *)
ThroughLaterRenumberings(under, moves, stated, n) ==
  LET later(id) ==
        LET at == {m \in DOMAIN stated : stated[m].id = id}
        IN \E m \in at : /\ \A k \in at : k <= m
                         /\ m > n /\ stated[m].law = stated[n].law
      movedTo == {m.to \o Below(under, Len(m.from)) : m \in
                    {m \in moves : IsAtOrBelow(under, m.from)
                                   /\ \E id \in m.by : later(id)}}
  IN IF One(movedTo) = {} THEN under ELSE CHOOSE p \in movedTo : TRUE

ShownAdded(e, change) ==
  Len(SelectSeq(ShownWords(e, change, <<>>), LAMBDA s : s.adds))

TheOnlyOne(beside, under) ==
  IF One(beside) = {} THEN under ELSE (CHOOSE c \in beside : TRUE).path

(* moved_by_another_law: the one provision added beside the address that   *)
(* shows all the amendment adds, where the address held what it strikes    *)
(* and shows nothing it adds.                                              *)
MovedByAnotherLaw(view, section, under, e) ==
  LET here == At(view.earlier, under)
      words(i) == FlattenSeq(Texts(view.earlier, AtOrUnder(view.earlier, i)))
  IN IF \/ under = section \/ Additions(e) = 0
        \/ \A i \in here : ~ActsOnWordsIn(e, words(i))
        \/ \E c \in view.changes : IsAtOrBelow(c.path, under) /\ ShownAdded(e, c) > 0
     THEN under
     ELSE TheOnlyOne({c \in view.changes : /\ c.whole = "added" /\ c.path # <<>>
                                           /\ Front(c.path) = Front(under)
                                           /\ Last(c.path).level = Last(under).level
                                           /\ ShownAdded(e, c) = Additions(e)},
                     under)

PlaceAt(view, a, n, section, under) ==
  LET candidates == {c \in view.changes : /\ IsAtOrBelow(c.path, under)
                                          /\ a.headingAlone => c.path = under}
  IN [who |-> n, window |-> view.window, section |-> section,
      address |-> under, candidates |-> candidates,
      enclosing |-> {c \in view.changes :
        candidates = {} /\ c.whole # "no" /\ IsAtOrBelow(under, c.path)}]

(* Where the nth amendment's address is in a window, and the changes under *)
(* it or, where there are none, the whole ones that hold it; a set of at   *)
(* most one.                                                               *)
PlacedIn(view, stated, n) ==
  LET a == stated[n]
      named(at) == IF a.asMoved THEN at.under
                   ELSE ThroughLaterRenumberings(at.under, view.moves, stated, n)
  IN {PlaceAt(view, a, n, at.section,
              MovedByAnotherLaw(view, at.section, named(at), a.evidence)) :
        at \in AddressPath(view, a)}

(* added_inside: the change of an amendment that only adds, inside a       *)
(* provision added whole.                                                  *)
AddedInside(view, a, placed) ==
  LET here == At(view.later, placed.address)
      shows == \E c \in placed.enclosing : ShownWords(a.evidence, c, <<>>) # <<>>
      first == CHOOSE i \in here : \A j \in here : i <= j
      made == IF shows \/ here = {} THEN placed.enclosing
              ELSE {AddedChange(view.later, first)}
  IN [placed EXCEPT !.candidates = made]

-----------------------------------------------------------------------------
(* match_in_work: the windows of one work, a set of views, and the stated  *)
(* amendments.                                                             *)

Paths(changes) == {c.path : c \in changes}

(* Every window an amendment's address was looked for in.                  *)
LookedFor(views, stated, n) ==
  {v \in views : WindowCanHold(stated[n].enacted, v.to)}

(* Mutant: the newest of them.                                             *)
Newest(places) == {p \in places : \A q \in places : p.window >= q.window}

(* The oldest of the places of one amendment; a set of at most one.        *)
Oldest(places) == {p \in places : \A q \in places : p.window <= q.window}

(* Mutant: every window that holds a change under its address is resolved. *)
ResolvedInEvery(views, stated, n, places) == {p \in places : p.candidates # {}}

(* The place an amendment is resolved in: the first window that holds a    *)
(* change under its address or, for one that only adds, that added what    *)
(* holds its address.                                                      *)
ResolvedIn(views, stated, n, places) ==
  LET with == {p \in places : p.candidates # {}}
      enclosed == Oldest({p \in places : p.enclosing # {}})
      added(p) == \A c \in p.enclosing : c.whole = "added"
      view(p) == CHOOSE v \in views : v.window = p.window
  IN IF with # {} THEN Oldest(with)
     ELSE {AddedInside(view(p), stated[n], p) :
             p \in {p \in enclosed : OnlyInserts(stated[n]) /\ added(p)}}

Contender(a, place) ==
  [id |-> a.id, law |-> a.law, evidence |-> a.evidence,
   address |-> place.address, candidates |-> place.candidates,
   onlyRenumbers |-> StatedOperation(a) = "redesignate",
   unitsNamed |-> UnitsItsWordsName(a), onlyStrikes |-> OnlyStrikes(a),
   onlyInserts |-> OnlyInserts(a), rewrites |-> a.rewrites]

Linked(n, place, changes, later) ==
  [who |-> n, address |-> place.address, outcome |-> "linked", window |-> place.window,
   changes |-> changes, under |-> Paths(place.candidates), later |-> later]

Residue(n, address, stage, reason, quiet, window, under) ==
  [who |-> n, address |-> address, outcome |-> "residue", stage |-> stage,
   reason |-> reason, quiet |-> quiet, window |-> window, under |-> under]

OutcomesBy(cause, members, contenders, places) ==
  LET later(p) == {q.window : q \in {q \in places :
                     q.who = p.who /\ q.candidates # {} /\ q.window > p.window}}
      of(m) == LET p == members[m]  caused == CausedBy(m, cause) IN
        IF caused # {} THEN Linked(p.who, p, caused, later(p))
        ELSE Residue(p.who, p.address, "resolve",
                     WhyStopped(contenders, m, cause), FALSE,
                     p.window, Paths(p.candidates))
  IN {of(m) : m \in DOMAIN members}

Of(places, n) == {p \in places : p.who = n}

(* The places of a group, in the order the laws state their amendments.    *)
Members(group, stated) ==
  FlattenSeq([n \in DOMAIN stated |->
                IF Of(group, n) = {} THEN <<>> ELSE <<CHOOSE p \in Of(group, n) : TRUE>>])

(* Stage 3: the amendments of one section in one window, together.         *)
GroupOutcomes(group, places, stated) ==
  LET members == Members(group, stated)
      contenders == [m \in DOMAIN members |->
                       Contender(stated[members[m].who], members[m])]
  IN OutcomesBy(Resolved(contenders), members, contenders, places)

(* An amendment no window's changes were looked at for.                    *)
Unplaced(views, stated, n, places) ==
  LET enclosed == Oldest({p \in places : p.enclosing # {}}) IN
  IF stated[n].section = NoSection
    THEN {Residue(n, <<>>, "address", stated[n].unresolved, FALSE, 0, {})}
  ELSE IF enclosed # {}
    THEN {Residue(n, p.address, "window", "inside", FALSE, p.window,
                  Paths(p.enclosing)) :
            p \in enclosed}
  ELSE {Residue(n, <<>>, "window", "nothing",
                LookedFor(views, stated, n) = {} \/ places # {}, 0, {})}

AllPlaces(views, stated) ==
  UNION {UNION {PlacedIn(v, stated, n) : v \in LookedFor(views, stated, n)} :
           n \in DOMAIN stated}

AllResolved(views, stated, places) ==
  UNION {ResolvedIn(views, stated, n, Of(places, n)) : n \in DOMAIN stated}

AllOutcomes(views, stated, places, resolved) ==
  LET groups == {{q \in resolved : q.window = p.window /\ q.section = p.section} :
                   p \in resolved}
      left == DOMAIN stated \ {p.who : p \in resolved}
  IN (UNION {GroupOutcomes(group, places, stated) : group \in groups})
     \cup UNION {Unplaced(views, stated, n, Of(places, n)) : n \in left}

MatchedAt(views, stated, places) ==
  AllOutcomes(views, stated, places, AllResolved(views, stated, places))

Matched(views, stated) == MatchedAt(views, stated, AllPlaces(views, stated))
=============================================================================
