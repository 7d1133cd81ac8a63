------------------------------ MODULE WorkList ------------------------------
(***************************************************************************)
(* What becomes of the matcher's answer: the links link-by-evidence writes,*)
(* the ones an agent adds, the reviews of them, and the reports read from  *)
(* the links, of which none is stored: what is left to do (residue), what  *)
(* a newer version no longer makes (outdated) and which links name another *)
(* section than their amendment (section-agreement).                       *)
(*                                                                         *)
(* A link is [window, path, who, maker], who being the id of an amendment  *)
(* and a maker [method, version]; the first three are what it says, which  *)
(* is its identity.  Which verdict on it is the newest is Reviews; here a  *)
(* link is refuted or it is not.                                           *)
(***************************************************************************)
EXTENDS EvidenceMatching

CONSTANTS
  Versions, \* the versions of the matcher there will be
  Work      \* how many commands are given

ASSUME WorkAssumption == Versions \in Nat \ {0} /\ Work \in Nat

VARIABLES
  links,      \* the amended_by links stored
  refuted,    \* what the links say whose newest review refutes them
  noLinks,    \* the amendments concluded to have no link
  version,    \* the matcher's
  toWrite,    \* the links a run has found and not written
  reading,    \* the laws a run goes through, {} when none does
  torn,       \* a run was killed, and none has ended since
  considered, \* each <<law, window, version>> of a run that has ended
  listed,     \* the paths the diff of each window lists
  work        \* commands given

work_vars == <<links, refuted, noLinks, version, toWrite, reading, torn,
               considered, work>>

all_vars == <<vars, work_vars, listed>>

Says(l) == [window |-> l.window, path |-> l.path, who |-> l.who]

LawOf(l) == AmendmentOf(l.who)[1]

Standing == {l \in links : Says(l) \notin refuted}

Idle == reading = {}

IdOf(o) == stated[o.who].id

PublishedWindows == 1..Len(printings) - 1

-----------------------------------------------------------------------------
(* The commands.                                                           *)

WorkInit ==
  /\ links = {} /\ refuted = {} /\ noLinks = {}
  /\ version = 1 /\ toWrite = {} /\ reading = {} /\ torn = FALSE
  /\ considered = {} /\ listed = {} /\ work = 0

Listed(docs, laws) ==
  UNION {{[window |-> v.window, path |-> path] : path \in Paths(v.changes)} :
           v \in Views(docs, laws)}

Command == Idle /\ work < Work /\ work' = work + 1 /\ UNCHANGED <<vars, listed>>

(* AmendmentMatch::links: one for each change of a linked amendment.       *)
LinksMade ==
  UNION {{[window |-> o.window, path |-> c.path, who |-> IdOf(o),
           maker |-> [method |-> "evidence", version |-> version]] :
            c \in o.changes} : o \in Links}

StartRun ==
  /\ Command /\ held # {} /\ PublishedWindows # {}
  /\ reading' = held /\ toWrite' = LinksMade
  /\ UNCHANGED <<links, refuted, noLinks, version, torn, considered>>

(* Mutant: a link already stored is left as it is.                         *)
StoredOnce(stored, l) ==
  IF \E k \in stored : Says(k) = Says(l) THEN stored ELSE stored \cup {l}

(* add_link: a link that says the same is stamped anew.                    *)
Stored(stored, l) == {k \in stored : Says(k) # Says(l)} \cup {l}

WriteOne ==
  /\ \E l \in toWrite : /\ links' = Stored(links, l)
                        /\ toWrite' = toWrite \ {l}
  /\ UNCHANGED <<vars, listed, refuted, noLinks, version, reading, torn,
                 considered, work>>

(* What ran is recorded over every window, once every link is written.     *)
EndRun ==
  /\ ~Idle /\ toWrite = {}
  /\ considered' = considered \cup (reading \X PublishedWindows \X {version})
  /\ reading' = {} /\ torn' = FALSE
  /\ UNCHANGED <<vars, listed, links, refuted, noLinks, version, toWrite, work>>

Kill ==
  /\ ~Idle
  /\ reading' = {} /\ toWrite' = {} /\ torn' = TRUE
  /\ UNCHANGED <<vars, listed, links, refuted, noLinks, version, considered, work>>

(* A build with another version of the matcher takes its place.            *)
Raise ==
  /\ Command /\ version < Versions /\ links # {}
  /\ version' = version + 1
  /\ UNCHANGED <<links, refuted, noLinks, toWrite, reading, torn, considered>>

(* link-amendment: an agent links an amendment to changes of one window,   *)
(* each at a path the diff of the window lists;                            *)
LinkAmendment(a, w) ==
  /\ Command /\ a[1] \in held
  /\ \E path \in {place.path : place \in {p \in listed : p.window = w}} :
       links' = Stored(links, [window |-> w, path |-> path, who |-> States(a).id,
                               maker |-> [method |-> "agent", version |-> 1]])
  /\ UNCHANGED <<refuted, noLinks, version, toWrite, reading, torn, considered>>

(* or records that it has none.                                            *)
NoLink(a) ==
  /\ Command /\ a[1] \in held /\ PublishedWindows # {}
  /\ noLinks' = noLinks \cup {States(a).id}
  /\ UNCHANGED <<links, refuted, version, toWrite, reading, torn, considered>>

(* settle: a verdict on a link, or one that refutes such a conclusion.     *)
Settle(l) ==
  /\ Command
  /\ \/ Says(l) \notin refuted /\ refuted' = refuted \cup {Says(l)}
     \/ Says(l) \in refuted /\ refuted' = refuted \ {Says(l)}
  /\ UNCHANGED <<links, noLinks, version, toWrite, reading, torn, considered>>

SettleNoLink(id) ==
  /\ Command
  /\ noLinks' = noLinks \ {id}
  /\ UNCHANGED <<links, refuted, version, toWrite, reading, torn, considered>>

WorkNext ==
  \/ StartRun \/ WriteOne \/ EndRun \/ Kill \/ Raise
  \/ \E a \in Amendment : NoLink(a) \/ \E w \in PublishedWindows : LinkAmendment(a, w)
  \/ \E l \in links : Settle(l)
  \/ \E id \in noLinks : SettleNoLink(id)
  \/ Idle /\ Next /\ listed' = Listed(printings', held') /\ UNCHANGED work_vars

WorkSpec == Init /\ WorkInit /\ [][WorkNext]_all_vars

-----------------------------------------------------------------------------
(* Residue: a row for each answer of the matcher no standing link settles. *)

Naming(stored, id) == {l \in stored : l.who = id}

(* Mutant: a path is in the section it ends with.                          *)
EndsWithSection(path, section) == section = Last(path)

(* is_in_section.                                                          *)
IsInSection(path, section) == section \in Range(path)

SectionOf(o) == stated[o.who].section

(* Mutant: any standing link of its amendment is an item's.                *)
AnyLinkIsIts(o) == Naming(Standing, IdOf(o)) # {}

(* item_is_linked: a standing link is in the item's section or, where it   *)
(* has none, in no other item's.                                           *)
ItemIsLinked(o) ==
  LET others == {SectionOf(p) : p \in {p \in outcomes : IdOf(p) = IdOf(o)}}
                  \ {NoSection}
      itsOwn(path) == IF SectionOf(o) # NoSection THEN IsInSection(path, SectionOf(o))
                      ELSE \A s \in others : ~IsInSection(path, s)
  IN \E l \in Naming(Standing, IdOf(o)) : itsOwn(l.path)

IsLinked(o) ==
  IF stated[o.who].item THEN ItemIsLinked(o)
  ELSE Naming(Standing, IdOf(o)) # {}

(* not_held: a table of sections, or what the OLRC classifies as a note.   *)
NotHeld(o) ==
  LET a == stated[o.who]
      rows == RowsFor(a.law, a.place)
  IN a.unresolved = "table of sections" \/ (rows # {} /\ \A r \in rows : r.note)

RefutedOf(o) == {l \in links \ Standing : l.who = IdOf(o)}

(* The category of a row, a reviewer's word before the matcher's.          *)
Category(o) ==
  IF IdOf(o) \in noLinks THEN "reviewed_no_link"
  ELSE IF RefutedOf(o) # {} THEN "work"
  ELSE IF o.outcome = "linked" THEN "unwritten"
  ELSE IF NotHeld(o) THEN "not_held"
  ELSE IF o.quiet THEN "quiet"
  ELSE "work"

(* linked_in_part: the changes under the address no standing link claims,  *)
(* without those a review said are not this amendment's.                   *)
Unclaimed(o) ==
  LET at(l) == l.window = o.window
      paths(S) == {l.path : l \in {l \in S : at(l)}}
  IN (o.under \ paths(Standing)) \ paths(RefutedOf(o))

WorkRow(o, category, changes) ==
  [who |-> o.who, id |-> IdOf(o), category |-> category, changes |-> changes]

ResidueRows ==
  {WorkRow(o, Category(o), o.under) : o \in {o \in outcomes : ~IsLinked(o)}}
  \cup {WorkRow(o, "linked_in_part", Unclaimed(o)) :
          o \in {o \in outcomes : IsLinked(o) /\ o.window # 0 /\ Unclaimed(o) # {}}}

(* outdated_among: of one bill's links in one window, those below the      *)
(* newest version of the matcher there.                                    *)
Outdated ==
  {l \in links : /\ l.maker.method = "evidence"
                 /\ \E k \in links : /\ k.maker.method = "evidence"
                                     /\ LawOf(k) = LawOf(l) /\ k.window = l.window
                                     /\ k.maker.version > l.maker.version}

(* section_agreement: the sections the words of an amendment name, with no *)
(* table read, and the one its link's path is in.                          *)
NamedSections(id) ==
  LET a == States(AmendmentOf(id)) IN
  IF a.section # NoSection THEN {a.section}
  ELSE {item.section : item \in Range(a.items)} \ {NoSection}

Disagreeing ==
  {l \in Standing : LET sitting == {s \in Range(l.path) : s.level = "section"}
                        named == NamedSections(l.who)
                    IN sitting # {} /\ named # {} /\ sitting \cap named = {}}

-----------------------------------------------------------------------------
(* A run settles what it found: when it ends, no row says its link is not  *)
(* written, and no link it wrote is in a section its amendment does not    *)
(* name, where each of its items names one. The list is read from the      *)
(* links by path, the run wrote them by address (residue/mod.rs 22-27,     *)
(* section_agreement.rs 10-13).                                            *)
EveryItemRead(id) ==
  \A item \in Range(States(AmendmentOf(id)).items) : item.section # NoSection

RunSettles ==
  [][EndRun => /\ ~\E row \in ResidueRows' : row.category = "unwritten"
               /\ ~\E l \in Disagreeing' \cap LinksMade : EveryItemRead(l.who)]_all_vars

(* An amendment whose every link was refuted, or an item of one whose     *)
(* links in its section were, is work, whatever links the other items of   *)
(* its amendment have, unless it is concluded that there is none           *)
(* (residue/mod.rs 44-50).                                                 *)
RefutedIsWork ==
  \A o \in outcomes :
    LET own == {l \in Naming(links, IdOf(o)) :
                  \/ ~stated[o.who].item \/ SectionOf(o) = NoSection
                  \/ IsInSection(l.path, SectionOf(o))}
    IN own # {} /\ own \cap Standing = {} /\ IdOf(o) \notin noLinks =>
         \E row \in ResidueRows : row.who = o.who /\ row.category = "work"

(* The newest matcher went through every law and printing held.            *)
Covered ==
  /\ held # {} /\ PublishedWindows # {}
  /\ held \X PublishedWindows \X {version} \subseteq considered

(* "It misses a flag. It never gives a false one": no link flagged is one  *)
(* the newest matcher makes of the laws and printings it last went through,*)
(* where its last run was not killed (outdated.rs).                        *)
OutdatedIsTrue ==
  Idle /\ ~torn /\ Covered
    => {Says(l) : l \in Outdated} \cap {Says(l) : l \in LinksMade} = {}

=============================================================================
