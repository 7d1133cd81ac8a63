------------------------ MODULE RedesignationWindow ------------------------
(***************************************************************************)
(* The window each renumbering statement of a law is recorded in           *)
(* (legislature::redesignation_window), in a dataset that grows.           *)
(*                                                                         *)
(* A window is two dates of one work.  A statement says that provisions    *)
(* move inside a container.  The step places each statement in the first   *)
(* of the windows it is given that ends after the law's enactment and      *)
(* shows a change under the container, unless a link says it is placed     *)
(* earlier, and writes a link for each move that both ends of the window   *)
(* hold.  A link is identified by its move and window; the statement it    *)
(* was read out of is provenance.                                          *)
(***************************************************************************)
EXTENDS Naturals, Sequences, Functions

CONSTANTS
  Date,         \* dates of the release points of the work
  Enacted,      \* the day the law was enacted
  Stated,       \* the statements of the law, in the order it states them
  Provision,
  MovesOf,      \* the moves <<from, to>> each statement states
  Container,
  ContainerOf,  \* where each statement renumbers
  Documents,    \* what the release points may print
  Verdicts      \* what reviewers say of links: confirmed, refuted

Statement == Range(Stated)
Move == Provision \X Provision
Window == {w \in Date \X Date : w[1] < w[2]}

(* What a printing holds of a container: its text, and the provisions it   *)
(* holds once. A container it does not hold holds none.                    *)
ASSUME DateAssumption == Date \subseteq Nat /\ Enacted \in Nat
ASSUME StatedAssumption == Stated \in Seq(Statement)
ASSUME MovesAssumption == MovesOf \in [Statement -> SUBSET Move]
ASSUME ContainerAssumption == ContainerOf \in [Statement -> Container]
ASSUME DocumentsAssumption ==
  \A doc \in Documents : \A d \in Date, c \in Container :
    doc[d][c].provisions \subseteq Provision
ASSUME VerdictsAssumption == Verdicts \subseteq {"confirmed", "refuted"}

VARIABLES
  document,  \* what each release point prints: [Date -> [Container -> ...]]
  held,      \* the dates the dataset holds
  links,     \* renumbering links: [move, window, by]
  refuted,   \* the links <<move, window>> whose newest review refutes them
  turned,    \* the windows the step has been run over
  inOrder    \* the release points arrived oldest first, the step was run over
             \* each new window, the oldest first, and no refutation withdrawn

vars == <<document, held, links, refuted, turned, inOrder>>

Adjacent(dates) ==
  {w \in Window : /\ w[1] \in dates /\ w[2] \in dates
                  /\ \A d \in dates : ~(w[1] < d /\ d < w[2])}

(* WindowView::order: by the date a window opens on, then where it ends.   *)
NotAfter(v, w) == v[1] < w[1] \/ (v[1] = w[1] /\ v[2] <= w[2])

First(windows) == {w \in windows : \A v \in windows : NotAfter(w, v)}

(* container_changed: the container differs at the window's two ends.      *)
ContainerChanged(s, w) ==
  document[w[1]][ContainerOf[s]] # document[w[2]][ContainerOf[s]]

(* Mutant: a window that ends on the day of the enactment can hold it.     *)
WindowCanHoldFrom(w) == w[2] >= Enacted

WindowCanHold(w) == w[2] > Enacted

CanHold(s, windows) ==
  {w \in windows : WindowCanHold(w) /\ ContainerChanged(s, w)}

(* resolve: the moves whose old provision the earlier printing holds, and  *)
(* whose new one the later.                                                *)
Resolved(s, w) ==
  {m \in MovesOf[s] :
     /\ m[1] \in document[w[1]][ContainerOf[s]].provisions
     /\ m[2] \in document[w[2]][ContainerOf[s]].provisions}

(* Mutant: any standing link places every statement of the law.            *)
PlacementsOfLaw(s, recorded, wrong) ==
  {l.window : l \in {k \in recorded : <<k.move, k.window>> \notin wrong}}

(* placements_in: the windows a statement holds a standing link in.        *)
PlacementsIn(s, recorded, wrong) ==
  {l.window : l \in {k \in recorded : k.by = s /\ <<k.move, k.window>> \notin wrong}}

(* Mutant: version 2 of the method, which read no placement (#273).        *)
LandsAnew(s, windows, placed) == First(CanHold(s, windows))

(* place_in_work: the window of these that a statement lands in, if any,   *)
(* beside those it is placed in.                                           *)
Lands(s, windows, placed) ==
  First({w \in CanHold(s, windows) : \A held_in \in First(placed) : NotAfter(w, held_in)})

(* Mutant: two statements of one move are two links.                       *)
PlaceApart(windows, recorded, wrong) ==
  {l \in [move : Move, window : windows, by : Statement] :
     /\ l.window \in Lands(l.by, windows, PlacementsIn(l.by, recorded, wrong))
     /\ l.move \in Resolved(l.by, l.window)}

(* Every statement resolved where it lands. Two statements of one move     *)
(* there are one link, and the later statement is the one it names.        *)
PlaceBeside(windows, recorded, wrong) ==
  LET landed == [s \in Statement |-> Lands(s, windows, PlacementsIn(s, recorded, wrong))]
      states(s, m, w) == w \in landed[s] /\ m \in Resolved(s, w)
  IN {l \in [move : Move, window : windows, by : Statement] :
        /\ states(l.by, l.move, l.window)
        /\ \E i \in DOMAIN Stated :
             /\ Stated[i] = l.by
             /\ \A j \in DOMAIN Stated : i < j => ~states(Stated[j], l.move, l.window)}

(* add_link of each, in turn: a link of the same id is replaced.           *)
Recorded(new, recorded) ==
  new \cup {l \in recorded :
              \A n \in new : <<n.move, n.window>> # <<l.move, l.window>>}

Init ==
  /\ document \in Documents
  /\ held = {}
  /\ links = {}
  /\ refuted = {}
  /\ turned = {}
  /\ inOrder = TRUE

AddReleasePoint(d) ==
  /\ d \notin held
  /\ held' = held \cup {d}
  /\ inOrder' = (inOrder /\ \A h \in held : h < d)
  /\ UNCHANGED <<document, links, refuted, turned>>

(* record_redesignations_over.                                             *)
RecordRedesignationsOver(windows) ==
  /\ links' = Recorded(PlaceBeside(windows, links, refuted), links)
  /\ turned' = turned \cup windows
  /\ UNCHANGED <<document, held, refuted>>

(* redesignations, over one window or wider span: as add-release-points    *)
(* prints the command, over the new windows with the oldest first,         *)
OverNewWindow ==
  /\ \E w \in First(Adjacent(held) \ turned) : RecordRedesignationsOver({w})
  /\ UNCHANGED inOrder

(* or as a user may,                                                       *)
OverSpan ==
  /\ \E w \in held \X held : w[1] < w[2] /\ RecordRedesignationsOver({w})
  /\ inOrder' = FALSE

(* or over every window, as build-dataset and add-bills do.                *)
OverEveryWindow ==
  /\ Adjacent(held) # {}
  /\ RecordRedesignationsOver(Adjacent(held))
  /\ inOrder' = FALSE

(* settle: the newest review of a link refutes it, or does not.            *)
Settle ==
  /\ \E verdict \in Verdicts, l \in links :
       refuted' = IF verdict = "refuted"
                  THEN refuted \cup {<<l.move, l.window>>}
                  ELSE refuted \ {<<l.move, l.window>>}
  /\ inOrder' = (inOrder /\ refuted \subseteq refuted')
  /\ UNCHANGED <<document, held, links, turned>>

Next ==
  \/ \E d \in Date : AddReleasePoint(d)
  \/ OverNewWindow \/ OverSpan \/ OverEveryWindow
  \/ Settle

Spec == Init /\ [][Next]_vars
-----------------------------------------------------------------------------
TypeOK ==
  /\ document \in Documents
  /\ held \subseteq Date
  /\ links \subseteq [move : Move, window : Window, by : Statement]
  /\ refuted \subseteq Move \X Window
  /\ turned \subseteq Window
  /\ inOrder \in BOOLEAN
  /\ \A k, l \in links : k.move = l.move /\ k.window = l.window => k = l

(* A link is evidence of a move: its window ends after the enactment, the  *)
(* text under the container changed in it, and the two ends hold the two   *)
(* provisions (redesignation_window.rs:13-24).                             *)
LinksAreEvidence ==
  \A l \in links : /\ Enacted < l.window[2]
                   /\ ContainerChanged(l.by, l.window)
                   /\ l.move \in Resolved(l.by, l.window)

(* A statement is placed in one window (#172): the links that name it and  *)
(* stand are of one window, while the dataset grows in order. A release    *)
(* point added between two others, or a refutation withdrawn after the     *)
(* statement was placed again, makes it two.                               *)
PlacedOnce ==
  inOrder =>
    \A k, l \in links :
      /\ k.by = l.by
      /\ <<k.move, k.window>> \notin refuted
      /\ <<l.move, l.window>> \notin refuted
      => k.window = l.window

Moved(recorded) == {<<l.move, l.window>> : l \in recorded}

(* What a build over every window the dataset holds records.               *)
Built == Moved(PlaceBeside(Adjacent(held), {}, {}))

(* A dataset grown in order and stepped over each new window holds every   *)
(* link a build over every window gives.                                   *)
GrownHoldsBuilt ==
  inOrder /\ turned = Adjacent(held) => Built \subseteq Moved(links)

=============================================================================
