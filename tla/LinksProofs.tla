---------------------------- MODULE LinksProofs ----------------------------
(***************************************************************************)
(* The two models whose state is links of a dataset. What                  *)
(* RedesignationWindow promises of the renumberings recorded of a window,  *)
(* for every law, every set of release points and everything they may      *)
(* print; and that the newest verdict on a citation link wins, for every   *)
(* set of links, reviewers and moments: what Reviews keeps when each       *)
(* reviewer settles from one process and the carry writes only where       *)
(* nobody has reviewed.                                                    *)
(***************************************************************************)
EXTENDS RedesignationWindow, Reviews, WellFoundedInduction, TLAPS

USE DEF vars

LEMMA WindowDates ==
  \A w \in Window : /\ w[1] \in Nat /\ w[2] \in Nat /\ w[1] < w[2]
                     /\ w = <<w[1], w[2]>>
<1> SUFFICES ASSUME NEW w \in Window
             PROVE /\ w[1] \in Nat /\ w[2] \in Nat /\ w[1] < w[2]
                   /\ w = <<w[1], w[2]>>
  OBVIOUS
<1>1. PICK a \in Date, b \in Date : w = <<a, b>>
  BY DEF Window
<1>2. w[1] < w[2]
  BY DEF Window
<1>3. w[1] = a /\ w[2] = b
  BY <1>1
<1> QED
  BY <1>1, <1>2, <1>3, DateAssumption

(* Induction in the form the proofs below use it: a set of numbers has a   *)
(* least member.                                                           *)
LEMMA LeastMember ==
  ASSUME NEW T \in SUBSET Nat, T # {}
  PROVE  \E m \in T : \A k \in T : m <= k
<1> DEFINE R == {ss \in Nat \X Nat : ss[1] < ss[2]}
<1>1. IsWellFoundedOn(R, Nat)
  BY NatLessThanWellFounded DEF OpToRel
<1>2. PICK m \in T : \A k \in T : ~ (<<k, m>> \in R)
  <2> HIDE DEF R
  <2> QED BY <1>1, WFMin
<1>3. ASSUME NEW k \in T PROVE m <= k
  <2>1. k \in Nat /\ m \in Nat
    OBVIOUS
  <2>2. ~ (<<k, m>> \in R)
    BY <1>2
  <2>3. ~ (k < m)
    BY <2>1, <2>2
  <2> QED BY <2>1, <2>3
<1> QED BY <1>3

LEMMA AdjacentAreWindows == \A dates : Adjacent(dates) \subseteq Window
BY DEF Adjacent

(* What a step writes: at most one link of a move in a window, each read   *)
(* out of a statement that lands there and resolves there.                 *)
LEMMA WhatAStepWrites ==
  ASSUME NEW windows \in SUBSET Window, NEW recorded, NEW wrong,
         NEW l \in PlaceBeside(windows, recorded, wrong)
  PROVE /\ l \in [move : Move, window : windows, by : Statement]
        /\ l.window \in Lands(l.by, windows, PlacementsIn(l.by, recorded, wrong))
        /\ l.move \in Resolved(l.by, l.window)
BY DEF PlaceBeside

LEMMA OneLinkEach ==
  ASSUME NEW windows, NEW recorded, NEW wrong,
         NEW k \in PlaceBeside(windows, recorded, wrong),
         NEW l \in PlaceBeside(windows, recorded, wrong),
         k.move = l.move, k.window = l.window
  PROVE k = l
<1> DEFINE landed == [s \in Statement |-> Lands(s, windows, PlacementsIn(s, recorded, wrong))]
           states(s, m, w) == w \in landed[s] /\ m \in Resolved(s, w)
<1>1. /\ k \in [move : Move, window : windows, by : Statement]
      /\ l \in [move : Move, window : windows, by : Statement]
      /\ states(k.by, k.move, k.window) /\ states(l.by, l.move, l.window)
  BY DEF PlaceBeside
<1>2. PICK i \in DOMAIN Stated :
        /\ Stated[i] = k.by
        /\ \A j \in DOMAIN Stated : i < j => ~states(Stated[j], k.move, k.window)
  BY DEF PlaceBeside
<1>3. PICK j \in DOMAIN Stated :
        /\ Stated[j] = l.by
        /\ \A a \in DOMAIN Stated : j < a => ~states(Stated[a], l.move, l.window)
  BY DEF PlaceBeside
<1> HIDE DEF landed, states
<1>4. ~(i < j) /\ ~(j < i)
  BY <1>1, <1>2, <1>3
<1>5. i \in Nat /\ j \in Nat
  BY StatedAssumption
<1>6. k.by = l.by
  BY <1>2, <1>3, <1>4, <1>5
<1> QED
  BY <1>1, <1>6

(* Links have their type, and no two are of one move in one window.        *)
THEOREM TypeCorrect == Spec => []TypeOK
<1>1. Init => TypeOK
  BY DEF Init, TypeOK
<1>2. TypeOK /\ [Next]_vars => TypeOK'
  <2> SUFFICES ASSUME TypeOK, [Next]_vars PROVE TypeOK'
    OBVIOUS
  <2>0. inOrder' \in BOOLEAN
    BY DEF Next, AddReleasePoint, OverNewWindow, OverSpan, OverEveryWindow, Settle, TypeOK
  <2>1. ASSUME NEW windows \in SUBSET Window, RecordRedesignationsOver(windows)
        PROVE TypeOK'
    <3> DEFINE new == PlaceBeside(windows, links, refuted)
    <3>1. links' = new \cup {l \in links :
              \A n \in new : <<n.move, n.window>> # <<l.move, l.window>>}
      BY <2>1 DEF RecordRedesignationsOver, Recorded
    <3>2. \A l \in new : l \in [move : Move, window : Window, by : Statement]
      BY WhatAStepWrites
    <3>3. \A k, l \in new : k.move = l.move /\ k.window = l.window => k = l
      BY OneLinkEach
    <3> HIDE DEF new
    <3>4. \A k, l \in links' : k.move = l.move /\ k.window = l.window => k = l
      BY <3>1, <3>3 DEF TypeOK
    <3> QED
      BY <2>0, <2>1, <3>1, <3>2, <3>4 DEF RecordRedesignationsOver, TypeOK
  <2>2. CASE \E d \in Date : AddReleasePoint(d)
    BY <2>2 DEF AddReleasePoint, TypeOK
  <2>3. CASE OverNewWindow
    <3>1. PICK w \in First(Adjacent(held) \ turned) : RecordRedesignationsOver({w})
      BY <2>3 DEF OverNewWindow
    <3> QED
      BY <2>1, <3>1, AdjacentAreWindows DEF First
  <2>4. CASE OverSpan
    <3>1. PICK w \in held \X held : w[1] < w[2] /\ RecordRedesignationsOver({w})
      BY <2>4 DEF OverSpan
    <3>2. {w} \in SUBSET Window
      BY <3>1 DEF TypeOK, Window
    <3> QED
      BY <2>1, <3>1, <3>2
  <2>5. CASE OverEveryWindow
    BY <2>1, <2>5, AdjacentAreWindows DEF OverEveryWindow
  <2>6. CASE Settle
    BY <2>6 DEF Settle, TypeOK
  <2>7. CASE UNCHANGED vars
    BY <2>7 DEF TypeOK
  <2> QED
    BY <2>2, <2>3, <2>4, <2>5, <2>6, <2>7 DEF Next
<1> QED
  BY <1>1, <1>2, PTL DEF Spec

(* What a reader may take from a link: its window ends after the enactment *)
(* and shows a change, and its two ends hold the two provisions.           *)
THEOREM LinksAreAlwaysEvidence == Spec => []LinksAreEvidence
<1>1. Init => LinksAreEvidence
  BY DEF Init, LinksAreEvidence
<1>2. TypeOK /\ LinksAreEvidence /\ [Next]_vars => LinksAreEvidence'
  <2> SUFFICES ASSUME TypeOK, LinksAreEvidence, [Next]_vars
               PROVE LinksAreEvidence'
    OBVIOUS
  <2>1. ASSUME NEW windows \in SUBSET Window, RecordRedesignationsOver(windows)
        PROVE LinksAreEvidence'
    <3>1. SUFFICES ASSUME NEW l \in links'
                   PROVE /\ Enacted < l.window[2]
                         /\ ContainerChanged(l.by, l.window)
                         /\ l.move \in Resolved(l.by, l.window)
      BY <2>1 DEF RecordRedesignationsOver, LinksAreEvidence, ContainerChanged,
                  Resolved
    <3>2. CASE l \in links
      BY <3>2 DEF LinksAreEvidence
    <3>3. CASE l \in PlaceBeside(windows, links, refuted)
      <4>1. /\ l.window \in Window /\ l.move \in Resolved(l.by, l.window)
            /\ l.window \in CanHold(l.by, windows)
        BY <3>3, WhatAStepWrites DEF Lands, First
      <4> QED
        BY <4>1, DateAssumption DEF CanHold, WindowCanHold, Window
    <3> QED
      BY <2>1, <3>2, <3>3 DEF RecordRedesignationsOver, Recorded
  <2>2. CASE \/ \E d \in Date : AddReleasePoint(d)
             \/ Settle
             \/ UNCHANGED vars
    BY <2>2 DEF AddReleasePoint, Settle, LinksAreEvidence, ContainerChanged,
                Resolved
  <2>3. CASE OverNewWindow \/ OverEveryWindow
    BY <2>1, <2>3, AdjacentAreWindows DEF OverNewWindow, OverEveryWindow, First
  <2>4. CASE OverSpan
    <3>1. PICK w \in held \X held : w[1] < w[2] /\ RecordRedesignationsOver({w})
      BY <2>4 DEF OverSpan
    <3>2. {w} \in SUBSET Window
      BY <3>1 DEF TypeOK, Window
    <3> QED
      BY <2>1, <3>1, <3>2
  <2> QED
    BY <2>2, <2>3, <2>4 DEF Next
<1> QED
  BY <1>1, <1>2, TypeCorrect, PTL DEF Spec
-----------------------------------------------------------------------------
(* Of two windows of neighbouring dates, one ends before the other opens.  *)
LEMMA AdjacentApart ==
  ASSUME NEW dates, NEW v \in Adjacent(dates), NEW w \in Adjacent(dates), v # w
  PROVE v[2] <= w[1] \/ w[2] <= v[1]
<1>1. /\ v[1] \in Nat /\ v[2] \in Nat /\ v[1] < v[2] /\ v = <<v[1], v[2]>>
      /\ w[1] \in Nat /\ w[2] \in Nat /\ w[1] < w[2] /\ w = <<w[1], w[2]>>
  BY AdjacentAreWindows, WindowDates
<1>2. /\ ~(v[1] < w[1] /\ w[1] < v[2]) /\ ~(v[1] < w[2] /\ w[2] < v[2])
      /\ ~(w[1] < v[1] /\ v[1] < w[2]) /\ ~(w[1] < v[2] /\ v[2] < w[2])
  BY DEF Adjacent
<1>3. v[1] # w[1] \/ v[2] # w[2]
  BY <1>1
<1> QED
  BY <1>1, <1>2, <1>3

(* The step has turned to the oldest windows, and links are of those.      *)
Turned ==
  /\ turned \subseteq Adjacent(held)
  /\ \A v \in turned, w \in Adjacent(held) \ turned : v[2] <= w[1]
  /\ \A l \in links : l.window \in turned

LEMMA TurnedStep ==
  ASSUME inOrder', TypeOK, Turned, [Next]_vars
  PROVE Turned'
<1>1. ASSUME NEW d \in Date, AddReleasePoint(d) PROVE Turned'
  <2>1. \A h \in held : h \in Nat /\ h < d /\ d \in Nat
    BY <1>1, DateAssumption DEF AddReleasePoint, TypeOK
  <2>2. Adjacent(held) \subseteq Adjacent(held')
    BY <1>1, <2>1 DEF AddReleasePoint, Adjacent
  <2>3. ASSUME NEW w \in Adjacent(held'), w \notin Adjacent(held)
        PROVE \A v \in Adjacent(held) : v[2] <= w[1]
    <3>1. w[2] = d /\ w[1] \in held
      BY <1>1, <2>1, <2>3, DateAssumption DEF AddReleasePoint, Adjacent, Window
    <3>2. SUFFICES ASSUME NEW v \in Adjacent(held) PROVE v[2] <= w[1]
      OBVIOUS
    <3>3. v[2] \in held /\ v[2] \in Nat /\ w[1] \in Nat
      BY <2>1, <3>1, DateAssumption DEF Adjacent
    <3>4. ~(w[1] < v[2] /\ v[2] < d)
      BY <1>1, <2>3, <3>1, <3>3 DEF AddReleasePoint, Adjacent
    <3> QED
      BY <2>1, <3>3, <3>4
  <2> QED
    BY <1>1, <2>2, <2>3 DEF AddReleasePoint, Turned
<1>2. CASE OverNewWindow
  <2>1. PICK w \in First(Adjacent(held) \ turned) : RecordRedesignationsOver({w})
    BY <1>2 DEF OverNewWindow
  <2>2. /\ w \in Adjacent(held) /\ w \notin turned /\ w \in Window
        /\ turned' = turned \cup {w} /\ held' = held
    BY <2>1, AdjacentAreWindows DEF First, RecordRedesignationsOver
  <2>3. ASSUME NEW u \in Adjacent(held), u \notin turned, u # w
        PROVE w[2] <= u[1]
    <3>1. NotAfter(w, u)
      BY <2>1, <2>3 DEF First
    <3>2. w[2] <= u[1] \/ u[2] <= w[1]
      BY <2>2, <2>3, AdjacentApart
    <3>3. u \in Window
      BY AdjacentAreWindows
    <3> QED
      BY <2>2, <3>1, <3>2, <3>3, WindowDates DEF NotAfter
  <2>4. \A l \in links' : l.window \in turned'
    <3>1. \A l \in PlaceBeside({w}, links, refuted) : l.window = w
      BY <2>2, WhatAStepWrites
    <3> QED
      BY <2>1, <2>2, <3>1 DEF RecordRedesignationsOver, Recorded, Turned
  <2> QED
    BY <2>2, <2>3, <2>4 DEF Turned
<1>3. CASE OverSpan \/ OverEveryWindow
  BY <1>3 DEF OverSpan, OverEveryWindow
<1>4. CASE Settle \/ UNCHANGED vars
  BY <1>4 DEF Settle, Turned
<1> QED
  BY <1>1, <1>2, <1>3, <1>4 DEF Next

(* However the dataset grew, as long as it grew in order, a statement is   *)
(* placed in one window (#172, #273).                                      *)
THEOREM StatementsArePlacedOnce == Spec => []PlacedOnce
<1> DEFINE IInv == (inOrder => Turned) /\ PlacedOnce
<1>1. Init => IInv
  BY DEF Init, Turned, PlacedOnce
<1>2. TypeOK /\ IInv /\ [Next]_vars => IInv'
  <2> SUFFICES ASSUME TypeOK, inOrder, Turned, PlacedOnce, [Next]_vars, inOrder'
               PROVE PlacedOnce'
    <3>1. [Next]_vars /\ inOrder' => inOrder
      BY DEF Next, AddReleasePoint, OverNewWindow, OverSpan, OverEveryWindow, Settle
    <3> QED
      BY <3>1, TurnedStep DEF PlacedOnce
  <2>1. CASE OverNewWindow
    <3>1. PICK w \in First(Adjacent(held) \ turned) : RecordRedesignationsOver({w})
      BY <2>1 DEF OverNewWindow
    <3>2. /\ w \in Adjacent(held) /\ w \notin turned /\ w \in Window
          /\ refuted' = refuted
          /\ links' = Recorded(PlaceBeside({w}, links, refuted), links)
      BY <3>1, AdjacentAreWindows DEF First, RecordRedesignationsOver
    <3>3. ASSUME NEW k \in PlaceBeside({w}, links, refuted), NEW l \in links,
                 k.by = l.by, <<l.move, l.window>> \notin refuted
          PROVE FALSE
      <4> DEFINE placed == PlacementsIn(k.by, links, refuted)
      <4>1. k.window = w /\ w \in Lands(k.by, {w}, placed)
        BY <3>2, <3>3, WhatAStepWrites
      <4>2. l.window \in placed /\ \A v \in placed : v = l.window
        BY <3>3 DEF PlacementsIn, PlacedOnce
      <4> HIDE DEF placed
      <4>3. l.window \in turned /\ l.window \in Window
        BY DEF Turned, TypeOK
      <4>4. NotAfter(l.window, l.window)
        BY <4>3, WindowDates DEF NotAfter
      <4>5. l.window \in First(placed)
        BY <4>2, <4>4 DEF First
      <4>6. NotAfter(w, l.window)
        BY <4>1, <4>5 DEF Lands, First
      <4>7. l.window[2] <= w[1]
        BY <3>2, <4>3 DEF Turned
      <4> QED
        BY <3>2, <4>3, <4>6, <4>7, WindowDates DEF NotAfter
    <3>4. \A k \in PlaceBeside({w}, links, refuted) : k.window = w
      BY <3>2, WhatAStepWrites
    <3>5. \A l \in links' : l \in PlaceBeside({w}, links, refuted) \/ l \in links
      BY <3>2 DEF Recorded
    <3>6. SUFFICES ASSUME NEW k \in links', NEW l \in links', k.by = l.by,
                          <<k.move, k.window>> \notin refuted,
                          <<l.move, l.window>> \notin refuted
                   PROVE k.window = l.window
      BY <3>2 DEF PlacedOnce
    <3>7. CASE k \in links /\ l \in links
      BY <3>6, <3>7 DEF PlacedOnce
    <3> QED
      BY <3>3, <3>4, <3>5, <3>6, <3>7
  <2>2. CASE Settle
    <3>1. links' = links
      BY <2>2 DEF Settle
    <3>2. refuted \subseteq refuted'
      BY <2>2 DEF Settle
    <3> QED
      BY <3>1, <3>2 DEF PlacedOnce
  <2>3. CASE (\E d \in Date : AddReleasePoint(d)) \/ UNCHANGED vars
    BY <2>3 DEF AddReleasePoint, PlacedOnce
  <2>4. CASE OverSpan \/ OverEveryWindow
    BY <2>4 DEF OverSpan, OverEveryWindow
  <2> QED
    BY <2>1, <2>2, <2>3, <2>4 DEF Next
<1> QED
  BY <1>1, <1>2, TypeCorrect, PTL DEF Spec
-----------------------------------------------------------------------------
(* The move a statement lands with is written: by it, or by the last       *)
(* statement of the law that lands there with the same move.               *)
LEMMA LandedIsWritten ==
  ASSUME NEW windows, NEW recorded, NEW wrong, NEW s \in Statement, NEW w \in windows,
         w \in Lands(s, windows, PlacementsIn(s, recorded, wrong)),
         NEW m \in Resolved(s, w)
  PROVE \E l \in PlaceBeside(windows, recorded, wrong) : l.move = m /\ l.window = w
<1> DEFINE landed == [r \in Statement |-> Lands(r, windows, PlacementsIn(r, recorded, wrong))]
           states(r, mv, v) == v \in landed[r] /\ mv \in Resolved(r, v)
<1>1. PICK n \in Nat : DOMAIN Stated = 1..n
  <2>1. Len(Stated) \in Nat /\ DOMAIN Stated = 1..Len(Stated)
    BY StatedAssumption
  <2> QED
    BY <2>1
<1> DEFINE T == {n - i : i \in {j \in 1..n : states(Stated[j], m, w)}}
<1>2. T \in SUBSET Nat /\ T # {}
  <2>1. PICK i \in 1..n : Stated[i] = s
    BY <1>1 DEF Statement, Range
  <2>2. states(Stated[i], m, w)
    BY <2>1
  <2> HIDE DEF states
  <2> QED
    BY <1>1, <2>2
<1>3. PICK k \in T : \A q \in T : k <= q
  <2> HIDE DEF T
  <2> QED BY <1>2, LeastMember
<1> HIDE DEF states
<1>4. PICK i \in 1..n : k = n - i /\ states(Stated[i], m, w)
  BY <1>3
<1>5. \A j \in 1..n : i < j => ~states(Stated[j], m, w)
  <2>1. SUFFICES ASSUME NEW j \in 1..n, i < j, states(Stated[j], m, w) PROVE FALSE
    OBVIOUS
  <2>2. n - j \in T
    BY <2>1
  <2>3. n - i <= n - j
    BY <1>3, <1>4, <2>2
  <2> QED
    BY <2>1, <2>3
<1>6. Stated[i] \in Statement /\ m \in Move
  BY <1>1, MovesAssumption DEF Statement, Range, Resolved
<1> DEFINE l == [move |-> m, window |-> w, by |-> Stated[i]]
<1>7. l \in [move : Move, window : windows, by : Statement]
  BY <1>6
<1>8. states(l.by, l.move, l.window)
  BY <1>4
<1>9. /\ i \in DOMAIN Stated /\ Stated[i] = l.by
      /\ \A j \in DOMAIN Stated : i < j => ~states(Stated[j], l.move, l.window)
  BY <1>1, <1>5
<1>10. l \in PlaceBeside(windows, recorded, wrong)
  BY <1>7, <1>8, <1>9 DEF PlaceBeside, states
<1> QED
  BY <1>10

(* Every move a turned statement resolves to, in the first turned window   *)
(* that can hold the statement, has a link there.                          *)
TurnedIsKept ==
  \A s \in Statement : \A w \in First(CanHold(s, turned)) : \A m \in Resolved(s, w) :
    \E l \in links : l.move = m /\ l.window = w

LEMMA RecordedKeeps ==
  ASSUME NEW new, NEW recorded, NEW k \in new \cup recorded
  PROVE \E l \in Recorded(new, recorded) : l.move = k.move /\ l.window = k.window
BY DEF Recorded

(* Turning to the oldest window not yet turned to keeps them: a statement  *)
(* an earlier window can hold stays with it, and a statement none could    *)
(* hold is placed nowhere and lands in the new one.                        *)
LEMMA TurningKeeps ==
  ASSUME TypeOK, Turned, LinksAreEvidence, TurnedIsKept, OverNewWindow
  PROVE TurnedIsKept'
<1>1. PICK w \in First(Adjacent(held) \ turned) : RecordRedesignationsOver({w})
  BY DEF OverNewWindow
<1>2. /\ w \in Adjacent(held) /\ w \notin turned /\ w \in Window
      /\ turned' = turned \cup {w} /\ document' = document
      /\ links' = Recorded(PlaceBeside({w}, links, refuted), links)
  BY <1>1, AdjacentAreWindows DEF First, RecordRedesignationsOver
<1>3. SUFFICES ASSUME NEW s \in Statement, NEW v \in First(CanHold(s, turned \cup {w})),
                      NEW m \in Resolved(s, v)
               PROVE \E l \in links' : l.move = m /\ l.window = v
  <2>1. \A s \in Statement : CanHold(s, turned)' = CanHold(s, turned \cup {w})
    BY <1>2 DEF CanHold, ContainerChanged
  <2>2. \A s \in Statement : \A v : Resolved(s, v)' = Resolved(s, v)
    BY <1>2 DEF Resolved
  <2>3. \A s \in Statement : First(CanHold(s, turned))' = First(CanHold(s, turned \cup {w}))
    BY <2>1 DEF First
  <2> QED
    BY <2>2, <2>3 DEF TurnedIsKept
<1>4. \A k \in PlaceBeside({w}, links, refuted) \cup links :
        \E l \in links' : l.move = k.move /\ l.window = k.window
  <2> DEFINE new == PlaceBeside({w}, links, refuted)
  <2> HIDE DEF new
  <2>1. \A k \in new \cup links :
          \E l \in Recorded(new, links) : l.move = k.move /\ l.window = k.window
    BY RecordedKeeps
  <2> QED
    BY <1>2, <2>1 DEF new
<1>5. CASE v \in turned
  <2>1. v \in First(CanHold(s, turned))
    BY <1>3, <1>5 DEF First, CanHold
  <2>2. PICK l \in links : l.move = m /\ l.window = v
    BY <1>3, <2>1 DEF TurnedIsKept
  <2> QED
    BY <1>4, <2>2
<1>6. CASE v = w
  <2>1. ASSUME NEW u \in CanHold(s, turned) PROVE FALSE
    <3>1. NotAfter(w, u) /\ u \in turned /\ u \in Window
      BY <1>3, <1>6, <2>1 DEF First, CanHold, TypeOK
    <3>2. u[2] <= w[1]
      BY <1>2, <3>1 DEF Turned
    <3> QED
      BY <1>2, <3>1, <3>2, WindowDates DEF NotAfter
  <2> DEFINE placed == PlacementsIn(s, links, refuted)
  <2>2. placed = {}
    <3>1. SUFFICES ASSUME NEW l \in links, l.by = s PROVE FALSE
      BY DEF PlacementsIn
    <3>2. l.window \in CanHold(s, turned)
      BY <3>1 DEF Turned, LinksAreEvidence, CanHold, WindowCanHold
    <3> QED
      BY <2>1, <3>2
  <2>3. w \in CanHold(s, {w}) /\ NotAfter(w, w)
    <3>1. w \in CanHold(s, turned \cup {w})
      BY <1>3, <1>6 DEF First
    <3> QED
      BY <1>2, <3>1, WindowDates DEF CanHold, NotAfter
  <2>4. w \in Lands(s, {w}, placed)
    <3>1. First({}) = {}
      BY DEF First
    <3>2. CanHold(s, {w}) \subseteq {w}
      BY DEF CanHold
    <3> HIDE DEF placed
    <3> QED
      BY <2>2, <2>3, <3>1, <3>2 DEF Lands, First
  <2>5. PICK l \in PlaceBeside({w}, links, refuted) : l.move = m /\ l.window = w
    BY <1>3, <1>6, <2>4, LandedIsWritten
  <2> QED
    BY <1>4, <1>6, <2>5
<1> QED
  BY <1>3, <1>5, <1>6 DEF First, CanHold

(* A dataset grown in order and stepped over each new window holds every   *)
(* link a build over every window gives (#273).                            *)
THEOREM GrownAlwaysHoldsBuilt == Spec => []GrownHoldsBuilt
<1> DEFINE IInv == inOrder => Turned /\ TurnedIsKept
<1>1. Init => IInv
  BY DEF Init, Turned, TurnedIsKept, First, CanHold
<1>2. TypeOK /\ LinksAreEvidence /\ IInv /\ [Next]_vars => IInv'
  <2>1. SUFFICES ASSUME TypeOK, LinksAreEvidence, inOrder, Turned, TurnedIsKept,
                        [Next]_vars, inOrder'
                 PROVE TurnedIsKept'
    <3>1. [Next]_vars /\ inOrder' => inOrder
      BY DEF Next, AddReleasePoint, OverNewWindow, OverSpan, OverEveryWindow, Settle
    <3> QED
      BY <3>1, TurnedStep
  <2>2. CASE OverNewWindow
    BY <2>1, <2>2, TurningKeeps
  <2>3. CASE OverSpan \/ OverEveryWindow
    BY <2>1, <2>3 DEF OverSpan, OverEveryWindow
  <2>4. CASE (\E d \in Date : AddReleasePoint(d)) \/ Settle \/ UNCHANGED vars
    <3>1. document' = document /\ links' = links /\ turned' = turned
      BY <2>4 DEF AddReleasePoint, Settle
    <3> QED
      BY <2>1, <3>1 DEF TurnedIsKept, First, CanHold, ContainerChanged, Resolved
  <2> QED
    BY <2>1, <2>2, <2>3, <2>4 DEF Next
<1>3. TypeOK /\ IInv => GrownHoldsBuilt
  <2>1. SUFFICES ASSUME TypeOK, TurnedIsKept, turned = Adjacent(held),
                        NEW k \in PlaceBeside(turned, {}, {})
                 PROVE \E l \in links : l.move = k.move /\ l.window = k.window
    BY DEF GrownHoldsBuilt, Built, Moved
  <2>2. /\ k.by \in Statement /\ k.move \in Resolved(k.by, k.window)
        /\ k.window \in Lands(k.by, turned, PlacementsIn(k.by, {}, {}))
    BY <2>1, WhatAStepWrites DEF TypeOK
  <2>3. First(PlacementsIn(k.by, {}, {})) = {}
    BY DEF PlacementsIn, First
  <2>4. k.window \in First(CanHold(k.by, turned))
    <3> HIDE DEF PlacementsIn
    <3>1. Lands(k.by, turned, PlacementsIn(k.by, {}, {})) = First(CanHold(k.by, turned))
      BY <2>3 DEF Lands
    <3> QED
      BY <2>2, <3>1
  <2> QED
    BY <2>1, <2>2, <2>4 DEF TurnedIsKept
<1> QED
  BY <1>1, <1>2, <1>3, TypeCorrect, LinksAreAlwaysEvidence, PTL DEF Spec
-----------------------------------------------------------------------------
(* Verdicts on links.                                                      *)

(* A reviewer gives one verdict at a time.                                 *)
OneProcessEach ==
  \A p, q \in Proc : ReviewerOf[p] = ReviewerOf[q] => p = q

(* A carry never meets a review settled in the rebuild.                    *)
CarryApart == Again = {} \/ "new" \notin Settled

USE MaxTimeAssumption DEF Dataset, Times, review_vars

LEMMA CopiesType ==
  ASSUME NEW R \in SUBSET Records PROVE Copies(R) \in SUBSET Records
BY AgainAssumption DEF Copies, About, Records, Key

LEMMA HeldType == ReviewTypeOK => \A d \in Dataset : Held(d) \in SUBSET Records
BY DEF ReviewTypeOK, Held, Records

LEMMA WriteType ==
  ASSUME ReviewTypeOK, NEW d \in Dataset, NEW r \in Records, Write(d, r)
  PROVE /\ reviews' \in [Dataset -> [Key -> Times]]
        /\ said' \in [Dataset -> SUBSET Records]
        /\ reviews'[d][r.key] = r.at
        /\ \A e \in Dataset, k \in Key :
             e # d \/ k # r.key => reviews'[e][k] = reviews[e][k]
        /\ said'[d] = said[d] \cup {r}
        /\ \A e \in Dataset : e # d => said'[e] = said[e]
BY DEF ReviewTypeOK, Write, Records

(* Records bear moments already past, and copies wait only on a carry.     *)
THEOREM ReviewTypeCorrect == ReviewSpec => []ReviewTypeOK
<1>1. ReviewInit => ReviewTypeOK
  <2> SUFFICES ASSUME ReviewInit PROVE ReviewTypeOK
    OBVIOUS
  <2>1. 0 \in 0..MaxTime /\ 1 \in 1..(MaxTime + 1)
    OBVIOUS
  <2>2. [k \in Key |-> 0] \in [Key -> Times]
    BY <2>1
  <2>3. reviews \in [Dataset -> [Key -> Times]]
    BY <2>2 DEF ReviewInit
  <2>4. /\ said \in [Dataset -> SUBSET Records]
        /\ pending \in [Proc -> Pending \cup {None}]
    BY DEF ReviewInit
  <2> QED
    BY <2>1, <2>3, <2>4 DEF ReviewInit, ReviewTypeOK
<1>2. ReviewTypeOK /\ [ReviewNext]_review_vars => ReviewTypeOK'
  <2> SUFFICES ASSUME ReviewTypeOK, [ReviewNext]_review_vars PROVE ReviewTypeOK'
    OBVIOUS
  <2>1. ASSUME NEW p \in Proc, Decide(p) PROVE ReviewTypeOK'
    <3>1. /\ clock \in Times \ {0}
          /\ clock' \in 1..(MaxTime + 1)
      BY <2>1 DEF Decide, ReviewTypeOK
    <3>2. PICK e \in Settled, link \in Link, verdict \in Verdict :
            pending' = [pending EXCEPT ![p] =
              [dataset |-> e,
               key |-> [link |-> link, verdict |-> verdict,
                        reviewer |-> ReviewerOf[p]],
               at |-> clock]]
      BY <2>1 DEF Decide
    <3>3. ReviewerOf[p] \in Reviewer /\ e \in Dataset
      BY ReviewerAssumption, SettledAssumption
    <3>4. pending' \in [Proc -> Pending \cup {None}]
      BY <3>1, <3>2, <3>3 DEF ReviewTypeOK, Pending, Key
    <3> QED
      BY <2>1, <3>1, <3>4 DEF Decide, ReviewTypeOK
  <2>2. ASSUME NEW p \in Proc, RecordVerdict(p) PROVE ReviewTypeOK'
    <3>1. /\ pending[p].dataset \in Dataset
          /\ [key |-> pending[p].key, at |-> pending[p].at] \in Records
      BY <2>2 DEF RecordVerdict, ReviewTypeOK, Pending, Records
    <3> QED
      BY <2>2, <3>1, WriteType DEF RecordVerdict, ReviewTypeOK
  <2>3. ASSUME NEW p \in Proc, Abandon(p) PROVE ReviewTypeOK'
    BY <2>3 DEF Abandon, ReviewTypeOK
  <2>4. CASE StartCarry
    BY <2>4, HeldType, CopiesType DEF StartCarry, ReviewTypeOK
  <2>5. CASE CarryOne
    BY <2>5, WriteType DEF CarryOne, ReviewTypeOK
  <2>6. CASE EndCarry
    BY <2>6 DEF EndCarry, ReviewTypeOK
  <2>7. CASE UNCHANGED review_vars
    BY <2>7 DEF ReviewTypeOK
  <2> QED
    BY <2>1, <2>2, <2>3, <2>4, <2>5, <2>6, <2>7 DEF ReviewNext
<1> QED
  BY <1>1, <1>2, PTL DEF ReviewSpec
-----------------------------------------------------------------------------
(* Every moment on record is past.                                         *)
Past ==
  /\ \A d \in Dataset, k \in Key : reviews[d][k] < clock
  /\ \A p \in Proc : pending[p] # None => pending[p].at < clock
  /\ \A r \in toCarry : r.at < clock

(* A record that no two reviews merge in.                                  *)
Single(d, key) == d = "new" => ~Merged(key)

(* What a dataset holds was said of it, and of each single key it holds    *)
(* the last.                                                               *)
LatestHeld ==
  \A d \in Dataset :
    /\ \A k \in Key :
         reviews[d][k] # 0 => [key |-> k, at |-> reviews[d][k]] \in said[d]
    /\ \A r \in said[d] : Single(d, r.key) => r.at <= reviews[d][r.key]

(* A verdict timed and not recorded is newer than the record it replaces.  *)
PendingNewest ==
  \A p \in Proc :
    pending[p] # None =>
      /\ pending[p].dataset \in Settled
      /\ pending[p].key.reviewer = ReviewerOf[p]
      /\ reviews[pending[p].dataset][pending[p].key] <= pending[p].at

(* No record of a rebuild is ahead of all the records it was copied from,  *)
(* nor is a copy still to record ahead of its own; and of a single key     *)
(* there is one such copy, ahead of the rebuild.                           *)
CopiesBetween ==
  /\ toCarry \subseteq Copies(read)
  /\ \A k \in Key :
       Again # {} /\ reviews["new"][k] # 0 =>
         \E a \in Again :
           a[2] = k.link /\ reviews["new"][k] <= reviews["old"][About(a[1], k)]
  /\ \A r \in toCarry :
       \E a \in Again :
         a[2] = r.key.link /\ r.at <= reviews["old"][About(a[1], r.key)]
  /\ \A r \in toCarry : ~Merged(r.key) => reviews["new"][r.key] <= r.at
  /\ \A r, s \in toCarry : r.key = s.key /\ ~Merged(r.key) => r.at = s.at

(* No copy of what was read is lost, but to another of its key.            *)
NoneLost ==
  carrying =>
    \A r \in Copies(read) :
      \/ r \in toCarry
      \/ \E c \in Copies(read) : c.key = r.key /\ c.at <= reviews["new"][r.key]

ReviewInv == Past /\ LatestHeld /\ PendingNewest /\ CopiesBetween /\ NoneLost

(* Records that hold the last of each key report what all of them report.  *)
LEMMA LatestIsReported == ReviewTypeOK /\ LatestHeld => NewestStands
<1> SUFFICES ASSUME ReviewTypeOK, LatestHeld, NEW d \in Dataset, NEW link \in Link,
                    d = "new" => \A key \in Key : key.link = link => ~Merged(key)
             PROVE NewestNaming(link, Held(d)) = NewestNaming(link, said[d])
  BY DEF NewestStands
<1>1. Held(d) \subseteq said[d]
  BY DEF Held, LatestHeld
<1>s. \A key \in Key : key.link = link => Single(d, key)
  BY DEF Single
<1>2. ASSUME NEW r \in said[d], r.key.link = link
      PROVE \E h \in Held(d) : h.key = r.key /\ r.at <= h.at
  <2>1. r \in Records /\ r.at # 0 /\ r.at <= reviews[d][r.key]
    BY <1>2, <1>s DEF ReviewTypeOK, LatestHeld, Records
  <2>2. reviews[d][r.key] # 0 /\ r.key \in Key
    BY <2>1 DEF ReviewTypeOK, Records
  <2>3. [key |-> r.key, at |-> reviews[d][r.key]] \in Held(d)
    BY <2>2 DEF Held
  <2> QED
    BY <2>1, <2>3
<1>3. ASSUME NEW r \in NewestNaming(link, Held(d))
      PROVE r \in NewestNaming(link, said[d])
  <2>1. r \in said[d] /\ r.key.link = link
    BY <1>1, <1>3 DEF NewestNaming
  <2>2. ASSUME NEW other \in said[d], other.key.link = link
        PROVE other.at <= r.at
    <3>1. PICK h \in Held(d) : h.key = other.key /\ other.at <= h.at
      BY <1>2, <2>2
    <3>2. h.at <= r.at
      BY <1>3, <2>2, <3>1 DEF NewestNaming
    <3>3. other.at \in Nat /\ h.at \in Nat /\ r.at \in Nat
      BY <1>1, <2>1 DEF ReviewTypeOK, Records
    <3> QED
      BY <3>1, <3>2, <3>3
  <2> QED
    BY <2>1, <2>2 DEF NewestNaming
<1>4. ASSUME NEW r \in NewestNaming(link, said[d])
      PROVE r \in NewestNaming(link, Held(d))
  <2>1. r \in said[d] /\ r.key.link = link
    BY DEF NewestNaming
  <2>2. PICK h \in Held(d) : h.key = r.key /\ r.at <= h.at
    BY <1>2, <2>1
  <2>3. h.at <= r.at
    BY <1>1, <2>1, <2>2 DEF NewestNaming
  <2>4. h \in Records /\ r \in Records
    BY <1>1, <2>1 DEF ReviewTypeOK
  <2>5. h = r
    BY <2>2, <2>3, <2>4 DEF Records
  <2> QED
    BY <1>1, <2>1, <2>5 DEF NewestNaming
<1> QED
  BY <1>3, <1>4

(* What was said is never unsaid, so a key once merged stays so.           *)
LEMMA MergedStays ==
  ASSUME said["old"] \subseteq said'["old"], NEW key, Merged(key)
  PROVE Merged(key)'
  BY DEF Merged

(* A record no older than the one it replaces keeps the last of each key.  *)
LEMMA WriteKeepsLatest ==
  ASSUME ReviewTypeOK, LatestHeld, NEW d \in Dataset, NEW r \in Records, Write(d, r),
         Single(d, r.key) => reviews[d][r.key] <= r.at
  PROVE LatestHeld'
<1>1. /\ \A e \in Dataset, k \in Key : reviews[e][k] \in Nat
      /\ r.key \in Key /\ r.at \in Nat /\ r = [key |-> r.key, at |-> r.at]
  BY DEF ReviewTypeOK, Records
<1>2. \A e \in Dataset : said[e] \subseteq said'[e]
  BY WriteType
<1>3. ASSUME NEW e \in Dataset, NEW k \in Key, reviews'[e][k] # 0
      PROVE [key |-> k, at |-> reviews'[e][k]] \in said'[e]
  BY <1>1, <1>3, WriteType DEF LatestHeld
<1>4. ASSUME NEW e \in Dataset, NEW s \in said'[e], Single(e, s.key)'
      PROVE s.at <= reviews'[e][s.key]
  <2>s. Single(e, s.key)
    BY <1>2, <1>4, MergedStays DEF Single
  <2>1. CASE s \in said[e]
    <3>1. s.key \in Key /\ s.at \in Nat /\ s.at <= reviews[e][s.key]
      BY <2>1, <2>s DEF ReviewTypeOK, Records, LatestHeld
    <3>2. CASE e = d /\ s.key = r.key
      BY <1>1, <2>s, <3>1, <3>2, WriteType
    <3>3. CASE ~(e = d /\ s.key = r.key)
      BY <1>1, <3>1, <3>3, WriteType
    <3> QED
      BY <3>2, <3>3
  <2>2. CASE s = r /\ e = d
    BY <1>1, <2>2, WriteType
  <2> QED
    BY <1>4, <2>1, <2>2, WriteType
<1> QED
  BY <1>3, <1>4 DEF LatestHeld

LEMMA InitInv == ReviewInit => ReviewInv
<1> SUFFICES ASSUME ReviewInit PROVE ReviewInv
  OBVIOUS
<1>2. Past /\ LatestHeld /\ PendingNewest /\ NoneLost
  BY DEF ReviewInit, Past, LatestHeld, PendingNewest, NoneLost
<1>3. CopiesBetween
  BY DEF ReviewInit, CopiesBetween
<1> QED
  BY <1>2, <1>3 DEF ReviewInv

(* Each step keeps all of it.                                              *)
LEMMA StepInv ==
  ASSUME OneProcessEach, CarryApart, ReviewTypeOK, ReviewTypeOK', ReviewInv, [ReviewNext]_review_vars
  PROVE ReviewInv'
<1>t. \A d \in Dataset, k \in Key : reviews[d][k] \in Nat
  BY DEF ReviewTypeOK
<1>a. \A k \in Key, a \in Again : About(a[1], k) \in Key /\ About(a[2], k) \in Key
  BY AgainAssumption DEF About, Key
<1>1. ASSUME NEW p \in Proc, Decide(p) PROVE ReviewInv'
  <2>1. Past'
    BY <1>t, <1>1 DEF Decide, ReviewTypeOK, Pending, Records, ReviewInv, Past
  <2>2. PendingNewest'
    <3>1. PICK e \in Settled, link \in Link, verdict \in Verdict :
            pending' = [pending EXCEPT ![p] =
              [dataset |-> e,
               key |-> [link |-> link, verdict |-> verdict,
                        reviewer |-> ReviewerOf[p]],
               at |-> clock]]
      BY <1>1 DEF Decide
    <3> DEFINE key == [link |-> link, verdict |-> verdict,
                       reviewer |-> ReviewerOf[p]]
    <3>2. key \in Key /\ e \in Dataset
      BY ReviewerAssumption, SettledAssumption DEF Key
    <3>3. reviews[e][key] <= clock
      BY <1>t, <3>2 DEF ReviewInv, Past, ReviewTypeOK
    <3>4. /\ pending'[p].dataset = e /\ pending'[p].key = key
          /\ pending'[p].at = clock
          /\ \A q \in Proc : q # p => pending'[q] = pending[q]
      BY <3>1 DEF ReviewTypeOK
    <3>5. key.reviewer = ReviewerOf[p]
      OBVIOUS
    <3> HIDE DEF key
    <3> QED
      BY <1>1, <3>3, <3>4, <3>5 DEF Decide, ReviewInv, PendingNewest
  <2> QED
    BY <1>1, <2>1, <2>2
    DEF Decide, ReviewInv, LatestHeld, CopiesBetween, NoneLost, Single, Merged, Copies
<1>2. ASSUME NEW p \in Proc, RecordVerdict(p) PROVE ReviewInv'
  <2> DEFINE d == pending[p].dataset
             r == [key |-> pending[p].key, at |-> pending[p].at]
  <2>1. /\ d \in Dataset /\ r \in Records /\ Write(d, r)
        /\ d \in Settled /\ r.key.reviewer = ReviewerOf[p]
        /\ reviews[d][r.key] <= r.at
        /\ r.at < clock /\ r.key \in Key
    BY <1>2 DEF RecordVerdict, ReviewTypeOK, Pending, Records, ReviewInv, PendingNewest, Past
  <2> HIDE DEF d, r
  <2>2. LatestHeld'
    BY <2>1, WriteKeepsLatest DEF ReviewInv
  <2>3. /\ reviews'[d][r.key] = r.at
        /\ \A e \in Dataset, k \in Key :
             e # d \/ k # r.key => reviews'[e][k] = reviews[e][k]
        /\ \A e \in Dataset : said[e] \subseteq said'[e]
    BY <2>1, WriteType
  <2>a. \A e \in Dataset, k \in Key :
          /\ reviews[e][k] \in Nat /\ reviews'[e][k] \in Nat
          /\ reviews[e][k] <= reviews'[e][k]
    BY <1>t, <2>1, <2>3 DEF ReviewTypeOK
  <2>b. \A key : Merged(key) => Merged(key)'
    BY <2>3, MergedStays
  <2>c. toCarry' = toCarry /\ read' = read /\ carrying' = carrying
    BY <1>2 DEF RecordVerdict
  <2>4. Past'
    BY <1>2, <2>1, <2>3 DEF RecordVerdict, ReviewInv, Past, ReviewTypeOK
  <2>5. PendingNewest'
    BY <1>2, <2>1, <2>3
    DEF RecordVerdict, ReviewInv, PendingNewest, ReviewTypeOK, OneProcessEach, Pending
  <2>6. CopiesBetween'
    <3>1. CASE Again = {}
      <4>1. toCarry = {}
        BY <3>1 DEF ReviewInv, CopiesBetween
      <4> QED
        BY <2>c, <3>1, <4>1 DEF CopiesBetween
    <3>2. CASE Again # {}
      <4>1. \A k \in Key : reviews'["new"][k] = reviews["new"][k]
        BY <2>1, <2>3, <3>2 DEF CarryApart
      <4>2. \A s \in toCarry : s.key \in Key /\ s.at \in Nat
        BY DEF ReviewTypeOK, Records
      <4>3. ASSUME NEW k \in Key, reviews'["new"][k] # 0
            PROVE \E x \in Again : /\ x[2] = k.link
                                   /\ reviews'["new"][k] <= reviews'["old"][About(x[1], k)]
        <5>1. PICK x \in Again : /\ x[2] = k.link
                                 /\ reviews["new"][k] <= reviews["old"][About(x[1], k)]
          BY <3>2, <4>1, <4>3 DEF ReviewInv, CopiesBetween
        <5>2. About(x[1], k) \in Key
          BY <1>a
        <5> QED
          BY <2>a, <4>1, <5>1, <5>2
      <4>4. ASSUME NEW s \in toCarry
            PROVE \E x \in Again : /\ x[2] = s.key.link
                                   /\ s.at <= reviews'["old"][About(x[1], s.key)]
        <5>1. PICK x \in Again : /\ x[2] = s.key.link
                                 /\ s.at <= reviews["old"][About(x[1], s.key)]
          BY DEF ReviewInv, CopiesBetween
        <5>2. About(x[1], s.key) \in Key
          BY <1>a, <4>2
        <5> QED
          BY <2>a, <4>2, <5>1, <5>2
      <4>5. /\ toCarry \subseteq Copies(read)
            /\ \A s \in toCarry : ~Merged(s.key)' => reviews'["new"][s.key] <= s.at
            /\ \A s, t \in toCarry : s.key = t.key /\ ~Merged(s.key)' => s.at = t.at
        BY <2>b, <4>1, <4>2 DEF ReviewInv, CopiesBetween
      <4> QED
        BY <2>c, <4>3, <4>4, <4>5 DEF CopiesBetween
    <3> QED
      BY <3>1, <3>2
  <2>7. NoneLost'
    <3>1. ASSUME NEW s \in Copies(read) PROVE s.key \in Key /\ Again # {}
      BY CopiesType DEF ReviewTypeOK, Records, Copies
    <3>2. \A s \in Copies(read) : reviews'["new"][s.key] = reviews["new"][s.key]
      BY <2>1, <2>3, <3>1 DEF CarryApart
    <3> QED
      BY <2>c, <3>2 DEF ReviewInv, NoneLost
  <2> QED
    BY <2>2, <2>4, <2>5, <2>6, <2>7 DEF ReviewInv
<1>3. ASSUME NEW p \in Proc, Abandon(p) PROVE ReviewInv'
  <2>1. Past' /\ PendingNewest'
    BY <1>3 DEF Abandon, ReviewInv, Past, PendingNewest, ReviewTypeOK
  <2>2. LatestHeld' /\ CopiesBetween' /\ NoneLost'
    BY <1>3 DEF Abandon, ReviewInv, LatestHeld, CopiesBetween, NoneLost, Single,
                Merged, Copies
  <2> QED
    BY <2>1, <2>2 DEF ReviewInv
<1>4. CASE StartCarry
  <2> DEFINE copies == Copies(Held("old"))
  <2>c. /\ read' = Held("old") /\ toCarry' = copies
        /\ UNCHANGED <<reviews, said, clock, pending>>
    BY <1>4 DEF StartCarry
  <2>m. \A key : Merged(key)' <=> Merged(key)
    BY <2>c DEF Merged
  <2>1. \A r \in copies :
          \E a \in Again, h \in Held("old") :
            a[1] = h.key.link /\ r = [key |-> About(a[2], h.key), at |-> h.at]
    BY DEF Copies
  <2>2. \A h \in Held("old") :
          h.key \in Key /\ h.at = reviews["old"][h.key] /\ h.at \in Nat /\ h.at # 0
    BY <1>t DEF Held
  <2>3. ASSUME NEW r \in copies
        PROVE \E a \in Again :
                /\ a[2] = r.key.link /\ r.key \in Key
                /\ About(a[1], r.key) \in Key
                /\ r.at = reviews["old"][About(a[1], r.key)]
                /\ r.at # 0 /\ r.at < clock
    <3>1. PICK a \in Again, h \in Held("old") :
            a[1] = h.key.link /\ r = [key |-> About(a[2], h.key), at |-> h.at]
      BY <2>1, <2>3
    <3>2. r.key.link = a[2] /\ r.key \in Key /\ About(a[1], r.key) = h.key
      BY <1>a, <2>2, <3>1 DEF About, Key
    <3> QED
      BY <2>2, <3>1, <3>2 DEF ReviewInv, Past
  (* Two records of `old` that one single key copies are one record.       *)
  <2>4. ASSUME NEW k \in Key, ~Merged(k), NEW a \in Again, NEW b \in Again,
               a[2] = k.link, b[2] = k.link,
               reviews["old"][About(a[1], k)] # 0,
               reviews["old"][About(b[1], k)] # 0
        PROVE reviews["old"][About(a[1], k)] = reviews["old"][About(b[1], k)]
    <3> DEFINE r == [key |-> About(a[1], k), at |-> reviews["old"][About(a[1], k)]]
               s == [key |-> About(b[1], k), at |-> reviews["old"][About(b[1], k)]]
    <3>1. r \in said["old"] /\ s \in said["old"]
      BY <1>a, <2>4 DEF ReviewInv, LatestHeld
    <3>2. /\ r.key.link = a[1] /\ s.key.link = b[1]
          /\ About(k.link, r.key) = k /\ About(k.link, s.key) = k
      BY DEF About, Key
    <3>3. a = <<a[1], k.link>> /\ b = <<b[1], k.link>>
      BY <2>4, AgainAssumption
    <3> HIDE DEF r, s
    <3>4. a[1] = b[1]
      BY <2>4, <3>1, <3>2, <3>3 DEF Merged
    <3> QED
      BY <3>4
  <2> HIDE DEF copies
  <2>5. ASSUME NEW r \in copies, ~Merged(r.key)
        PROVE /\ reviews["new"][r.key] <= r.at
              /\ \A s \in copies : s.key = r.key => s.at = r.at
    <3>1. PICK a \in Again : /\ a[2] = r.key.link /\ r.key \in Key
                             /\ About(a[1], r.key) \in Key
                             /\ r.at = reviews["old"][About(a[1], r.key)]
                             /\ r.at # 0
      BY <2>3
    <3>2. ASSUME NEW s \in copies, s.key = r.key PROVE s.at = r.at
      <4>1. PICK b \in Again : /\ b[2] = s.key.link
                               /\ s.at = reviews["old"][About(b[1], s.key)]
                               /\ s.at # 0
        BY <2>3
      <4> QED
        BY <2>4, <2>5, <3>1, <3>2, <4>1
    <3>3. ASSUME reviews["new"][r.key] = 0 PROVE reviews["new"][r.key] <= r.at
      BY <1>t, <3>1, <3>3
    <3>4. ASSUME reviews["new"][r.key] # 0 PROVE reviews["new"][r.key] <= r.at
      <4>1. PICK b \in Again :
              /\ b[2] = r.key.link
              /\ reviews["new"][r.key] <= reviews["old"][About(b[1], r.key)]
        BY <3>1, <3>4 DEF ReviewInv, CopiesBetween
      <4>2. reviews["old"][About(b[1], r.key)] # 0
        BY <1>a, <1>t, <3>1, <3>4, <4>1
      <4> QED
        BY <2>4, <2>5, <3>1, <4>1, <4>2
    <3> QED
      BY <3>2, <3>3, <3>4
  <2>6. CopiesBetween'
    <3>1. copies \subseteq Copies(read')
      BY <2>c DEF copies
    <3>2. \A r \in copies : \E a \in Again :
            a[2] = r.key.link /\ r.at <= reviews["old"][About(a[1], r.key)]
      BY <1>t, <2>3
    <3> QED
      BY <2>c, <2>m, <2>5, <3>1, <3>2 DEF ReviewInv, CopiesBetween
  <2>7. Past' /\ NoneLost'
    <3>1. \A r \in copies : r.at < clock
      BY <2>3
    <3>2. Copies(read)' = copies
      BY <2>c DEF copies, Copies
    <3> QED
      BY <2>c, <3>1, <3>2 DEF ReviewInv, Past, NoneLost
  <2>8. LatestHeld'
    BY <2>c, <2>m DEF ReviewInv, LatestHeld, Single
  <2> QED
    BY <2>c, <2>6, <2>7, <2>8 DEF ReviewInv, PendingNewest
<1>5. CASE CarryOne
  <2>1. PICK r \in toCarry : Write("new", r) /\ toCarry' = toCarry \ {r}
    BY <1>5 DEF CarryOne
  <2>c. UNCHANGED <<clock, pending, carrying, read>>
    BY <1>5 DEF CarryOne
  <2>2. /\ r \in Records /\ r.key \in Key /\ r.at \in Nat /\ r.at < clock
        /\ ~Merged(r.key) => reviews["new"][r.key] <= r.at
        /\ r \in Copies(read)
    BY DEF ReviewTypeOK, Records, ReviewInv, Past, CopiesBetween
  <2>n. "new" \notin Settled
    BY <2>2 DEF Copies, CarryApart
  <2>3. LatestHeld'
    BY <2>1, <2>2, WriteKeepsLatest DEF ReviewInv, Single
  <2>4. /\ reviews'["new"][r.key] = r.at
        /\ \A e \in Dataset, k \in Key :
             e # "new" \/ k # r.key => reviews'[e][k] = reviews[e][k]
        /\ said'["old"] = said["old"]
    BY <2>1, <2>2, WriteType
  <2>m. \A key : Merged(key)' <=> Merged(key)
    BY <2>4 DEF Merged
  <2>5. Past'
    BY <1>5, <2>1, <2>2, <2>4 DEF CarryOne, ReviewInv, Past, ReviewTypeOK
  <2>6. PendingNewest'
    BY <1>5, <2>n, <2>4, SettledAssumption
    DEF CarryOne, ReviewInv, PendingNewest, ReviewTypeOK, Pending
  <2>7. CopiesBetween'
    <3>1. \A k \in Key, a \in Again :
            reviews'["old"][About(a[1], k)] = reviews["old"][About(a[1], k)]
      BY <1>a, <2>4
    <3>2. ASSUME NEW k \in Key, reviews'["new"][k] # 0
          PROVE \E a \in Again : /\ a[2] = k.link
                                 /\ reviews'["new"][k] <= reviews'["old"][About(a[1], k)]
      <4>1. CASE k = r.key
        <5>1. PICK a \in Again : /\ a[2] = r.key.link
                                 /\ r.at <= reviews["old"][About(a[1], r.key)]
          BY DEF ReviewInv, CopiesBetween
        <5> QED
          BY <2>4, <3>1, <4>1, <5>1
      <4>2. CASE k # r.key
        <5>1. reviews'["new"][k] = reviews["new"][k]
          BY <2>4, <4>2
        <5>2. Again # {}
          BY <2>2 DEF Copies
        <5>3. PICK a \in Again : /\ a[2] = k.link
                                 /\ reviews["new"][k] <= reviews["old"][About(a[1], k)]
          BY <3>2, <5>1, <5>2 DEF ReviewInv, CopiesBetween
        <5> QED
          BY <3>1, <5>1, <5>3
      <4> QED
        BY <4>1, <4>2
    <3>3. \A s \in toCarry : s.key \in Key /\ s.at \in Nat
      BY DEF ReviewTypeOK, Records
    <3>4. ASSUME NEW s \in toCarry', ~Merged(s.key)'
          PROVE reviews'["new"][s.key] <= s.at
      <4>1. s \in toCarry /\ ~Merged(s.key)
        BY <2>1, <2>m, <3>4
      <4>2. CASE s.key = r.key
        <5>1. s.at = r.at
          BY <4>1, <4>2 DEF ReviewInv, CopiesBetween
        <5> QED
          BY <2>2, <2>4, <4>2, <5>1
      <4>3. CASE s.key # r.key
        BY <2>4, <3>3, <4>1, <4>3 DEF ReviewInv, CopiesBetween
      <4> QED
        BY <4>2, <4>3
    <3>5. \A s \in toCarry' : \E a \in Again :
            a[2] = s.key.link /\ s.at <= reviews'["old"][About(a[1], s.key)]
      BY <2>1, <3>1, <3>3 DEF ReviewInv, CopiesBetween
    <3>6. toCarry' \subseteq Copies(read)'
      BY <2>1, <2>c DEF ReviewInv, CopiesBetween, Copies
    <3>7. \A s, t \in toCarry' : s.key = t.key /\ ~Merged(s.key)' => s.at = t.at
      BY <2>1, <2>m DEF ReviewInv, CopiesBetween
    <3> QED
      BY <3>2, <3>4, <3>5, <3>6, <3>7 DEF CopiesBetween
  <2>8. NoneLost'
    <3>1. \A s \in Copies(read) : s.key \in Key /\ s.at \in Nat
      BY CopiesType DEF ReviewTypeOK, Records
    <3>2. Copies(read)' = Copies(read)
      BY <2>c DEF Copies
    <3>3. ASSUME carrying, NEW s \in Copies(read)
          PROVE \/ s \in toCarry'
                \/ \E c \in Copies(read) :
                     c.key = s.key /\ c.at <= reviews'["new"][s.key]
      <4>1. CASE s.key = r.key
        BY <2>2, <2>4, <4>1
      <4>2. CASE s.key # r.key
        <5>1. reviews'["new"][s.key] = reviews["new"][s.key]
          BY <2>4, <3>1, <4>2
        <5> QED
          BY <2>1, <3>3, <4>2, <5>1 DEF ReviewInv, NoneLost
      <4> QED
        BY <4>1, <4>2
    <3> QED
      BY <2>c, <3>2, <3>3 DEF NoneLost
  <2> QED
    BY <2>3, <2>5, <2>6, <2>7, <2>8 DEF ReviewInv
<1>6. CASE EndCarry
  BY <1>6 DEF EndCarry, ReviewInv, Past, LatestHeld, PendingNewest, CopiesBetween,
              NoneLost, Single, Merged
<1>7. CASE UNCHANGED review_vars
  BY <1>7 DEF ReviewInv, Past, LatestHeld, PendingNewest, CopiesBetween, NoneLost,
              Single, Merged, Copies
<1> QED
  BY <1>1, <1>2, <1>3, <1>4, <1>5, <1>6, <1>7 DEF ReviewNext

LEMMA Inductive == OneProcessEach /\ CarryApart => (ReviewSpec => []ReviewInv)
<1> SUFFICES ASSUME OneProcessEach, CarryApart PROVE ReviewSpec => []ReviewInv
  OBVIOUS
<1>1. ReviewTypeOK /\ ReviewTypeOK' /\ ReviewInv /\ [ReviewNext]_review_vars => ReviewInv'
  BY StepInv
<1> QED
  BY <1>1, InitInv, ReviewTypeCorrect, PTL DEF ReviewSpec

(* While each reviewer settles from one process, and the carry writes only *)
(* where nobody has reviewed, the verdict a reader reports of a link is    *)
(* the newest ever given or carried, whichever links split or became one,  *)
(* unless one reviewer said the same of two links that became this one.    *)
THEOREM NewestAlwaysStands ==
  OneProcessEach /\ CarryApart => (ReviewSpec => []NewestStands)
<1> SUFFICES ASSUME OneProcessEach, CarryApart PROVE ReviewSpec => []NewestStands
  OBVIOUS
<1>1. ReviewTypeOK /\ ReviewInv => NewestStands
  BY LatestIsReported DEF ReviewInv
<1> QED
  BY <1>1, Inductive, ReviewTypeCorrect, PTL

(* Under the same two conditions a carry that comes to its end has carried *)
(* every review it read, however often it was killed part way before.      *)
THEOREM AllIsCarried ==
  OneProcessEach /\ CarryApart => (ReviewSpec => []CarriedAll)
<1> SUFFICES ASSUME OneProcessEach, CarryApart PROVE ReviewSpec => []CarriedAll
  OBVIOUS
<1>1. ReviewTypeOK /\ ReviewInv => CarriedAll
  <2>1. ASSUME ReviewTypeOK, NEW c \in Copies(read), NEW k \in Key
        PROVE c.at \in Nat /\ c.key \in Key /\ reviews["new"][k] \in Nat
    BY <2>1, CopiesType DEF ReviewTypeOK, Records
  <2> QED
    BY <2>1 DEF ReviewInv, NoneLost, CarriedAll
<1> QED
  BY <1>1, Inductive, ReviewTypeCorrect, PTL
=============================================================================
