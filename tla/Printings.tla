----------------------------- MODULE Printings -----------------------------
(***************************************************************************)
(* The printings of one work, as the amendments of each window make them,  *)
(* and the renumbering links a dataset records of each window. A printing  *)
(* is drafted by amendments: a provision is struck with what is below it,  *)
(* inserted, reworded or renumbered. The draft is then published, and the  *)
(* links of the window name each provision whose own number it changed, at *)
(* its path on either date.                                                *)
(*                                                                         *)
(* The numbers of the provisions are the truth the comparisons are judged  *)
(* by: one number is one provision in every printing.                      *)
(***************************************************************************)
EXTENDS TreeDiff

CONSTANTS
  Segment,    \* segments of a path
  Depth,      \* how many segments a path has at most
  First,      \* what the first printing may be
  Windows,    \* how many windows are published at most
  Edits,      \* how many amendments a window has at most
  Provisions  \* how many provisions there ever are at most

ASSUME BoundAssumption == /\ Windows \in Nat /\ Edits \in Nat
                          /\ Depth \in Nat /\ Provisions \in Nat

VARIABLES
  printings,  \* the printings published, by date
  draft,      \* the printing the amendments of the window make
  edits,      \* how many amendments made it
  used,       \* the numbers of provisions there ever were
  links       \* the renumberings recorded: a sequence of steps

vars == <<printings, draft, edits, used, links>>

Last1 == Len(printings)

Path == UNION {[1..n -> Segment] : n \in 0..Depth}

Provision == [path : Path, above : Nat, words : 0..1]

(* Nothing is above the work, and what is above a provision comes first and *)
(* has its path but for the last segment.                                  *)
Printing(doc) ==
  /\ Root \in DOMAIN doc /\ doc[Root].path = <<>> /\ doc[Root].above = 0
  /\ \A i \in DOMAIN doc :
       /\ i \in Nat \ {0} /\ doc[i] \in Provision
       /\ i # Root => /\ doc[i].path # <<>>
                      /\ doc[i].above \in DOMAIN doc /\ doc[i].above < i
                      /\ doc[doc[i].above].path = Front(doc[i].path)

ASSUME FirstAssumption == \A doc \in First : doc \in Seq(Provision) /\ Printing(doc)

Step == [from : Path, to : Path, window : (1..Windows) \X (2..Windows + 1)]

Init ==
  /\ \E doc \in First : printings = <<doc>> /\ draft = doc /\ used = DOMAIN doc
  /\ edits = 0
  /\ links = <<>>

Under(doc, i) ==
  LET under[j \in DOMAIN doc] == j = i \/ (j > i /\ under[doc[j].above])
  IN {j \in DOMAIN doc : under[j]}

Free(path) == At(draft, path) = {}

Amend(doc) ==
  /\ Last1 <= Windows /\ edits < Edits
  /\ draft' = doc
  /\ edits' = edits + 1
  /\ UNCHANGED <<printings, links>>

Reword(i) ==
  /\ Amend([draft EXCEPT ![i].words = 1 - @])
  /\ UNCHANGED used

Strike(i) ==
  /\ i # Root
  /\ Amend(Restrict(draft, DOMAIN draft \ Under(draft, i)))
  /\ UNCHANGED used

Insert(p, s) ==
  LET i == 1 + Cardinality(used)
      path == Append(draft[p].path, s)
  IN /\ i <= Provisions /\ Len(path) <= Depth /\ Free(path)
     /\ Amend([j \in DOMAIN draft \cup {i} |->
                 IF j \in DOMAIN draft THEN draft[j]
                 ELSE [path |-> path, above |-> p, words |-> 0]])
     /\ used' = used \cup {i}

Renumber(i, s) ==
  LET n == Len(draft[i].path)
      path == Append(Front(draft[i].path), s)
  IN /\ i # Root /\ Free(path)
     /\ Amend([j \in DOMAIN draft |->
                 IF j \in Under(draft, i)
                 THEN [draft[j] EXCEPT !.path = path \o Below(@, n)]
                 ELSE draft[j]])
     /\ UNCHANGED used

(* The moves a window's links name: provisions both printings hold, whose  *)
(* own number differs.                                                     *)
Moved(old, new) ==
  {i \in (DOMAIN old \cap DOMAIN new) \ {Root} :
     Last(old[i].path) # Last(new[i].path)}

Publish ==
  LET old == printings[Last1]
      steps == {[from |-> old[i].path, to |-> draft[i].path,
                 window |-> <<Last1, Last1 + 1>>] : i \in Moved(old, draft)}
  IN /\ Last1 <= Windows
     /\ printings' = Append(printings, draft)
     /\ links' = links \o SetToSeq(steps)
     /\ edits' = 0
     /\ UNCHANGED <<draft, used>>

Next ==
  \/ \E i \in DOMAIN draft : Reword(i) \/ Strike(i)
  \/ \E i \in DOMAIN draft, s \in Segment : Insert(i, s) \/ Renumber(i, s)
  \/ Publish

Spec == Init /\ [][Next]_vars

-----------------------------------------------------------------------------
(* The renumberings of a window, and over a span of windows, as            *)
(* Dataset::redesignations_over joins them.                                *)
Moves(w) ==
  LET steps == {s \in Range(links) : s.window[1] = w}
  IN [path \in {s.from : s \in steps} |->
        (CHOOSE s \in steps : s.from = path).to]

Over(m, n) ==
  LET over[k \in m + 1..n] ==
        IF k = m + 1 THEN {Moves(m)}
        ELSE UNION {Then(known, Moves(k - 1)) : known \in over[k - 1]}
  IN over[n]

Fresh == edits = 0

Spans == {s \in (1..Last1) \X (1..Last1) : s[1] < s[2] /\ s[2] = Last1}

(* The state, and that the renumberings joined over windows are again of   *)
(* paths.                                                                  *)
TypeOK ==
  /\ \A n \in DOMAIN printings : Printing(printings[n])
  /\ Printing(draft)
  /\ edits \in 0..Edits
  /\ DOMAIN draft \subseteq used
  /\ Range(links) \subseteq Step
  /\ Fresh => \A s \in Spans : \A known \in Over(s[1], s[2]) :
       DOMAIN known \subseteq Path /\ Range(known) \subseteq Path

OneAPath(doc) == \A i, j \in DOMAIN doc : doc[i].path = doc[j].path => i = j

(* What a comparison of two printings may say: a provision both hold is    *)
(* the one it is compared with, and one the other does not hold is removed *)
(* or stands for one that took its number.                                 *)
IsTrue(old, new, mate) ==
  \A a \in DOMAIN old :
    IF a \in DOMAIN new THEN mate[a] = a
    ELSE mate[a] # 0 => mate[a] \notin DOMAIN old

(* What from_nodes_with asserts of every pair it compares.                 *)
Asserts(old, new, known, mate) ==
  \A a \in DOMAIN old : mate[a] # 0 =>
    IsOneProvision(old[a].path, new[mate[a]].path, known)

(* Every provision renumbered in the span is there at its end.             *)
MovedStay(s) ==
  \A n \in s[1]..s[2] - 1 :
    Moved(printings[n], printings[n + 1]) \subseteq DOMAIN printings[s[2]]

(* A later move goes by the path its provision had at first: none finds    *)
(* the move of another there, which stays in its place.                    *)
NamesApart(s) ==
  \A n \in s[1] + 1..s[2] - 1 : \A known \in Over(s[1], n) :
    \A i \in Moved(printings[n], printings[n + 1]) \cap DOMAIN printings[s[1]] :
      LET name == printings[s[1]][i].path IN
      name \in DOMAIN known => known[name] = printings[n][i].path

(* A diff over one window or several compares each provision with itself,  *)
(* though it or what holds it was renumbered in each of them, and its old  *)
(* number given to another: where each path names one provision at first,  *)
(* no two moves take one name and nothing renumbered is struck before the  *)
(* end. It never compares what it would refuse to.                         *)
PairsProvisions ==
  Fresh => \A s \in Spans :
    LET old == printings[s[1]]  new == printings[s[2]] IN
    (/\ OneAPath(old) /\ MovedStay(s) /\ NamesApart(s)
     /\ \E known \in Over(s[1], s[2]) : Over(s[1], s[2]) = {known})
    => \A known \in Over(s[1], s[2]) :
        LET mate == Mates(old, new, known) IN
        IsTrue(old, new, mate) /\ Asserts(old, new, known, mate)

(* A diff read backwards is the diff of the printings the other way round: *)
(* so nothing is claimed by two provisions, and what one way is added is   *)
(* removed the other, also where several provisions have one number.       *)
ReadsBackwards ==
  Fresh /\ Last1 > 1 =>
    LET old == printings[Last1 - 1]
        new == printings[Last1]
        known == Moves(Last1 - 1)
        back == [path \in Range(known) |->
                   CHOOSE from \in DOMAIN known : known[from] = path]
        mate == Mates(old, new, known)
        etam == Mates(new, old, back)
    IN /\ \A a \in DOMAIN old : mate[a] # 0 => etam[mate[a]] = a
       /\ \A b \in DOMAIN new : etam[b] # 0 => mate[etam[b]] = b
       /\ Added(new, mate) = Removed(new, etam)
       /\ Changed(new, old, etam) = {mate[a] : a \in Changed(old, new, mate)}

(* Each path was named by one provision, in all printings.                 *)
NoPathReused ==
  \A m, n \in DOMAIN printings :
    \A i \in DOMAIN printings[m], j \in DOMAIN printings[n] :
      printings[m][i].path = printings[n][j].path => i = j

(* The steps a provision took.                                             *)
StepsOf(i) ==
  {s \in Range(links) : /\ i \in DOMAIN printings[s.window[1]]
                        /\ printings[s.window[1]][i].path = s.from}

(* What holds a provision never moved, and it never has a number again     *)
(* that it had before.                                                     *)
MovesPlainly(i) ==
  LET had == {n \in DOMAIN printings : i \in DOMAIN printings[n]} IN
  \A m, n \in had :
    LET p == printings[m][i].path  q == printings[n][i].path IN
    /\ Front(p) = Front(q)
    /\ p = q => \A k \in had : (m < k /\ k < n) => printings[k][i].path = p

(* The history of the path a provision has is the provision's own, every   *)
(* step of it, oldest first, while no number was given to another.         *)
HistoryIsOwn ==
  Fresh /\ NoPathReused =>
    \A i \in DOMAIN printings[Last1] \ {Root} : MovesPlainly(i) =>
      LET history == History(printings[Last1][i].path, links) IN
      /\ Range(history) = StepsOf(i)
      /\ \A m, n \in DOMAIN history :
           m < n => history[m].window[2] <= history[n].window[1]

(* What `path` says of every path of two printings is what a diff of them  *)
(* says.                                                                   *)
Agree(s) ==
  LET old == printings[s[1]]  new == printings[s[2]] IN
  \A known \in Over(s[1], s[2]) :
    LET mate == Mates(old, new, known)
        diff == {<<a, mate[a]>> : a \in DOMAIN old}
                \cup {<<0, b>> : b \in DOMAIN new \ Range(mate)}
        paths == {old[a].path : a \in DOMAIN old \ {Root}}
                 \cup {new[b].path : b \in DOMAIN new \ {Root}}
    IN \A path \in paths :
         AtPath(old, new, path, s, links) =
           {p \in diff : \/ p[1] # 0 /\ old[p[1]].path = path
                         \/ p[2] # 0 /\ new[p[2]].path = path}

(* One move explains each number: no path is moved from or to twice, no    *)
(* move is inside another's container, and no numbers go round in a ring.  *)
MovesApart ==
  /\ \A m, n \in DOMAIN links : m # n =>
       LET p == links[m]  q == links[n] IN
       /\ p.from # q.from /\ p.to # q.to
       /\ ~IsStrictPrefix(p.from, q.from) /\ ~IsStrictPrefix(p.to, q.to)
  /\ \A ring \in SUBSET DOMAIN links : ring # {} =>
       {links[n].from : n \in ring} # {links[n].to : n \in ring}

(* The commands `path` and `diff` agree on every provision of one window,  *)
(* also where a run of provisions gave their numbers on.                   *)
PathAgreesWithDiff ==
  /\ Fresh /\ Last1 = 2 /\ MovesApart
  /\ OneAPath(printings[1]) /\ OneAPath(printings[2])
  => Agree(<<1, 2>>)
=============================================================================
