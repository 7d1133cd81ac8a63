------------------------------ MODULE TreeDiff ------------------------------
(***************************************************************************)
(* How two printings of one work are compared (diff), how the renumberings *)
(* of successive windows are joined (Redesignations::then), and how a      *)
(* reader follows one provision through them (link::history_from_links,    *)
(* inspect).                                                               *)
(*                                                                         *)
(* A path is the sequence of the segments below the work's own; a child's  *)
(* path is its parent's and one segment more. A printing is a function     *)
(* from provisions, numbered in document order, to what it holds of them.  *)
(* Nothing here compares the numbers of two printings: who a provision is  *)
(* the code cannot see. Renumberings of a window are a function from old   *)
(* paths to new paths.                                                     *)
(***************************************************************************)
EXTENDS Naturals, Sequences, FiniteSets, Functions, SequencesExt

Root == 1

Head1(path, n) == SubSeq(path, 1, n)

Below(path, n) == SubSeq(path, n + 1, Len(path))

(* Mutant: what is below the container keeps its whole path.               *)
CarriedWhole(path, renamed) ==
  LET heads == {n \in 1..Len(path) : Head1(path, n) \in DOMAIN renamed}
  IN IF heads = {} THEN path
     ELSE renamed[Head1(path, CHOOSE n \in heads : TRUE)] \o path

(* carry: the path, renamed by the nearest container at or above it that   *)
(* was renamed; the path itself when none was.                             *)
Carried(path, renamed) ==
  LET heads == {n \in 1..Len(path) : Head1(path, n) \in DOMAIN renamed}
      nearest == CHOOSE n \in heads : \A m \in heads : m <= n
  IN IF heads = {} THEN path
     ELSE renamed[Head1(path, nearest)] \o Below(path, nearest)

(* Mutant: a later move is named by its path on the middle date.           *)
ThenUnnamed(earlier, later) ==
  {[old \in DOMAIN earlier \cup DOMAIN later |->
      IF old \in DOMAIN earlier THEN Carried(earlier[old], later)
      ELSE later[old]]}

(* Redesignations::then. Each earlier move goes on to where the later ones *)
(* carry it; each later move is named by the path its provision had on the *)
(* first date, and an earlier move of that path wins. Two later moves may  *)
(* get one name: then the order of a hash map decides which stays.         *)
Then(earlier, later) ==
  LET back == [new \in Range(earlier) |->
                 CHOOSE old \in DOMAIN earlier : earlier[old] = new]
      named == {Carried(middle, back) : middle \in DOMAIN later}
               \ DOMAIN earlier
      moving(old) == {later[middle] : middle \in
                        {m \in DOMAIN later : Carried(m, back) = old}}
      over(choice) == [old \in DOMAIN earlier \cup named |->
                         IF old \in named THEN choice[old]
                         ELSE Carried(earlier[old], later)]
      moved(f) == Restrict(f, {old \in DOMAIN f : f[old] # old})
  IN {moved(over(choice)) : choice \in
        {c \in [named -> Range(later)] :
           \A old \in named : c[old] \in moving(old)}}

(* is_one_provision: the paths are alike, or one move explains how they    *)
(* differ, at the provision or at a container above it.                    *)
IsOneProvision(old, new, known) ==
  \E n \in 0..Len(old), m \in 0..Len(new) :
    /\ Below(old, n) = Below(new, m)
    /\ \/ Head1(old, n) = Head1(new, m)
       \/ Head1(old, n) \in DOMAIN known /\ known[Head1(old, n)] = Head1(new, m)

-----------------------------------------------------------------------------
(* The pairing of two printings.                                           *)

Children(doc, p) == {i \in DOMAIN doc : doc[i].above = p}

Number(doc, i) == Last(doc[i].path)

(* Which of a set of children one is, in document order.                   *)
Place(S, i) == Cardinality({j \in S : j <= i})

(* plan_moves: the nth old child a known move takes to a path becomes the  *)
(* nth new child there, among the children of two paired parents.          *)
Renumbered(old, new, known, p, q) ==
  LET to(path) == {a \in Children(old, p) : /\ old[a].path \in DOMAIN known
                                            /\ known[old[a].path] = path}
      at(path) == {b \in Children(new, q) : new[b].path = path}
  IN {m \in Children(old, p) \X Children(new, q) :
        LET path == new[m[2]].path IN
        m[1] \in to(path) /\ Place(to(path), m[1]) = Place(at(path), m[2])}

(* Mutant: a number names the first child that has it.                     *)
FirstByNumber(doc, left, i) == {i}

(* The rest pair by number within the parent, the nth with the nth.        *)
ByNumber(doc, left, i) == {j \in left : Number(doc, j) = Number(doc, i)}

Paired(old, new, known, p, q) ==
  LET moved == Renumbered(old, new, known, p, q)
      oldLeft == Children(old, p) \ {m[1] : m \in moved}
      newLeft == Children(new, q) \ {m[2] : m \in moved}
  IN moved \cup
     {m \in oldLeft \X newLeft :
        /\ Number(old, m[1]) = Number(new, m[2])
        /\ Place(ByNumber(old, oldLeft, m[1]), m[1])
             = Place(ByNumber(new, newLeft, m[2]), m[2])}

MateIn(pairs, a) ==
  LET found == {m[2] : m \in {m \in pairs : m[1] = a}}
  IN IF found = {} THEN 0 ELSE CHOOSE b \in found : TRUE

(* from_nodes_with: what each old provision became, 0 for removed, itself  *)
(* or with what is above it.                                               *)
Mates(old, new, known) ==
  LET mate[a \in DOMAIN old] ==
        IF a = Root THEN Root
        ELSE IF mate[old[a].above] = 0 THEN 0
        ELSE MateIn(Paired(old, new, known, old[a].above, mate[old[a].above]), a)
  IN mate

(* What a diff lists: the provisions removed and added whose parents are   *)
(* paired, and the paired ones whose words differ.                         *)
Removed(old, mate) ==
  {a \in DOMAIN old \ {Root} : mate[a] = 0 /\ mate[old[a].above] # 0}

Added(new, mate) ==
  {b \in DOMAIN new \ {Root} : b \notin Range(mate) /\ new[b].above \in Range(mate)}

Changed(old, new, mate) ==
  {a \in DOMAIN old : mate[a] # 0 /\ old[a].words # new[mate[a]].words}

-----------------------------------------------------------------------------
(* One provision, through the links. A step is a move in one window:       *)
(* [from, to, window], the window <<first date, second date>>.             *)

FirstWhere(steps, Test(_)) ==
  LET found == {n \in DOMAIN steps : Test(steps[n])}
  IN IF found = {} THEN <<>>
     ELSE <<steps[CHOOSE n \in found : \A m \in found : n <= m]>>

(* Mutant: the walk forwards knows only the paths of its own side.         *)
HistoryBack(path, steps) ==
  LET next == FirstWhere(steps, LAMBDA s : s.to = path)
  IN next \o FirstWhere(steps, LAMBDA s : s.from = path)

(* history_from_links: back from the path to its earliest name, then on to *)
(* its latest; the first step of the list that fits, whatever its dates; a *)
(* path seen before stops the walk.                                        *)
History(path, steps) ==
  LET back[h \in Seq(Range(steps))] ==
        LET at == IF h = <<>> THEN path ELSE h[1].from
            seen == {path} \cup {h[n].from : n \in DOMAIN h}
            next == FirstWhere(steps, LAMBDA s : s.to = at)
        IN IF next = <<>> \/ next[1].from \in seen THEN h ELSE back[next \o h]
      past == back[<<>>]
      forth[h \in Seq(Range(steps))] ==
        LET at == IF h = past THEN path ELSE Last(h).to
            seen == {path} \cup {past[n].from : n \in DOMAIN past}
                    \cup {h[n].to : n \in Len(past) + 1..Len(h)}
            next == FirstWhere(steps, LAMBDA s : s.from = at)
        IN IF next = <<>> \/ next[1].to \in seen THEN h ELSE forth[h \o next]
  IN forth[past]

(* Mutant: a hop may start before the hop it follows has ended.            *)
OnwardsUndated(path, window, history) ==
  LET walk[n \in 0..Len(history)] ==
        IF n = 0 THEN path
        ELSE LET step == FirstWhere(history, LAMBDA s : s.from = walk[n - 1])
             IN IF step = <<>> THEN walk[n - 1] ELSE step[1].to
  IN walk[Len(history)]

(* inspect::follow, forwards: hops of the history, each from where and not *)
(* before when the one before it ended, inside the window.                 *)
Onwards(path, window, history) ==
  LET walk[n \in 0..Len(history)] ==
        IF n = 0 THEN [path |-> path, date |-> window[1]]
        ELSE LET step == FirstWhere(history, LAMBDA s :
                   /\ s.from = walk[n - 1].path
                   /\ s.window[1] >= walk[n - 1].date
                   /\ s.window[2] <= window[2])
             IN IF step = <<>> THEN walk[n - 1]
                ELSE [path |-> step[1].to, date |-> step[1].window[2]]
  IN walk[Len(history)].path

(* and backwards.                                                          *)
Backwards(path, window, history) ==
  LET walk[n \in 0..Len(history)] ==
        IF n = 0 THEN [path |-> path, date |-> window[2]]
        ELSE LET step == FirstWhere(history, LAMBDA s :
                   /\ s.to = walk[n - 1].path
                   /\ s.window[2] <= walk[n - 1].date
                   /\ s.window[1] >= window[1])
             IN IF step = <<>> THEN walk[n - 1]
                ELSE [path |-> step[1].from, date |-> step[1].window[1]]
  IN walk[Len(history)].path

(* moves_for: the nearest container that moved answers for what is below   *)
(* it. The path itself means that nothing moved.                           *)
MovedBy(path, steps, Walk(_, _)) ==
  LET ends(n) == Walk(Head1(path, n), History(Head1(path, n), steps))
      moved == {n \in 1..Len(path) : ends(n) # Head1(path, n)}
      nearest == CHOOSE n \in moved : \A m \in moved : m <= n
  IN IF moved = {} THEN path ELSE ends(nearest) \o Below(path, nearest)

Out(path, window, steps) ==
  MovedBy(path, steps, LAMBDA p, h : Onwards(p, window, h))

Into(path, window, steps) ==
  MovedBy(path, steps, LAMBDA p, h : Backwards(p, window, h))

At(doc, path) == {i \in DOMAIN doc : doc[i].path = path}

Nth(S, n) == {i \in S : Place(S, i) = n}

(* pair_across_moves: a provision that was here answers to the one where   *)
(* the path went, one that is here to where the path came from; 0 for      *)
(* nothing.                                                                *)
AcrossMoves(old, new, path, out, into) ==
  LET one(S) == IF S = {} THEN 0 ELSE CHOOSE i \in S : TRUE
      went(a) == IF out = path THEN {}
                 ELSE Nth(At(new, out), Place(At(old, path), a))
      came(b) == IF into = path THEN {}
                 ELSE Nth(At(old, into), Place(At(new, path), b))
  IN {<<a, one(went(a))>> : a \in At(old, path)}
     \cup {<<one(came(b)), b>> : b \in At(new, path)}

(* pair_provisions with no move: parents pair by place, children under     *)
(* them by place.                                                          *)
InPlace(old, new, path) ==
  LET kin(doc, i) == {j \in At(doc, path) : doc[j].above = i}
      parents(doc) == At(doc, Front(path))
      pairs == {m \in At(old, path) \X At(new, path) :
                  /\ Place(parents(old), old[m[1]].above)
                       = Place(parents(new), new[m[2]].above)
                  /\ Place(kin(old, old[m[1]].above), m[1])
                       = Place(kin(new, new[m[2]].above), m[2])}
  IN pairs \cup {<<a, 0>> : a \in At(old, path) \ {m[1] : m \in pairs}}
           \cup {<<0, b>> : b \in At(new, path) \ {m[2] : m \in pairs}}

(* The report of the command `path`: what became of what was there, and    *)
(* where what is there came from.                                          *)
AtPath(old, new, path, window, steps) ==
  LET out == Out(path, window, steps)
      into == Into(path, window, steps)
  IN IF out = path /\ into = path THEN InPlace(old, new, path)
     ELSE AcrossMoves(old, new, path, out, into)
=============================================================================
