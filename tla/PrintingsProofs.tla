-------------------------- MODULE PrintingsProofs --------------------------
(***************************************************************************)
(* What a diff says is true, and reads the same both ways, and the history *)
(* of a path is a provision's own, for every printing there may be at      *)
(* first, whatever amendments are made of it and however many windows are  *)
(* published.                                                              *)
(*                                                                         *)
(* Read backwards: of any two printings it is so wherever the renumberings *)
(* can be read backwards, since what is paired one way is paired the       *)
(* other, first by the moves and then by number, level by level. That      *)
(* those of a window can be read backwards needs its history: an amendment *)
(* gives a provision only a path nothing has, so two that share one in a   *)
(* printing shared one in the printing before, and no two links of a       *)
(* window go to one path.                                                  *)
(*                                                                         *)
(* True: the renumberings joined over a span Tell where each provision     *)
(* went that both its ends hold, and never lead to another beside it, nor  *)
(* to what is struck later. Those of the first window do, and joining the  *)
(* next window to renumberings that do gives renumberings that do. Level   *)
(* by level, a comparison that reads such renumberings then pairs each     *)
(* provision with itself, and never two that a path or a move does not     *)
(* make one.                                                               *)
(*                                                                         *)
(* Its own: the history told of a path is the moves of the provision that  *)
(* has it, back to its first printing, where no path named two. A link to  *)
(* or from a path of it is then a link of it, and a provision whose own    *)
(* number changed at every move and never came back has one link to each   *)
(* path it went to: the walk finds its last move, the one before, and so   *)
(* on, and stops where it came from.                                       *)
(***************************************************************************)
EXTENDS Printings, FiniteSetTheorems, SequenceTheorems, FunctionTheorems,
        WellFoundedInduction, TLAPS

-----------------------------------------------------------------------------
(* What is told of a tree, from its root down.                             *)

(* Induction in the form the proofs below use it: a set of numbers has a   *)
(* least member.                                                           *)
LEMMA LeastMember ==
  ASSUME NEW T \in SUBSET Nat, T # {}
  PROVE  \E m \in T : \A k \in T : m <= k
<1> DEFINE R == {ss \in Nat \X Nat : ss[1] < ss[2]}
<1>1. IsWellFoundedOn(R, Nat)
  BY NatLessThanWellFounded DEF OpToRel
<1>2. PICK m \in T : \A k \in T : ~ (<<k, m>> \in R)
  <2> HIDE DEF R
  <2> QED BY <1>1, WFMin
<1>3. ASSUME NEW k \in T PROVE m <= k
  <2>1. k \in Nat /\ m \in Nat
    OBVIOUS
  <2>2. ~ (<<k, m>> \in R)
    BY <1>2
  <2>3. ~ (k < m)
    BY <2>1, <2>2
  <2> QED BY <2>1, <2>3
<1> QED BY <1>3

(* Something is told of each number of a set: where to start, or what the  *)
(* number makes of what is told of a smaller one.                          *)
Descends(D, stops, up) ==
  /\ D \in SUBSET Nat /\ stops \in SUBSET D
  /\ \A a \in D \ stops : up[a] \in D /\ up[a] < a

Told(D, S, stops, start, up, next, f) ==
  /\ f \in [D -> S]
  /\ \A a \in stops : f[a] = start[a]
  /\ \A a \in D \ stops : f[a] = next[a][f[up[a]]]

CanTell(D, S, stops, start, up, next) ==
  /\ Descends(D, stops, up) /\ start \in [stops -> S] /\ next \in [D -> [S -> S]]

(* Of every tree, all of it can be told.                                   *)
LEMMA Downwards ==
  ASSUME NEW D, NEW S, NEW stops, NEW start, NEW up, NEW next,
         CanTell(D, S, stops, start, up, next)
  PROVE  \E f : Told(D, S, stops, start, up, next, f)
<1> DEFINE below(n) == {a \in D : a < n}
           is(f, n) == /\ f \in [below(n) -> S]
                       /\ \A a \in below(n) \cap stops : f[a] = start[a]
                       /\ \A a \in below(n) \ stops : f[a] = next[a][f[up[a]]]
           open == {n \in Nat : ~ \E f : is(f, n)}
<1>0. /\ D \in SUBSET Nat /\ stops \in SUBSET D /\ \A a \in D : a \in Nat
      /\ start \in [stops -> S] /\ next \in [D -> [S -> S]]
  BY DEF CanTell, Descends
<1>1. \A a \in D \ stops : up[a] \in D /\ up[a] \in Nat /\ up[a] < a
  BY DEF CanTell, Descends
<1>2. open = {}
  <2> SUFFICES ASSUME open # {} PROVE FALSE
    OBVIOUS
  <2>1. PICK n \in open : \A m \in open : n <= m
    <3>1. open \in SUBSET Nat
      OBVIOUS
    <3> HIDE DEF open
    <3> QED BY <3>1, LeastMember
  <2>2. n \in Nat /\ ~ \E f : is(f, n)
    <3> HIDE DEF is
    <3> QED BY <2>1
  <2>3. n # 0
    <3>1. CASE n = 0
      <4>1. below(0) = {}
        <5>1. \A a \in D : ~ (a < 0)
          BY <1>0
        <5> QED BY <5>1
      <4> DEFINE f == [a \in {} |-> 0]
      <4>2. is(f, 0)
        BY <4>1
      <4> HIDE DEF is, f
      <4> QED BY <2>2, <3>1, <4>2
    <3> QED BY <3>1
  <2>4. PICK f : is(f, n - 1)
    <3>1. n - 1 \in Nat /\ n - 1 < n
      BY <2>2, <2>3
    <3>2. n - 1 \notin open
      <4> HIDE DEF open
      <4> QED BY <2>1, <2>2, <3>1
    <3> HIDE DEF is
    <3> QED BY <3>1, <3>2
  <2>5. below(n) = below(n - 1) \cup (D \cap {n - 1})
    <3>1. \A a \in D : a < n <=> a < n - 1 \/ a = n - 1
      BY <1>0, <2>2, <2>3
    <3> QED BY <3>1
  <2> DEFINE last == IF n - 1 \in stops THEN start[n - 1] ELSE next[n - 1][f[up[n - 1]]]
             g == [a \in below(n) |-> IF a = n - 1 THEN last ELSE f[a]]
  <2>6. n - 1 \in D => last \in S
    <3>1. CASE n - 1 \in stops
      BY <1>0, <3>1
    <3>2. CASE n - 1 \in D \ stops
      <4>1. up[n - 1] \in below(n - 1)
        BY <1>1, <3>2
      <4>2. f[up[n - 1]] \in S
        BY <2>4, <4>1
      <4> QED BY <1>0, <3>2, <4>2
    <3> QED BY <3>1, <3>2
  <2>7. \A a \in below(n - 1) : g[a] = f[a] /\ f[a] \in S
    <3>1. \A a \in below(n - 1) : a \in below(n) /\ a # n - 1
      BY <2>2, <2>5
    <3> QED BY <2>4, <3>1
  <2>8. n - 1 \in D => g[n - 1] = last
    BY <2>2, <2>5
  <2>9. g \in [below(n) -> S]
    <3>1. \A a \in below(n) : (IF a = n - 1 THEN last ELSE f[a]) \in S
      <4> HIDE DEF last, g
      <4> QED BY <2>5, <2>6, <2>7
    <3> HIDE DEF last
    <3> QED BY <3>1
  <2>10. ASSUME NEW a \in below(n) \cap stops PROVE g[a] = start[a]
    <3>1. CASE a = n - 1
      BY <2>8, <2>10, <3>1
    <3>2. CASE a # n - 1
      <4>1. a \in below(n - 1)
        BY <2>5, <3>2
      <4> QED BY <2>4, <2>7, <2>10, <4>1
    <3> QED BY <3>1, <3>2
  <2>11. ASSUME NEW a \in below(n) \ stops PROVE g[a] = next[a][g[up[a]]]
    <3>1. up[a] \in below(n - 1)
      <4>1. a \in D /\ a < n /\ a \in Nat /\ up[a] \in D /\ up[a] \in Nat /\ up[a] < a
        BY <1>0, <1>1, <2>11
      <4> QED BY <2>2, <4>1
    <3>2. g[up[a]] = f[up[a]]
      BY <2>7, <3>1
    <3>3. CASE a = n - 1
      BY <2>8, <2>11, <3>2, <3>3
    <3>4. CASE a # n - 1
      <4>1. a \in below(n - 1) \ stops
        BY <2>5, <2>11, <3>4
      <4>2. g[a] = f[a]
        BY <2>7, <4>1
      <4>3. f[a] = next[a][f[up[a]]]
        BY <2>4, <4>1
      <4> HIDE DEF g, below
      <4> QED BY <3>2, <4>2, <4>3
    <3> QED BY <3>3, <3>4
  <2>12. is(g, n)
    <3> HIDE DEF g, last
    <3> QED BY <2>9, <2>10, <2>11
  <2> HIDE DEF is, g
  <2> QED BY <2>2, <2>12
<1> DEFINE tells(a) == CHOOSE f : is(f, a + 1)
           h == [a \in D |-> tells(a)[a]]
<1>3. ASSUME NEW n \in Nat PROVE \E f : is(f, n)
  <2> HIDE DEF is
  <2> QED BY <1>2
(* Two that tell, tell the same of what both do. *)
<1>4. ASSUME NEW f, NEW m \in Nat, is(f, m), NEW g, NEW n \in Nat, is(g, n),
             NEW a \in D, a < m, a < n
      PROVE  f[a] = g[a]
  <2> DEFINE wrong == {b \in D : b < m /\ b < n /\ f[b] # g[b]}
  <2>1. wrong = {}
    <3> SUFFICES ASSUME wrong # {} PROVE FALSE
      OBVIOUS
    <3>1. PICK b \in wrong : \A c \in wrong : b <= c
      <4>1. wrong \in SUBSET Nat
        BY <1>0
      <4> HIDE DEF wrong
      <4> QED BY <4>1, LeastMember
    <3>2. b \in D /\ b \in Nat /\ b < m /\ b < n /\ f[b] # g[b]
      BY <1>0
    <3>3. CASE b \in stops
      BY <1>4, <3>2, <3>3
    <3>4. CASE b \notin stops
      <4>1. up[b] \in D /\ up[b] \in Nat /\ up[b] < b
        BY <1>1, <3>2, <3>4
      <4>2. up[b] \notin wrong
        <5> HIDE DEF wrong
        <5> QED BY <3>1, <3>2, <4>1
      <4>3. up[b] < m /\ up[b] < n
        BY <3>2, <4>1
      <4>4. f[up[b]] = g[up[b]]
        BY <4>1, <4>2, <4>3
      <4>5. f[b] = next[b][f[up[b]]] /\ g[b] = next[b][g[up[b]]]
        BY <1>4, <3>2, <3>4
      <4> QED BY <3>2, <4>4, <4>5
    <3> QED BY <3>3, <3>4
  <2> QED BY <1>4, <2>1
<1>5. ASSUME NEW a \in D PROVE is(tells(a), a + 1) /\ a \in Nat /\ a + 1 \in Nat /\ a < a + 1
  <2> HIDE DEF is
  <2> QED BY <1>0, <1>3
<1>6. ASSUME NEW a \in D
      PROVE  /\ h[a] \in S /\ (a \in stops => h[a] = start[a])
             /\ a \notin stops => h[a] = next[a][h[up[a]]]
  <2> DEFINE f == tells(a)
  <2>1. is(f, a + 1) /\ a \in Nat /\ a + 1 \in Nat /\ a < a + 1 /\ h[a] = f[a]
    <3> HIDE DEF is
    <3> QED BY <1>5
  <2> HIDE DEF f
  <2>2. a \in below(a + 1)
    BY <2>1
  <2>3. h[a] \in S /\ (a \in stops => h[a] = start[a])
    <3> HIDE DEF h
    <3> QED BY <2>1, <2>2
  <2>4. ASSUME a \notin stops PROVE h[a] = next[a][h[up[a]]]
    <3> DEFINE b == up[a]
               g == tells(b)
    <3>1. b \in D /\ b \in Nat /\ b < a
      BY <1>1, <2>4
    <3>2. is(g, b + 1) /\ b + 1 \in Nat /\ b < b + 1 /\ h[b] = g[b]
      <4> HIDE DEF is, b
      <4> QED BY <1>5, <3>1
    <3> HIDE DEF g, h
    <3>3. f[b] = g[b]
      <4>1. b < a + 1
        BY <2>1, <3>1
      <4> HIDE DEF is, b
      <4> QED BY <1>4, <2>1, <3>1, <3>2, <4>1
    <3>4. f[a] = next[a][f[b]]
      BY <2>1, <2>2, <2>4
    <3> QED BY <2>1, <3>2, <3>3, <3>4
  <2> QED BY <2>3, <2>4
<1>7. h \in [D -> S]
  <2> HIDE DEF tells
  <2> QED BY <1>6
<1> HIDE DEF h
<1>8. Told(D, S, stops, start, up, next, h)
  BY <1>0, <1>6, <1>7 DEF Told
<1> QED BY <1>8

-----------------------------------------------------------------------------
(* The comparison of two printings.                                        *)

(* A printing holds finitely many provisions.                              *)
IsPrinting(doc) == Printing(doc) /\ IsFiniteSet(DOMAIN doc)

(* A mate is one a pair names, or there is none.                           *)
LEMMA MateIsOf ==
  ASSUME NEW pairs, NEW a
  PROVE  MateIn(pairs, a) = 0 \/ \E m \in pairs : m[1] = a /\ MateIn(pairs, a) = m[2]
<1> DEFINE found == {m[2] : m \in {m \in pairs : m[1] = a}}
<1>1. MateIn(pairs, a) = IF found = {} THEN 0 ELSE CHOOSE b \in found : TRUE
  BY Zenon DEF MateIn
<1>2. found # {} => (CHOOSE b \in found : TRUE) \in found
  <2> HIDE DEF found
  <2> QED OBVIOUS
<1>3. \A b \in found : \E m \in pairs : m[1] = a /\ b = m[2]
  OBVIOUS
<1> HIDE DEF found
<1> QED BY <1>1, <1>2, <1>3

(* Only children of two paired provisions are paired.                      *)
LEMMA PairedAreChildren ==
  ASSUME NEW old, NEW new, NEW known, NEW p, NEW q, NEW m \in Paired(old, new, known, p, q)
  PROVE  m \in Children(old, p) \X Children(new, q)
<1> DEFINE moved == Renumbered(old, new, known, p, q)
           oldLeft == Children(old, p) \ {m1[1] : m1 \in moved}
           newLeft == Children(new, q) \ {m1[2] : m1 \in moved}
           rest == {k \in oldLeft \X newLeft :
                      /\ Number(old, k[1]) = Number(new, k[2])
                      /\ Place(ByNumber(old, oldLeft, k[1]), k[1])
                           = Place(ByNumber(new, newLeft, k[2]), k[2])}
<1>1. Paired(old, new, known, p, q) = moved \cup rest
  BY Zenon DEF Paired
<1>2. moved \subseteq Children(old, p) \X Children(new, q)
  BY DEF Renumbered
<1>3. rest \subseteq oldLeft \X newLeft
  OBVIOUS
<1> HIDE DEF moved, rest
<1>4. oldLeft \X newLeft \subseteq Children(old, p) \X Children(new, q)
  OBVIOUS
<1> QED BY <1>1, <1>2, <1>3, <1>4

(* What each provision became, step by step down the tree.                 *)
LEMMA MatesAre ==
  ASSUME NEW old, IsPrinting(old), NEW new, IsPrinting(new), NEW known,
         NEW mate, mate = Mates(old, new, known)
  PROVE  /\ mate \in [DOMAIN old -> DOMAIN new \cup {0}] /\ mate[Root] = Root
         /\ \A a \in DOMAIN old \ {Root} :
              /\ mate[old[a].above] = 0 => mate[a] = 0
              /\ mate[old[a].above] # 0 =>
                   mate[a] = MateIn(Paired(old, new, known, old[a].above,
                                           mate[old[a].above]), a)
<1> DEFINE D == DOMAIN old
           S == DOMAIN new \cup {0}
           to(a, v) == IF v = 0 THEN 0 ELSE MateIn(Paired(old, new, known, old[a].above, v), a)
           start == [a \in {Root} |-> Root]
           next == [a \in D |-> [v \in S |-> to(a, v)]]
           up == [a \in D |-> old[a].above]
           rec(f) == f = [a \in D |-> IF a = Root THEN Root
                                      ELSE IF f[old[a].above] = 0 THEN 0
                                      ELSE MateIn(Paired(old, new, known, old[a].above,
                                                         f[old[a].above]), a)]
           is == CHOOSE f : rec(f)
<1>1. /\ D \in SUBSET Nat /\ Root \in D /\ Root \in S
      /\ \A a \in D \ {Root} : up[a] \in D /\ up[a] < a /\ up[a] = old[a].above
  BY DEF IsPrinting, Printing
<1>2. ASSUME NEW a \in D, NEW v \in S PROVE to(a, v) \in S
  <2> DEFINE pairs == Paired(old, new, known, old[a].above, v)
  <2>1. \A m \in pairs : m[2] \in DOMAIN new
    BY PairedAreChildren DEF Children
  <2>2. MateIn(pairs, a) \in S
    <3> HIDE DEF pairs
    <3> QED BY <2>1, MateIsOf
  <2> QED BY <2>2
<1>3. next \in [D -> [S -> S]]
  <2> HIDE DEF to, D, S
  <2> QED BY <1>2
<1>4. start \in [{Root} -> S] /\ {Root} \in SUBSET D /\ start[Root] = Root
  BY <1>1
<1>5. PICK f : /\ f \in [D -> S] /\ f[Root] = start[Root]
               /\ \A a \in D \ {Root} : f[a] = next[a][f[up[a]]]
  <2>1. CanTell(D, S, {Root}, start, up, next)
    BY <1>1, <1>3, <1>4 DEF CanTell, Descends
  <2>2. \E f : Told(D, S, {Root}, start, up, next, f)
    <3> HIDE DEF D, S, start, next, up
    <3> QED BY <2>1, Downwards
  <2> HIDE DEF D, S, start, next, up
  <2> QED BY <2>2 DEF Told
<1>6. \A a \in D \ {Root} : f[a] = to(a, f[old[a].above])
  <2> SUFFICES ASSUME NEW a \in D \ {Root} PROVE f[a] = to(a, f[old[a].above])
    OBVIOUS
  <2> HIDE DEF to
  <2>1. old[a].above \in D /\ f[a] = next[a][f[old[a].above]]
    <3> HIDE DEF D, S, next, up
    <3> QED BY <1>1, <1>5
  <2>2. f[old[a].above] \in S
    <3> HIDE DEF D, S
    <3> QED BY <1>5, <2>1
  <2> QED BY <2>1, <2>2
<1>7. rec(f)
  <2> DEFINE g == [a \in D |-> IF a = Root THEN Root
                               ELSE IF f[old[a].above] = 0 THEN 0
                               ELSE MateIn(Paired(old, new, known, old[a].above,
                                                  f[old[a].above]), a)]
  <2>1. ASSUME NEW a \in D PROVE f[a] = g[a]
    <3>1. CASE a = Root
      BY <1>4, <1>5, <3>1
    <3>2. CASE a # Root
      BY <1>6, <3>2
    <3> QED BY <3>1, <3>2
  <2>2. f = [a \in D |-> f[a]]
    BY <1>5
  <2>3. g = [a \in D |-> g[a]]
    OBVIOUS
  <2> HIDE DEF g, D
  <2>4. f = g
    BY <2>1, <2>2, <2>3
  <2> QED BY <2>4 DEF g
<1>8. rec(is)
  <2> HIDE DEF rec
  <2> QED BY <1>7
<1>9. mate = is
  BY DEF Mates
<1>10. rec(mate)
  BY <1>8, <1>9
<1> HIDE DEF is
<1> DEFINE wrong == {a \in D : mate[a] \notin S}
<1>11. mate = [a \in D |-> mate[a]]
  BY <1>10
<1>12. mate[Root] = Root
  BY <1>1, <1>10
<1>13. \A a \in D \ {Root} : mate[a] = to(a, mate[old[a].above])
  BY <1>10
<1>14. wrong = {}
  <2> SUFFICES ASSUME wrong # {} PROVE FALSE
    OBVIOUS
  <2>1. PICK a \in wrong : \A b \in wrong : a <= b
    <3>1. wrong \in SUBSET Nat
      BY <1>1
    <3> HIDE DEF wrong
    <3> QED BY <3>1, LeastMember
  <2>2. a \in D \ {Root}
    BY <1>1, <1>12
  <2>3. old[a].above \in D /\ old[a].above < a /\ old[a].above \in Nat /\ a \in Nat
    BY <1>1, <2>2
  <2>4. old[a].above \notin wrong
    <3> HIDE DEF wrong
    <3> QED BY <2>1, <2>3
  <2>5. mate[old[a].above] \in S
    BY <2>3, <2>4
  <2> HIDE DEF to, S, D
  <2>6. mate[a] \in S
    BY <1>2, <1>13, <2>2, <2>5
  <2> QED BY <2>1, <2>6
<1>15. mate \in [D -> S]
  <2>1. \A a \in D : mate[a] \in S
    BY <1>14
  <2> HIDE DEF D, S
  <2> QED BY <1>11, <2>1
<1> QED BY <1>12, <1>13, <1>15

(* Of a finite set of numbers, each has a place of its own.                *)
LEMMA PlaceTells ==
  ASSUME NEW S \in SUBSET Nat, IsFiniteSet(S), NEW i \in S, NEW j \in S,
         Place(S, i) = Place(S, j)
  PROVE  i = j
<1>1. ASSUME NEW k \in S, NEW m \in S, k < m PROVE Place(S, k) # Place(S, m)
  <2> DEFINE upto(n) == {x \in S : x <= n}
  <2>1. IsFiniteSet(upto(m))
    BY FS_Subset
  <2>2. \A x \in S : x \in Nat
    OBVIOUS
  <2>3. upto(k) \subseteq upto(m)
    <3> SUFFICES ASSUME NEW x \in S, x <= k PROVE x <= m
      OBVIOUS
    <3>1. x \in Nat /\ k \in Nat /\ m \in Nat
      BY <2>2
    <3> QED BY <1>1, <3>1
  <2>4. m \in upto(m) /\ m \notin upto(k)
    BY <1>1, <2>2
  <2>5. Place(S, k) = Cardinality(upto(k)) /\ Place(S, m) = Cardinality(upto(m))
    BY DEF Place
  <2> HIDE DEF upto
  <2>6. Cardinality(upto(k)) # Cardinality(upto(m))
    BY <2>1, <2>3, <2>4, FS_Subset
  <2> QED BY <2>5, <2>6
<1>2. i \in Nat /\ j \in Nat
  OBVIOUS
<1> QED BY <1>1, <1>2

(* Moves that can be read backwards: no two of them go to one path.        *)
AreReverse(known, back) ==
  /\ \A s \in DOMAIN known : known[s] \in DOMAIN back /\ back[known[s]] = s
  /\ \A t \in DOMAIN back : back[t] \in DOMAIN known /\ known[back[t]] = t

(* Read backwards twice, moves are as they were.                           *)
LEMMA ReadBackTwice ==
  ASSUME NEW known, NEW back, AreReverse(known, back)
  PROVE  AreReverse(back, known)
BY DEF AreReverse

(* The pairs of children the known moves make, read backwards.             *)
LEMMA RenumberedBack ==
  ASSUME NEW old, NEW new, NEW known, NEW back, AreReverse(known, back), NEW p, NEW q,
         NEW a, NEW b, <<a, b>> \in Renumbered(old, new, known, p, q)
  PROVE  <<b, a>> \in Renumbered(new, old, back, q, p)
<1> DEFINE to(path) == {i \in Children(old, p) : /\ old[i].path \in DOMAIN known
                                                 /\ known[old[i].path] = path}
           at(path) == {i \in Children(new, q) : new[i].path = path}
           ot(path) == {i \in Children(new, q) : /\ new[i].path \in DOMAIN back
                                                 /\ back[new[i].path] = path}
           ta(path) == {i \in Children(old, p) : old[i].path = path}
<1>1. /\ a \in Children(old, p) /\ b \in Children(new, q)
      /\ a \in to(new[b].path) /\ Place(to(new[b].path), a) = Place(at(new[b].path), b)
  BY DEF Renumbered
<1>2. old[a].path \in DOMAIN known /\ known[old[a].path] = new[b].path
  BY <1>1
<1>3. new[b].path \in DOMAIN back /\ back[new[b].path] = old[a].path
  BY <1>2 DEF AreReverse
<1>4. to(new[b].path) = ta(old[a].path)
  BY <1>2, <1>3 DEF AreReverse
<1>5. at(new[b].path) = ot(old[a].path)
  BY <1>2, <1>3 DEF AreReverse
<1>6. b \in ot(old[a].path) /\ Place(ot(old[a].path), b) = Place(ta(old[a].path), a)
  <2>1. b \in at(new[b].path)
    BY <1>1
  <2> HIDE DEF to, at, ot, ta
  <2> QED BY <1>1, <1>4, <1>5, <2>1
<1> QED BY <1>1, <1>6 DEF Renumbered

(* The ends of pairs.                                                      *)
Ones(pairs) == {m[1] : m \in pairs}

Others(pairs) == {m[2] : m \in pairs}

(* The children no known move pairs.                                       *)
OldLeft(old, new, known, p, q) == Children(old, p) \ Ones(Renumbered(old, new, known, p, q))

NewLeft(old, new, known, p, q) == Children(new, q) \ Others(Renumbered(old, new, known, p, q))

(* Two of these are paired by number.                                      *)
AlikeIn(old, new, oldLeft, newLeft, a, b) ==
  /\ a \in oldLeft /\ b \in newLeft /\ Number(old, a) = Number(new, b)
  /\ Place(ByNumber(old, oldLeft, a), a) = Place(ByNumber(new, newLeft, b), b)

(* Two children are paired by a known move or by number.                   *)
LEMMA PairedIs ==
  ASSUME NEW old, NEW new, NEW known, NEW p, NEW q, NEW a, NEW b
  PROVE  <<a, b>> \in Paired(old, new, known, p, q) <=>
           \/ <<a, b>> \in Renumbered(old, new, known, p, q)
           \/ AlikeIn(old, new, OldLeft(old, new, known, p, q),
                      NewLeft(old, new, known, p, q), a, b)
<1> DEFINE moved == Renumbered(old, new, known, p, q)
           oldLeft == OldLeft(old, new, known, p, q)
           newLeft == NewLeft(old, new, known, p, q)
           rest == {k \in oldLeft \X newLeft :
                      /\ Number(old, k[1]) = Number(new, k[2])
                      /\ Place(ByNumber(old, oldLeft, k[1]), k[1])
                           = Place(ByNumber(new, newLeft, k[2]), k[2])}
<1>1. Paired(old, new, known, p, q) = moved \cup rest
  BY Zenon DEF Paired, OldLeft, NewLeft, Ones, Others
<1>2. <<a, b>> \in rest <=> AlikeIn(old, new, oldLeft, newLeft, a, b)
  <2> HIDE DEF oldLeft, newLeft
  <2> QED BY DEF AlikeIn
<1> HIDE DEF rest
<1> QED BY <1>1, <1>2

(* Who is left, is left read backwards too.                                *)
LEMMA LeftBack ==
  ASSUME NEW old, NEW new, NEW known, NEW back, AreReverse(known, back), NEW p, NEW q
  PROVE  /\ OldLeft(old, new, known, p, q) = NewLeft(new, old, back, q, p)
         /\ NewLeft(old, new, known, p, q) = OldLeft(new, old, back, q, p)
<1> DEFINE R == Renumbered(old, new, known, p, q)
           B == Renumbered(new, old, back, q, p)
<1>1. \A a, b : <<a, b>> \in R <=> <<b, a>> \in B
  BY RenumberedBack, ReadBackTwice
<1>2. (\A m \in R : m = <<m[1], m[2]>>) /\ (\A m \in B : m = <<m[1], m[2]>>)
  BY DEF Renumbered
<1> HIDE DEF R, B
<1>3. \A m \in R : <<m[2], m[1]>> \in B
  BY <1>1, <1>2
<1>4. \A m \in B : <<m[2], m[1]>> \in R
  BY <1>1, <1>2
<1>5. \A x : (\E m \in R : x = m[1]) <=> (\E m \in B : x = m[2])
  BY <1>3, <1>4
<1>6. \A x : (\E m \in R : x = m[2]) <=> (\E m \in B : x = m[1])
  BY <1>3, <1>4
<1>7. Ones(R) = Others(B) /\ Others(R) = Ones(B)
  BY <1>5, <1>6 DEF Ones, Others
<1> QED BY <1>7 DEF R, B, OldLeft, NewLeft

(* Children are paired backwards as they are paired.                       *)
LEMMA PairedBack ==
  ASSUME NEW old, NEW new, NEW known, NEW back, AreReverse(known, back), NEW p, NEW q,
         NEW a, NEW b, <<a, b>> \in Paired(old, new, known, p, q)
  PROVE  <<b, a>> \in Paired(new, old, back, q, p)
<1>1. \/ <<a, b>> \in Renumbered(old, new, known, p, q)
      \/ AlikeIn(old, new, OldLeft(old, new, known, p, q), NewLeft(old, new, known, p, q), a, b)
  BY PairedIs
<1>2. CASE <<a, b>> \in Renumbered(old, new, known, p, q)
  BY <1>2, RenumberedBack, PairedIs
<1>3. CASE AlikeIn(old, new, OldLeft(old, new, known, p, q), NewLeft(old, new, known, p, q), a, b)
  <2>1. AlikeIn(new, old, NewLeft(old, new, known, p, q), OldLeft(old, new, known, p, q), b, a)
    BY <1>3 DEF AlikeIn
  <2>2. AlikeIn(new, old, OldLeft(new, old, back, q, p), NewLeft(new, old, back, q, p), b, a)
    BY <2>1, LeftBack
  <2> QED BY <2>2, PairedIs
<1> QED BY <1>1, <1>2, <1>3

(* Provisions of a printing are a finite set of numbers.                   *)
LEMMA AmongProvisions ==
  ASSUME NEW doc, IsPrinting(doc), NEW S \in SUBSET DOMAIN doc
  PROVE  S \in SUBSET Nat /\ IsFiniteSet(S)
<1>1. \A i \in DOMAIN doc : i \in Nat
  BY DEF IsPrinting, Printing
<1>2. IsFiniteSet(S)
  BY FS_Subset DEF IsPrinting
<1> QED BY <1>1, <1>2

(* A child is paired with one.                                             *)
LEMMA RenumberedOnce ==
  ASSUME NEW old, NEW new, IsPrinting(new), NEW known, NEW p, NEW q, NEW a, NEW b, NEW c,
         <<a, b>> \in Renumbered(old, new, known, p, q),
         <<a, c>> \in Renumbered(old, new, known, p, q)
  PROVE  b = c
<1> DEFINE to(path) == {i \in Children(old, p) : /\ old[i].path \in DOMAIN known
                                                 /\ known[old[i].path] = path}
           at(path) == {i \in Children(new, q) : new[i].path = path}
<1>1. /\ b \in Children(new, q) /\ a \in to(new[b].path)
      /\ Place(to(new[b].path), a) = Place(at(new[b].path), b)
      /\ c \in Children(new, q) /\ a \in to(new[c].path)
      /\ Place(to(new[c].path), a) = Place(at(new[c].path), c)
  BY DEF Renumbered
<1>2. new[b].path = new[c].path
  BY <1>1
<1> DEFINE S == at(new[b].path)
<1>3. b \in S /\ c \in S /\ S \in SUBSET DOMAIN new
  BY <1>1, <1>2 DEF Children
<1>4. Place(S, b) = Place(S, c)
  <2> HIDE DEF to, at
  <2> QED BY <1>1, <1>2
<1> HIDE DEF S
<1> QED BY <1>3, <1>4, AmongProvisions, PlaceTells

(* Whatever pairs it.                                                      *)
LEMMA PairedOnce ==
  ASSUME NEW old, NEW new, IsPrinting(new), NEW known, NEW p, NEW q, NEW a, NEW b, NEW c,
         <<a, b>> \in Paired(old, new, known, p, q),
         <<a, c>> \in Paired(old, new, known, p, q)
  PROVE  b = c
<1> DEFINE moved == Renumbered(old, new, known, p, q)
           oldLeft == OldLeft(old, new, known, p, q)
           newLeft == NewLeft(old, new, known, p, q)
<1>1. /\ <<a, b>> \in moved \/ AlikeIn(old, new, oldLeft, newLeft, a, b)
      /\ <<a, c>> \in moved \/ AlikeIn(old, new, oldLeft, newLeft, a, c)
  BY PairedIs
<1>2. \A x : <<a, x>> \in moved => a \notin oldLeft
  BY DEF OldLeft, Ones
<1>3. \A x : AlikeIn(old, new, oldLeft, newLeft, a, x) => a \in oldLeft
  BY DEF AlikeIn
<1>4. CASE <<a, b>> \in moved /\ <<a, c>> \in moved
  BY <1>4, RenumberedOnce
<1>5. CASE /\ AlikeIn(old, new, oldLeft, newLeft, a, b)
           /\ AlikeIn(old, new, oldLeft, newLeft, a, c)
  <2>1. newLeft \in SUBSET DOMAIN new
    BY DEF NewLeft, Children
  <2> HIDE DEF oldLeft, newLeft
  <2>2. /\ b \in newLeft /\ c \in newLeft /\ Number(new, b) = Number(new, c)
        /\ Place(ByNumber(new, newLeft, b), b) = Place(ByNumber(new, newLeft, c), c)
    BY <1>5 DEF AlikeIn
  <2> DEFINE S == ByNumber(new, newLeft, b)
  <2>3. ByNumber(new, newLeft, c) = S /\ b \in S /\ c \in S /\ S \in SUBSET DOMAIN new
    BY <2>1, <2>2 DEF ByNumber
  <2> HIDE DEF S
  <2>4. Place(S, b) = Place(S, c)
    BY <2>2, <2>3 DEF S
  <2> QED BY <2>3, <2>4, AmongProvisions, PlaceTells
<1> HIDE DEF moved, oldLeft, newLeft
<1> QED BY <1>1, <1>2, <1>3, <1>4, <1>5

(* The mate of a child is what it is paired with.                          *)
LEMMA MateIsThe ==
  ASSUME NEW pairs, NEW a, NEW b, <<a, b>> \in pairs,
         \A m \in pairs : m = <<m[1], m[2]>>, \A c : <<a, c>> \in pairs => c = b
  PROVE  MateIn(pairs, a) = b
<1> DEFINE found == {m[2] : m \in {m \in pairs : m[1] = a}}
<1>1. MateIn(pairs, a) = IF found = {} THEN 0 ELSE CHOOSE c \in found : TRUE
  BY Zenon DEF MateIn
<1>2. b \in found
  <2>1. <<a, b>> \in pairs /\ <<a, b>>[1] = a /\ <<a, b>>[2] = b
    OBVIOUS
  <2> QED BY <2>1
<1>3. ASSUME NEW c \in found PROVE c = b
  <2>1. PICK m \in pairs : m[1] = a /\ m[2] = c
    OBVIOUS
  <2>2. m = <<a, c>>
    BY <2>1
  <2> QED BY <2>1, <2>2
<1> HIDE DEF found
<1>4. (CHOOSE c \in found : TRUE) \in found
  BY <1>2
<1> QED BY <1>1, <1>2, <1>3, <1>4

(* What a provision became, became of it read backwards.                   *)
LEMMA MatesBack ==
  ASSUME NEW old, IsPrinting(old), NEW new, IsPrinting(new),
         NEW known, NEW back, AreReverse(known, back),
         NEW mate, mate = Mates(old, new, known), NEW etam, etam = Mates(new, old, back),
         NEW a \in DOMAIN old, mate[a] # 0
  PROVE  etam[mate[a]] = a
<1> DEFINE wrong == {x \in DOMAIN old : mate[x] # 0 /\ etam[mate[x]] # x}
<1>1. \A x \in DOMAIN old : x \in Nat
  BY DEF IsPrinting, Printing
<1>2. wrong = {}
  <2> SUFFICES ASSUME wrong # {} PROVE FALSE
    OBVIOUS
  <2>1. PICK x \in wrong : \A y \in wrong : x <= y
    <3>1. wrong \in SUBSET Nat
      BY <1>1
    <3> HIDE DEF wrong
    <3> QED BY <3>1, LeastMember
  <2>2. x \in DOMAIN old /\ mate[x] # 0 /\ etam[mate[x]] # x
    OBVIOUS
  <2>3. mate[Root] = Root /\ etam[Root] = Root
    BY MatesAre
  <2>4. x # Root
    BY <2>2, <2>3
  <2> DEFINE p == old[x].above
             q == mate[p]
             b == mate[x]
             pairs == Paired(old, new, known, p, q)
             sriap == Paired(new, old, back, q, p)
  <2>5. p \in DOMAIN old /\ p < x /\ p \in Nat /\ x \in Nat
    BY <1>1, <2>2, <2>4 DEF IsPrinting, Printing
  <2>6. q # 0 /\ b = MateIn(pairs, x)
    BY <2>2, <2>4, MatesAre
  <2>7. etam[q] = p
    <3>1. p \notin wrong
      <4> HIDE DEF wrong, p
      <4> QED BY <2>1, <2>5
    <3> QED BY <2>5, <2>6, <3>1
  <2>8. <<x, b>> \in pairs
    <3>1. PICK m \in pairs : m[1] = x /\ m[2] = b
      <4> HIDE DEF pairs, b
      <4> QED BY <2>2, <2>6, MateIsOf DEF b
    <3>2. m = <<m[1], m[2]>>
      BY PairedAreChildren
    <3> HIDE DEF pairs, b
    <3> QED BY <3>1, <3>2
  <2>9. <<b, x>> \in sriap
    <3> HIDE DEF p, q, b
    <3> QED BY <2>8, PairedBack
  <2>10. b \in DOMAIN new /\ new[b].above = q
    <3> HIDE DEF p, q, b
    <3> QED BY <2>8, PairedAreChildren DEF Children
  <2>11. b # Root
    <3>1. new[Root].above = 0
      BY DEF IsPrinting, Printing
    <3> HIDE DEF p, q, b
    <3> QED BY <2>6, <2>10, <3>1
  <2>12. etam[b] = MateIn(sriap, b)
    <3>1. b \in DOMAIN new \ {Root} /\ etam[new[b].above] # 0
      <4>1. p # 0
        BY <2>5 DEF IsPrinting, Printing
      <4> HIDE DEF p, q, b
      <4> QED BY <2>7, <2>10, <2>11, <4>1
    <3>2. etam[b] = MateIn(Paired(new, old, back, new[b].above, etam[new[b].above]), b)
      <4> HIDE DEF b
      <4> QED BY <3>1, MatesAre
    <3> HIDE DEF p, q, b
    <3> QED BY <2>7, <2>10, <3>2
  <2>13. MateIn(sriap, b) = x
    <3>1. \A m \in sriap : m = <<m[1], m[2]>>
      BY PairedAreChildren
    <3>2. \A c : <<b, c>> \in sriap => c = x
      <4> HIDE DEF p, q, b
      <4> QED BY <2>9, PairedOnce
    <3> HIDE DEF sriap, b
    <3> QED BY <2>9, <3>1, <3>2, MateIsThe
  <2> QED BY <2>2, <2>12, <2>13
<1> QED BY <1>2

(* What a diff claims backwards.                                           *)
IsReadBackwards(old, new, known, back) ==
  LET mate == Mates(old, new, known)
      etam == Mates(new, old, back)
  IN /\ \A a \in DOMAIN old : mate[a] # 0 => etam[mate[a]] = a
     /\ \A b \in DOMAIN new : etam[b] # 0 => mate[etam[b]] = b
     /\ Added(new, mate) = Removed(new, etam)
     /\ Changed(new, old, etam) = {mate[a] : a \in Changed(old, new, mate)}

(* A diff of any two printings is read backwards by moves read backwards.  *)
THEOREM DiffReadsBackwards ==
  ASSUME NEW old, IsPrinting(old), NEW new, IsPrinting(new),
         NEW known, NEW back, AreReverse(known, back)
  PROVE  IsReadBackwards(old, new, known, back)
<1> DEFINE mate == Mates(old, new, known)
           etam == Mates(new, old, back)
<1>1. /\ mate \in [DOMAIN old -> DOMAIN new \cup {0}]
      /\ etam \in [DOMAIN new -> DOMAIN old \cup {0}]
  <2>1. AreReverse(back, known)
    BY ReadBackTwice
  <2> QED BY MatesAre
<1>2. \A a \in DOMAIN old : mate[a] # 0 => etam[mate[a]] = a
  BY MatesBack
<1>3. \A b \in DOMAIN new : etam[b] # 0 => mate[etam[b]] = b
  BY MatesBack, ReadBackTwice
<1>4. /\ 0 \notin DOMAIN old /\ 0 \notin DOMAIN new
      /\ \A b \in DOMAIN new \ {Root} : new[b].above \in DOMAIN new
  BY DEF IsPrinting, Printing
<1> HIDE DEF mate, etam
<1>5. ASSUME NEW b \in DOMAIN new
      PROVE  b \in Range(mate) <=> etam[b] # 0
  <2>1. ASSUME b \in Range(mate) PROVE etam[b] # 0
    <3>1. PICK a \in DOMAIN old : b = mate[a]
      BY <1>1, <2>1 DEF Range
    <3> QED BY <1>2, <1>4, <3>1
  <2>2. ASSUME etam[b] # 0 PROVE b \in Range(mate)
    <3>1. etam[b] \in DOMAIN old /\ mate[etam[b]] = b
      BY <1>1, <1>3, <2>2
    <3> QED BY <1>1, <3>1 DEF Range
  <2> QED BY <2>1, <2>2
<1>6. Added(new, mate) = Removed(new, etam)
  BY <1>4, <1>5 DEF Added, Removed
<1>7. Changed(new, old, etam) = {mate[a] : a \in Changed(old, new, mate)}
  <2>1. ASSUME NEW b \in Changed(new, old, etam)
        PROVE  \E a \in Changed(old, new, mate) : b = mate[a]
    <3>1. b \in DOMAIN new /\ etam[b] # 0 /\ new[b].words # old[etam[b]].words
      BY DEF Changed
    <3>2. etam[b] \in DOMAIN old /\ mate[etam[b]] = b /\ b # 0
      BY <1>1, <1>3, <1>4, <3>1
    <3>3. etam[b] \in Changed(old, new, mate)
      BY <3>1, <3>2 DEF Changed
    <3> QED BY <3>2, <3>3
  <2>2. ASSUME NEW a \in Changed(old, new, mate) PROVE mate[a] \in Changed(new, old, etam)
    <3>1. a \in DOMAIN old /\ mate[a] # 0 /\ old[a].words # new[mate[a]].words
      BY DEF Changed
    <3>2. mate[a] \in DOMAIN new /\ etam[mate[a]] = a /\ a # 0
      BY <1>1, <1>2, <1>4, <3>1
    <3> QED BY <3>1, <3>2 DEF Changed
  <2> QED BY <2>1, <2>2
<1> QED BY <1>2, <1>3, <1>6, <1>7 DEF IsReadBackwards, mate, etam

-----------------------------------------------------------------------------
(* Paths of a printing.                                                    *)

(* A path is a sequence of segments, no longer than the bound.             *)
LEMMA PathIs ==
  ASSUME NEW p
  PROVE  p \in Path <=> p \in Seq(Segment) /\ Len(p) <= Depth
<1>1. ASSUME p \in Path PROVE p \in Seq(Segment) /\ Len(p) <= Depth
  <2>1. PICK n \in 0..Depth : p \in [1..n -> Segment]
    BY <1>1 DEF Path
  <2>2. n \in Nat /\ n <= Depth
    BY BoundAssumption
  <2> QED BY <2>1, <2>2
<1>2. ASSUME p \in Seq(Segment), Len(p) <= Depth PROVE p \in Path
  <2>1. Len(p) \in 0..Depth /\ p \in [1..Len(p) -> Segment]
    BY <1>2, LenProperties, BoundAssumption
  <2> QED BY <2>1 DEF Path
<1> QED BY <1>1, <1>2

(* Another path begins with this one.                                      *)
Begins(s, t) == Len(s) <= Len(t) /\ \A k \in 1..Len(s) : s[k] = t[k]

(* All of a path but its last segment.                                     *)
LEMMA FrontIs ==
  ASSUME NEW s \in Seq(Segment), s # <<>>
  PROVE  /\ Front(s) \in Seq(Segment) /\ Len(Front(s)) = Len(s) - 1
         /\ \A k \in 1..(Len(s) - 1) : Front(s)[k] = s[k]
         /\ Len(s) \in Nat \ {0}
<1> DEFINE n == Len(s) - 1
<1>1. Front(s) = SubSeq(s, 1, n)
  BY DEF Front
<1>2. n \in Nat /\ n <= Len(s) /\ Len(s) \in Nat \ {0}
  BY EmptySeq
<1> HIDE DEF n
<1>3. /\ SubSeq(s, 1, n) \in Seq(Segment) /\ Len(SubSeq(s, 1, n)) = n
      /\ \A k \in 1..n : SubSeq(s, 1, n)[k] = s[k]
  BY <1>2
<1>4. /\ Front(s) \in Seq(Segment) /\ Len(Front(s)) = n
      /\ \A k \in 1..n : Front(s)[k] = s[k]
  BY <1>1, <1>3
<1> QED BY <1>2, <1>4 DEF n

(* A path renumbered differs in one segment.                               *)
OneSegment(s, segment, t, u) ==
  /\ u \in Seq(Segment) /\ Len(u) = Len(t)
  /\ \A k \in 1..Len(t) : (k = Len(s) => u[k] = segment) /\ (k # Len(s) => u[k] = t[k])

(* The path t, at or below s, when the last segment of s becomes another.  *)
CarriedTo(s, segment, t) == Append(Front(s), segment) \o Below(t, Len(s))

(* A path at or below a provision, as the provision is renumbered.         *)
LEMMA CarriedIs ==
  ASSUME NEW s \in Seq(Segment), s # <<>>, NEW segment \in Segment,
         NEW t \in Seq(Segment), Begins(s, t)
  PROVE  OneSegment(s, segment, t, CarriedTo(s, segment, t))
<1> DEFINE n == Len(s)
           front == Front(s)
           head == Append(front, segment)
           rest == Below(t, n)
           u == CarriedTo(s, segment, t)
<1>1. /\ n \in Nat \ {0} /\ Len(t) \in Nat /\ n <= Len(t)
      /\ \A k \in 1..n : s[k] = t[k]
  BY EmptySeq, LenProperties DEF Begins
<1>2. /\ front \in Seq(Segment) /\ Len(front) = n - 1 /\ \A k \in 1..(n - 1) : front[k] = s[k]
  BY <1>1, FrontIs
<1>3. /\ rest \in Seq(Segment) /\ Len(rest) = Len(t) - n
      /\ \A k \in 1..Len(rest) : rest[k] = t[n + k]
  BY <1>1 DEF Below
<1> HIDE DEF front, rest
<1>4. /\ head \in Seq(Segment) /\ Len(head) = n /\ head[n] = segment
      /\ \A k \in 1..(n - 1) : head[k] = s[k]
  <2>2. /\ head \in Seq(Segment) /\ Len(head) = Len(front) + 1
        /\ head[Len(front) + 1] = segment
        /\ \A k \in 1..Len(front) : head[k] = front[k]
    BY <1>2
  <2> HIDE DEF head
  <2>3. Len(head) = n /\ head[n] = segment /\ Len(front) = n - 1
    BY <1>1, <1>2, <2>2
  <2> QED BY <1>2, <2>2, <2>3
<1> HIDE DEF head
<1>5. u = head \o rest
  BY DEF head, front, rest, CarriedTo
<1> HIDE DEF u
<1>6. /\ u \in Seq(Segment) /\ Len(u) = Len(head) + Len(rest)
      /\ \A k \in 1..Len(head) : u[k] = head[k]
      /\ \A k \in 1..Len(rest) : u[Len(head) + k] = rest[k]
  <2>0. head \in Seq(Segment) /\ rest \in Seq(Segment)
    BY <1>3, <1>4
  <2>1. /\ head \o rest \in Seq(Segment) /\ Len(head \o rest) = Len(head) + Len(rest)
        /\ \A k \in 1..Len(head) : (head \o rest)[k] = head[k]
        /\ \A k \in 1..Len(rest) : (head \o rest)[Len(head) + k] = rest[k]
    BY <2>0
  <2> QED BY <1>5, <2>1
<1>7. Len(u) = Len(t)
  BY <1>1, <1>3, <1>4, <1>6
<1>8. ASSUME NEW k \in 1..Len(t) PROVE (k = n => u[k] = segment) /\ (k # n => u[k] = t[k])
  <2>1. CASE k <= n
    <3>1. u[k] = head[k]
      BY <1>1, <1>4, <1>6, <2>1
    <3> QED BY <1>1, <1>4, <2>1, <3>1
  <2>2. CASE k > n
    <3> DEFINE j == k - n
    <3> HIDE DEF n
    <3>1. j \in 1..Len(rest) /\ n + j = k /\ k # n
      BY <1>1, <1>3, <2>2
    <3> HIDE DEF j
    <3>2. u[Len(head) + j] = rest[j] /\ rest[j] = t[n + j] /\ Len(head) = n
      BY <1>3, <1>4, <1>6, <3>1
    <3> QED BY <3>1, <3>2
  <2>3. k <= n \/ k > n
    BY <1>1
  <2> HIDE DEF n
  <2> QED BY <2>1, <2>2, <2>3
<1> QED BY <1>6, <1>7, <1>8 DEF OneSegment, n, u

(* What is above a provision comes first, and its path is one shorter.     *)
LEMMA AboveIs ==
  ASSUME NEW doc, IsPrinting(doc), NEW j \in DOMAIN doc
  PROVE  /\ j \in Nat \ {0} /\ doc[j].path \in Seq(Segment) /\ Len(doc[j].path) \in Nat
         /\ j = Root => doc[j].path = <<>> /\ Len(doc[j].path) = 0
         /\ j # Root =>
              /\ doc[j].path # <<>> /\ Len(doc[j].path) > 0
              /\ doc[j].above \in DOMAIN doc /\ doc[j].above < j
              /\ doc[doc[j].above].path = Front(doc[j].path)
              /\ Len(doc[doc[j].above].path) = Len(doc[j].path) - 1
              /\ Begins(doc[doc[j].above].path, doc[j].path)
<1>1. /\ j \in Nat \ {0} /\ doc[j].path \in Seq(Segment)
      /\ j = Root => doc[j].path = <<>>
      /\ j # Root => /\ doc[j].path # <<>>
                     /\ doc[j].above \in DOMAIN doc /\ doc[j].above < j
                     /\ doc[doc[j].above].path = Front(doc[j].path)
  BY PathIs DEF IsPrinting, Printing, Provision
<1>2. Len(doc[j].path) \in Nat /\ (j = Root => Len(doc[j].path) = 0)
  BY <1>1, LenProperties, EmptySeq
<1>3. ASSUME j # Root
      PROVE  /\ Len(doc[j].path) > 0
             /\ Len(doc[doc[j].above].path) = Len(doc[j].path) - 1
             /\ Begins(doc[doc[j].above].path, doc[j].path)
  <2> DEFINE s == doc[j].path
  <2>1. /\ Front(s) \in Seq(Segment) /\ Len(Front(s)) = Len(s) - 1
        /\ \A k \in 1..(Len(s) - 1) : Front(s)[k] = s[k]
        /\ Len(s) \in Nat \ {0}
    BY <1>1, <1>3, FrontIs
  <2>2. Begins(Front(s), s)
    <3> HIDE DEF s
    <3> QED BY <2>1 DEF Begins
  <2> HIDE DEF s
  <2>3. Len(s) > 0
    BY <2>1
  <2> QED BY <1>1, <1>3, <2>1, <2>2, <2>3 DEF s
<1> QED BY <1>1, <1>2, <1>3

(* A provision has one above it at each length of its path.                *)
LEMMA HeadIsThere ==
  ASSUME NEW doc, IsPrinting(doc), NEW j \in DOMAIN doc, NEW m \in 0..Len(doc[j].path)
  PROVE  \E k \in DOMAIN doc : Len(doc[k].path) = m /\ Begins(doc[k].path, doc[j].path)
<1> DEFINE P(i) == \E k \in DOMAIN doc : Len(doc[k].path) = m /\ Begins(doc[k].path, doc[i].path)
           wrong == {i \in DOMAIN doc : m <= Len(doc[i].path) /\ ~P(i)}
<1>1. wrong = {}
  <2> SUFFICES ASSUME wrong # {} PROVE FALSE
    OBVIOUS
  <2>1. PICK i \in wrong : \A x \in wrong : i <= x
    <3>1. wrong \in SUBSET Nat
      BY AboveIs
    <3> HIDE DEF wrong
    <3> QED BY <3>1, LeastMember
  <2>2. i \in DOMAIN doc /\ m <= Len(doc[i].path) /\ ~P(i)
    <3> HIDE DEF P
    <3> QED BY <2>1
  <2> DEFINE n == Len(doc[i].path)
  <2>3. n \in Nat /\ m \in Nat /\ i \in Nat /\ n >= m
    <3>1. n \in Nat /\ i \in Nat /\ Len(doc[j].path) \in Nat
      BY <2>2, AboveIs
    <3>2. m \in Nat
      BY <3>1
    <3> QED BY <2>2, <3>1, <3>2
  <2>4. CASE n = m
    <3>1. Begins(doc[i].path, doc[i].path)
      BY <2>3 DEF Begins
    <3> QED BY <2>2, <2>4, <3>1
  <2>5. CASE n > m
    <3>1. i # Root
      BY <2>2, <2>3, <2>5, AboveIs
    <3> DEFINE h == doc[i].above
    <3>2. h \in DOMAIN doc /\ h < i /\ h \in Nat /\ Len(doc[h].path) = n - 1
          /\ Begins(doc[h].path, doc[i].path)
      BY <2>2, <3>1, AboveIs
    <3>3. m <= Len(doc[h].path)
      BY <2>3, <2>5, <3>2
    <3>4. h \notin wrong
      <4> HIDE DEF wrong, h
      <4> QED BY <2>1, <2>3, <3>2
    <3>5. P(h)
      <4> HIDE DEF P, h
      <4> QED BY <3>2, <3>3, <3>4
    <3>6. PICK k \in DOMAIN doc : Len(doc[k].path) = m /\ Begins(doc[k].path, doc[h].path)
      BY <3>5
    <3>7. Begins(doc[k].path, doc[i].path)
      <4> HIDE DEF h, n
      <4> QED BY <2>3, <3>2, <3>3, <3>6 DEF Begins
    <3> QED BY <2>2, <3>6, <3>7
  <2> QED BY <2>3, <2>4, <2>5
<1>2. Len(doc[j].path) \in Nat
  BY AboveIs
<1>3. m <= Len(doc[j].path)
  BY <1>2
<1> QED BY <1>1, <1>3

(* What is at or under a provision.                                        *)
LEMMA UnderIs ==
  ASSUME NEW doc, IsPrinting(doc), NEW i \in DOMAIN doc
  PROVE  /\ Under(doc, i) \subseteq DOMAIN doc
         /\ \A j \in DOMAIN doc :
              j \in Under(doc, i) <=> j = i \/ (j > i /\ doc[j].above \in Under(doc, i))
<1> DEFINE D == DOMAIN doc
           stops == {j \in D : ~(j > i)}
           start == [j \in stops |-> j = i]
           next == [j \in D |-> [b \in BOOLEAN |-> b]]
           up == [j \in D |-> doc[j].above]
           rec(f) == f = [j \in D |-> j = i \/ (j > i /\ f[doc[j].above])]
           under == CHOOSE f : rec(f)
<1>1. \A j \in D : j \in Nat \ {0} /\ (j > i => j # Root /\ doc[j].above \in D /\ doc[j].above < j)
  <2> SUFFICES ASSUME NEW j \in D
               PROVE  /\ j \in Nat \ {0}
                      /\ j > i => j # Root /\ doc[j].above \in D /\ doc[j].above < j
    OBVIOUS
  <2>1. j \in Nat \ {0} /\ i \in Nat \ {0}
    BY AboveIs
  <2>2. j > i => j # Root
    BY <2>1 DEF Root
  <2> QED BY <2>1, <2>2, AboveIs
<1>2. CanTell(D, BOOLEAN, stops, start, up, next)
  <2>1. D \in SUBSET Nat /\ stops \in SUBSET D
    BY <1>1
  <2>2. \A j \in D \ stops : up[j] \in D /\ up[j] < j
    BY <1>1
  <2>3. start \in [stops -> BOOLEAN] /\ next \in [D -> [BOOLEAN -> BOOLEAN]]
    <3>1. \A j \in stops : (j = i) \in BOOLEAN
      OBVIOUS
    <3>2. start \in [stops -> BOOLEAN]
      BY <3>1, Zenon
    <3>3. [b \in BOOLEAN |-> b] \in [BOOLEAN -> BOOLEAN]
      BY Zenon
    <3>4. next \in [D -> [BOOLEAN -> BOOLEAN]]
      BY <3>3, Zenon
    <3> QED BY <3>2, <3>4
  <2> HIDE DEF D, stops, up, start, next
  <2> QED BY <2>1, <2>2, <2>3 DEF CanTell, Descends
<1>3. PICK f : Told(D, BOOLEAN, stops, start, up, next, f)
  <2> HIDE DEF D, stops, up, start, next
  <2> QED BY <1>2, Downwards
<1>4. f \in [D -> BOOLEAN] /\ \A j \in D : j > i => f[j] = f[doc[j].above]
  <2>1. f \in [D -> BOOLEAN]
    BY <1>3 DEF Told
  <2>2. ASSUME NEW j \in D, j > i PROVE f[j] = f[doc[j].above]
    <3>1. j \in D \ stops /\ up[j] = doc[j].above /\ doc[j].above \in D
      BY <1>1, <2>2
    <3>2. f[j] = next[j][f[up[j]]]
      <4> HIDE DEF D, stops, up, start, next
      <4> QED BY <1>3, <3>1 DEF Told
    <3>3. f[doc[j].above] \in BOOLEAN
      BY <2>1, <3>1
    <3>4. next[j][f[doc[j].above]] = f[doc[j].above]
      <4> DEFINE v == f[doc[j].above]
      <4>1. v \in BOOLEAN
        BY <3>3
      <4> HIDE DEF v
      <4>2. next[j][v] = v
        BY <2>2, <4>1, Zenon
      <4> QED BY <4>2 DEF v
    <3> HIDE DEF next, up
    <3> QED BY <3>1, <3>2, <3>4
  <2> QED BY <2>1, <2>2
<1>5. \A j \in D : ~(j > i) => f[j] = (j = i)
  <2> SUFFICES ASSUME NEW j \in D, ~(j > i) PROVE f[j] = (j = i)
    OBVIOUS
  <2>1. j \in stops
    OBVIOUS
  <2>2. f[j] = start[j]
    <3> HIDE DEF D, stops, up, start, next
    <3> QED BY <1>3, <2>1 DEF Told
  <2>3. start[j] = (j = i)
    BY <2>1, Zenon
  <2> HIDE DEF start
  <2> QED BY <2>2, <2>3, Zenon
<1>6. rec(f)
  <2> DEFINE g == [j \in D |-> j = i \/ (j > i /\ f[doc[j].above])]
  <2>1. ASSUME NEW j \in D PROVE f[j] = (j = i \/ (j > i /\ f[doc[j].above]))
    <3>1. f[j] \in BOOLEAN
      BY <1>4
    <3>2. CASE j > i
      <4>1. j # i
        BY <1>1, <3>2
      <4>2. f[j] = f[doc[j].above]
        BY <1>4, <3>2
      <4> QED BY <3>1, <3>2, <4>1, <4>2, Zenon
    <3>3. CASE ~(j > i)
      <4>1. f[j] = (j = i)
        BY <1>5, <3>3
      <4> QED BY <3>1, <3>3, <4>1, Zenon
    <3> QED BY <3>2, <3>3
  <2>2. f = [j \in D |-> f[j]]
    BY <1>4
  <2>3. f = g
    <3> HIDE DEF D
    <3> QED BY <2>1, <2>2, Zenon
  <2> QED BY <2>3
<1>7. rec(under)
  <2> HIDE DEF rec
  <2> QED BY <1>6
<1>8. Under(doc, i) = {j \in D : under[j]}
  BY Zenon DEF Under
<1> HIDE DEF under
<1>9. \A j \in D : under[j] <=> j = i \/ (j > i /\ under[doc[j].above])
  <2> DEFINE g == [j \in D |-> j = i \/ (j > i /\ under[doc[j].above])]
  <2>1. under = g
    BY <1>7
  <2>2. \A j \in D : g[j] <=> j = i \/ (j > i /\ under[doc[j].above])
    BY Zenon
  <2> HIDE DEF g
  <2> QED BY <2>1, <2>2, Zenon
<1> HIDE DEF D
<1>10. \A j \in D : j > i => doc[j].above \in D
  BY <1>1
<1>11. ASSUME NEW j \in D PROVE j \in Under(doc, i) <=> j = i \/ (j > i /\ doc[j].above \in Under(doc, i))
  <2>1. j \in Under(doc, i) <=> under[j]
    BY <1>8
  <2>2. j > i => (doc[j].above \in Under(doc, i) <=> under[doc[j].above])
    BY <1>8, <1>10
  <2> QED BY <1>9, <2>1, <2>2, Zenon
<1>12. Under(doc, i) \subseteq D
  BY <1>8
<1> QED BY <1>11, <1>12 DEF D

(* Its path begins with the provision's.                                   *)
LEMMA UnderBegins ==
  ASSUME NEW doc, IsPrinting(doc), NEW i \in DOMAIN doc, NEW j \in Under(doc, i)
  PROVE  Begins(doc[i].path, doc[j].path)
<1> DEFINE wrong == {k \in Under(doc, i) : ~Begins(doc[i].path, doc[k].path)}
<1>1. wrong = {}
  <2> SUFFICES ASSUME wrong # {} PROVE FALSE
    OBVIOUS
  <2>1. PICK k \in wrong : \A x \in wrong : k <= x
    <3>1. wrong \in SUBSET Nat
      BY UnderIs, AboveIs
    <3> HIDE DEF wrong
    <3> QED BY <3>1, LeastMember
  <2>2. k \in DOMAIN doc /\ k \in Nat \ {0} /\ i \in Nat \ {0} /\ ~Begins(doc[i].path, doc[k].path)
    BY UnderIs, AboveIs
  <2>3. CASE k = i
    <3>1. Begins(doc[i].path, doc[i].path)
      BY AboveIs DEF Begins
    <3> QED BY <2>2, <2>3, <3>1
  <2>4. CASE k # i
    <3> DEFINE h == doc[k].above
    <3>1. k > i /\ h \in Under(doc, i)
      BY <2>4, UnderIs
    <3>2. k # Root
      BY <2>2, <3>1 DEF Root
    <3>3. /\ h \in DOMAIN doc /\ h < k /\ h \in Nat
          /\ Begins(doc[h].path, doc[k].path)
      BY <2>2, <3>2, AboveIs
    <3>4. Begins(doc[i].path, doc[h].path)
      <4>1. h \notin wrong
        <5> HIDE DEF wrong, h
        <5> QED BY <2>1, <2>2, <3>3
      <4> HIDE DEF h
      <4> QED BY <3>1, <4>1
    <3>5. Len(doc[i].path) \in Nat /\ Len(doc[h].path) \in Nat /\ Len(doc[k].path) \in Nat
      BY <2>2, <3>3, AboveIs
    <3>6. Begins(doc[i].path, doc[k].path)
      <4> HIDE DEF h
      <4> QED BY <3>3, <3>4, <3>5 DEF Begins
    <3> QED BY <2>2, <3>6
  <2> QED BY <2>3, <2>4
<1> QED BY <1>1

-----------------------------------------------------------------------------
(* What an amendment keeps.                                                *)

(* A printing whose provisions are records.                                *)
IsDraft(doc) == IsPrinting(doc) /\ doc \in [DOMAIN doc -> Provision]

(* Two that share a path in the later printing shared one in the earlier.  *)
Keeps(old, new) ==
  \A i, j \in DOMAIN old \cap DOMAIN new :
    new[i].path = new[j].path => old[i].path = old[j].path

(* Nothing is held by another than before.                                 *)
AboveKept(old, new) ==
  \A i \in DOMAIN old \cap DOMAIN new : new[i].above = old[i].above

(* What a draft holds of a provision.                                      *)
LEMMA DraftOf ==
  ASSUME NEW doc, IsDraft(doc), NEW j \in DOMAIN doc
  PROVE  /\ doc[j] \in Provision /\ doc[j].path \in Path /\ doc[j].above \in Nat
         /\ doc[j].words \in 0..1 /\ j \in Nat \ {0}
BY DEF IsDraft, IsPrinting, Printing, Provision

(* A provision reworded leaves every path as it was.                       *)
LEMMA RewordKeeps ==
  ASSUME NEW doc, IsDraft(doc), NEW i \in DOMAIN doc
  PROVE  LET new == [doc EXCEPT ![i].words = 1 - @]
         IN /\ IsDraft(new) /\ DOMAIN new = DOMAIN doc
            /\ Keeps(doc, new) /\ AboveKept(doc, new)
<1> DEFINE new == [doc EXCEPT ![i].words = 1 - @]
<1>1. DOMAIN new = DOMAIN doc
  OBVIOUS
<1>2. ASSUME NEW j \in DOMAIN doc
      PROVE  /\ new[j] \in Provision /\ new[j].path = doc[j].path /\ new[j].above = doc[j].above
  <2>1. doc[j] \in Provision /\ doc[j].words \in 0..1
    BY DraftOf
  <2>2. CASE j = i
    <3>1. new[j] = [doc[j] EXCEPT !.words = 1 - doc[j].words]
      BY <2>2 DEF IsDraft
    <3>2. 1 - doc[j].words \in 0..1
      BY <2>1
    <3> QED BY <2>1, <3>1, <3>2 DEF Provision
  <2>3. CASE j # i
    <3>1. new[j] = doc[j]
      BY <2>3 DEF IsDraft
    <3> QED BY <2>1, <3>1
  <2> QED BY <2>2, <2>3
<1>3. new \in [DOMAIN doc -> Provision]
  <2>1. new = [j \in DOMAIN doc |-> new[j]]
    BY DEF IsDraft
  <2> HIDE DEF new
  <2> QED BY <1>2, <2>1
<1> HIDE DEF new
<1>4. IsDraft(new)
  BY <1>1, <1>2, <1>3 DEF IsDraft, IsPrinting, Printing
<1>5. Keeps(doc, new) /\ AboveKept(doc, new)
  BY <1>1, <1>2 DEF Keeps, AboveKept
<1> QED BY <1>1, <1>4, <1>5 DEF new

(* A provision struck takes all below it along.                            *)
LEMMA StrikeKeeps ==
  ASSUME NEW doc, IsDraft(doc), NEW i \in DOMAIN doc, i # Root
  PROVE  LET new == Restrict(doc, DOMAIN doc \ Under(doc, i))
         IN /\ IsDraft(new) /\ DOMAIN new \subseteq DOMAIN doc
            /\ Keeps(doc, new) /\ AboveKept(doc, new)
<1> DEFINE D == DOMAIN doc \ Under(doc, i)
           new == Restrict(doc, D)
<1>0. IsPrinting(doc)
  BY DEF IsDraft
<1>1. DOMAIN new = D /\ \A j \in D : new[j] = doc[j]
  BY DEF Restrict
<1>2. new \in [D -> Provision]
  <2>1. \A j \in D : doc[j] \in Provision
    BY DraftOf
  <2> QED BY <2>1 DEF Restrict
<1>3. Root \in D
  <2>1. Root \in DOMAIN doc /\ i \in Nat \ {0} /\ Root \in Nat \ {0}
    BY <1>0, AboveIs DEF IsPrinting, Printing, Root
  <2>2. ~(Root > i)
    BY <2>1 DEF Root
  <2> QED BY <1>0, <2>1, <2>2, UnderIs
<1>4. ASSUME NEW j \in D, j # Root PROVE doc[j].above \in D
  <2>1. j \in DOMAIN doc /\ doc[j].above \in DOMAIN doc /\ doc[j].above < j /\ j \in Nat
    BY <1>0, <1>4, AboveIs
  <2>2. ASSUME doc[j].above \in Under(doc, i) PROVE FALSE
    <3>1. doc[j].above = i \/ doc[j].above > i
      BY <1>0, <2>1, <2>2, UnderIs
    <3>2. doc[j].above \in Nat /\ i \in Nat
      BY <1>0, <2>1, AboveIs
    <3>3. j > i
      BY <2>1, <3>1, <3>2
    <3> QED BY <1>0, <2>1, <2>2, <3>3, UnderIs
  <2> QED BY <2>1, <2>2
<1>5. IsFiniteSet(D)
  BY <1>0, FS_Subset DEF IsPrinting
<1> HIDE DEF new
<1>6. IsDraft(new)
  <2>1. \A j \in D : /\ j \in Nat \ {0} /\ doc[j] \in Provision
                     /\ j # Root => /\ doc[j].path # <<>> /\ doc[j].above < j
                                    /\ doc[doc[j].above].path = Front(doc[j].path)
    BY <1>0, DraftOf, AboveIs
  <2>2. doc[Root].path = <<>> /\ doc[Root].above = 0
    BY <1>0 DEF IsPrinting, Printing
  <2> HIDE DEF D
  <2>3. Printing(new)
    BY <1>1, <1>3, <1>4, <2>1, <2>2 DEF Printing
  <2> QED BY <1>1, <1>2, <1>5, <2>3 DEF IsDraft, IsPrinting
<1>7. Keeps(doc, new) /\ AboveKept(doc, new)
  BY <1>1 DEF Keeps, AboveKept
<1> QED BY <1>1, <1>6, <1>7 DEF new

(* A provision added below another.                                        *)
Inserted(doc, i, path, p) ==
  [j \in DOMAIN doc \cup {i} |->
     IF j \in DOMAIN doc THEN doc[j] ELSE [path |-> path, above |-> p, words |-> 0]]

(* A provision inserted is the last of a tree.                             *)
LEMMA InsertKeeps ==
  ASSUME NEW doc, IsDraft(doc), NEW i \in Nat, \A j \in DOMAIN doc : j < i,
         NEW p \in DOMAIN doc, NEW s \in Segment, Len(Append(doc[p].path, s)) <= Depth
  PROVE  LET new == Inserted(doc, i, Append(doc[p].path, s), p)
         IN /\ IsDraft(new) /\ DOMAIN new = DOMAIN doc \cup {i}
            /\ Keeps(doc, new) /\ AboveKept(doc, new)
            /\ \A j \in DOMAIN doc : new[j] = doc[j]
            /\ new[i].path = Append(doc[p].path, s)
<1> DEFINE path == Append(doc[p].path, s)
           one == [path |-> path, above |-> p, words |-> 0]
           D == DOMAIN doc \cup {i}
           new == Inserted(doc, i, path, p)
<1>0. IsPrinting(doc) /\ i \notin DOMAIN doc /\ p \in Nat /\ p < i
  BY DraftOf DEF IsDraft
<1>1. /\ path \in Path /\ path # <<>> /\ Front(path) = doc[p].path
  <2> DEFINE q == doc[p].path
  <2>1. q \in Seq(Segment) /\ Len(q) \in Nat
    BY <1>0, AboveIs
  <2> HIDE DEF q
  <2>2. /\ Append(q, s) \in Seq(Segment) /\ Append(q, s) # <<>> /\ Len(Append(q, s)) = Len(q) + 1
        /\ \A k \in 1..Len(q) : Append(q, s)[k] = q[k]
    BY <2>1, AppendProperties
  <2> DEFINE a == Append(q, s)
  <2> HIDE DEF a
  <2>3. a \in Seq(Segment) /\ a # <<>> /\ Len(a) = Len(q) + 1 /\ \A k \in 1..Len(q) : a[k] = q[k]
    BY <2>2 DEF a
  <2>4. /\ Front(a) \in Seq(Segment) /\ Len(Front(a)) = Len(q)
        /\ \A k \in 1..Len(q) : Front(a)[k] = q[k]
    BY <2>1, <2>3, FrontIs
  <2>5. Front(a) = q
    BY <2>1, <2>4, SeqEqual
  <2>6. a \in Path
    BY <2>3, PathIs DEF a, q
  <2> QED BY <2>3, <2>5, <2>6 DEF a, q
<1>2. one \in Provision
  BY <1>0, <1>1 DEF Provision
<1> HIDE DEF path
<1>3. DOMAIN new = D /\ new[i] = one /\ \A j \in DOMAIN doc : new[j] = doc[j]
  BY <1>0 DEF Inserted
<1>4. \A j \in DOMAIN doc : doc[j] \in Provision
  BY DraftOf
<1>5. new \in [D -> Provision]
  BY <1>2, <1>4 DEF Inserted
<1>6. IsFiniteSet(D)
  BY <1>0, FS_AddElement DEF IsPrinting
<1> HIDE DEF new
<1>7. Printing(new)
  <2>1. /\ Root \in DOMAIN doc /\ doc[Root].path = <<>> /\ doc[Root].above = 0
        /\ \A j \in DOMAIN doc :
             /\ j \in Nat \ {0}
             /\ j # Root => /\ doc[j].path # <<>>
                            /\ doc[j].above \in DOMAIN doc /\ doc[j].above < j
                            /\ doc[doc[j].above].path = Front(doc[j].path)
    BY <1>0 DEF IsPrinting, Printing
  <2>2. one.path = path /\ one.above = p
    OBVIOUS
  <2> HIDE DEF one
  <2>3. Root \in DOMAIN new /\ new[Root].path = <<>> /\ new[Root].above = 0
    BY <1>3, <2>1
  <2>4. ASSUME NEW j \in DOMAIN new
        PROVE  /\ j \in Nat \ {0} /\ new[j] \in Provision
               /\ j # Root => /\ new[j].path # <<>>
                              /\ new[j].above \in DOMAIN new /\ new[j].above < j
                              /\ new[new[j].above].path = Front(new[j].path)
    <3>1. CASE j \in DOMAIN doc
      BY <1>3, <1>4, <2>1, <3>1
    <3>2. CASE j = i
      <4>1. i \in Nat \ {0}
        BY <1>0
      <4>2. new[j] = one /\ new[p] = doc[p] /\ p \in DOMAIN new
        BY <1>3, <3>2
      <4> QED BY <1>0, <1>1, <1>2, <2>2, <3>2, <4>1, <4>2
    <3> QED BY <1>3, <3>1, <3>2
  <2> QED BY <2>3, <2>4 DEF Printing
<1>8. IsDraft(new)
  BY <1>3, <1>5, <1>6, <1>7 DEF IsDraft, IsPrinting
<1>9. Keeps(doc, new) /\ AboveKept(doc, new)
  <2>1. DOMAIN doc \cap DOMAIN new = DOMAIN doc
    BY <1>3
  <2> QED BY <1>3, <2>1 DEF Keeps, AboveKept
<1>10. new[i].path = path
  BY <1>3
<1> QED BY <1>3, <1>8, <1>9, <1>10 DEF new, path

(* The provisions at and under one, with its number changed.               *)
Renamed(doc, i, path, n) ==
  [j \in DOMAIN doc |->
     IF j \in Under(doc, i) THEN [doc[j] EXCEPT !.path = path \o Below(@, n)]
     ELSE doc[j]]

(* A provision renumbered, to a path nothing has, takes what is below it   *)
(* to paths nothing has.                                                   *)
LEMMA RenumberKeeps ==
  ASSUME NEW doc, IsDraft(doc), NEW i \in DOMAIN doc, i # Root, NEW s \in Segment,
         \A j \in DOMAIN doc : doc[j].path # Append(Front(doc[i].path), s)
  PROVE  LET new == Renamed(doc, i, Append(Front(doc[i].path), s), Len(doc[i].path))
         IN /\ IsDraft(new) /\ DOMAIN new = DOMAIN doc
            /\ Keeps(doc, new) /\ AboveKept(doc, new)
<1> DEFINE p == doc[i].path
           n == Len(p)
           path == Append(Front(p), s)
           U == Under(doc, i)
           new == Renamed(doc, i, path, n)
<1>0. IsPrinting(doc) /\ p \in Seq(Segment) /\ p # <<>> /\ n \in Nat \ {0}
  <2>1. IsPrinting(doc)
    BY DEF IsDraft
  <2>2. p \in Seq(Segment) /\ p # <<>>
    BY <2>1, AboveIs
  <2> HIDE DEF p
  <2> QED BY <2>1, <2>2, FrontIs
<1>1. /\ U \subseteq DOMAIN doc /\ i \in U
      /\ \A j \in DOMAIN doc : j \in U => Begins(p, doc[j].path)
  BY <1>0, UnderIs, UnderBegins
<1>2. ASSUME NEW j \in DOMAIN doc \ {Root} PROVE doc[j].above \in U => j \in U
  <2> SUFFICES ASSUME doc[j].above \in U PROVE j \in U
    OBVIOUS
  <2>1. j \in Nat /\ doc[j].above \in DOMAIN doc /\ doc[j].above < j
    BY <1>0, AboveIs
  <2>2. doc[j].above = i \/ doc[j].above > i
    BY <1>0, <2>1, UnderIs
  <2>3. i \in Nat /\ doc[j].above \in Nat
    BY <1>0, <2>1, AboveIs
  <2>4. j > i
    BY <2>1, <2>2, <2>3
  <2> QED BY <1>0, <2>4, UnderIs
<1>3. ASSUME NEW j \in U, j # i PROVE doc[j].above \in U
  BY <1>0, <1>1, <1>3, UnderIs
<1> DEFINE to(q) == CarriedTo(p, s, q)
<1>4. ASSUME NEW j \in DOMAIN doc
      PROVE  /\ new[j].path = IF j \in U THEN to(doc[j].path) ELSE doc[j].path
             /\ new[j].above = doc[j].above /\ new[j].words = doc[j].words
             /\ new[j] = [path |-> new[j].path, above |-> new[j].above, words |-> new[j].words]
  <2>1. doc[j] \in Provision
    BY DraftOf
  <2>2. new[j] = IF j \in U THEN [doc[j] EXCEPT !.path = to(doc[j].path)] ELSE doc[j]
    BY DEF Renamed, CarriedTo
  <2> HIDE DEF new, to, U
  <2> QED BY <2>1, <2>2 DEF Provision
<1>5. DOMAIN new = DOMAIN doc /\ new = [j \in DOMAIN doc |-> new[j]]
  BY DEF Renamed
<1> HIDE DEF new, U
<1>6. ASSUME NEW j \in U
      PROVE  /\ new[j].path \in Seq(Segment) /\ Len(new[j].path) = Len(doc[j].path)
             /\ n <= Len(doc[j].path) /\ Len(doc[j].path) \in Nat
             /\ \A k \in 1..Len(doc[j].path) :
                  /\ k = n => new[j].path[k] = s /\ doc[j].path[k] = p[n]
                  /\ k # n => new[j].path[k] = doc[j].path[k]
             /\ \A k \in 1..n : doc[j].path[k] = p[k]
  <2> DEFINE q == doc[j].path
  <2>1. j \in DOMAIN doc /\ q \in Seq(Segment) /\ Begins(p, q) /\ Len(q) \in Nat
    BY <1>0, <1>1, AboveIs
  <2>2. new[j].path = to(q)
    BY <1>4, <2>1
  <2> HIDE DEF q, p
  <2>3. OneSegment(p, s, q, to(q))
    BY <1>0, <2>1, CarriedIs
  <2>4. n <= Len(q) /\ \A k \in 1..n : q[k] = p[k]
    BY <2>1 DEF Begins
  <2> HIDE DEF to, n
  <2>5. /\ to(q) \in Seq(Segment) /\ Len(to(q)) = Len(q)
        /\ \A k \in 1..Len(q) : (k = n => to(q)[k] = s) /\ (k # n => to(q)[k] = q[k])
    BY <2>3 DEF OneSegment, n
  <2>6. n \in 1..n
    BY <1>0
  <2>7. \A k \in 1..Len(q) : k = n => q[k] = p[n]
    BY <2>4, <2>6
  <2> QED BY <2>1, <2>2, <2>4, <2>5, <2>7 DEF q
<1> HIDE DEF to
<1>7. ASSUME NEW j \in DOMAIN doc
      PROVE  /\ new[j].path \in Seq(Segment) /\ Len(new[j].path) = Len(doc[j].path)
             /\ Len(doc[j].path) \in Nat /\ new[j].path \in Path
  <2>1. doc[j].path \in Path /\ doc[j].path \in Seq(Segment) /\ Len(doc[j].path) \in Nat
    BY <1>0, DraftOf, AboveIs
  <2>2. new[j].path \in Seq(Segment) /\ Len(new[j].path) = Len(doc[j].path)
    BY <1>4, <1>6, <2>1
  <2> QED BY <2>1, <2>2, PathIs
<1>8. new \in [DOMAIN doc -> Provision]
  <2>1. ASSUME NEW j \in DOMAIN doc PROVE new[j] \in Provision
    <3>1. doc[j].above \in Nat /\ doc[j].words \in 0..1
      BY DraftOf
    <3>2. new[j].path \in Path /\ new[j].above \in Nat /\ new[j].words \in 0..1
      BY <1>4, <1>7, <3>1
    <3>3. new[j] = [path |-> new[j].path, above |-> new[j].above, words |-> new[j].words]
      BY <1>4
    <3>4. [path |-> new[j].path, above |-> new[j].above, words |-> new[j].words] \in Provision
      BY <3>2 DEF Provision
    <3> QED BY ONLY <3>3, <3>4
  <2> QED BY <1>5, <2>1
<1>9. ASSUME NEW j \in DOMAIN doc, j # Root
      PROVE  new[doc[j].above].path = Front(new[j].path) /\ new[j].path # <<>>
  <2> DEFINE h == doc[j].above
             a == doc[h].path  b == new[h].path
             q == doc[j].path  r == new[j].path
             m == Len(q)
  <2>1. h \in DOMAIN doc /\ m > 0 /\ Len(a) = m - 1 /\ Begins(a, q) /\ m \in Nat
    BY <1>0, <1>9, AboveIs
  <2>2. r \in Seq(Segment) /\ Len(r) = m /\ b \in Seq(Segment) /\ Len(b) = m - 1
    BY <1>7, <2>1
  <2>3. r # <<>>
    BY <2>1, <2>2, EmptySeq
  <2>4. ASSUME NEW k \in 1..m - 1 PROVE b[k] = r[k]
    <3>1. k \in 1..m /\ a[k] = q[k] /\ k \in 1..Len(a)
      BY <2>1 DEF Begins
    <3>2. CASE j \notin U
      <4>1. h \notin U
        BY <1>2, <1>9, <3>2
      <4> QED BY <1>4, <2>1, <3>1, <3>2, <4>1
    <3>3. CASE j \in U /\ j # i
      <4>1. h \in U
        BY <1>3, <3>3
      <4>2. /\ k = n => r[k] = s
            /\ k # n => r[k] = q[k]
        BY <1>6, <3>1, <3>3
      <4>3. /\ k = n => b[k] = s
            /\ k # n => b[k] = a[k]
        <5> HIDE DEF h
        <5> QED BY <1>6, <2>1, <3>1, <4>1
      <4> QED BY <3>1, <4>2, <4>3
    <3>4. CASE j = i
      <4>1. h \notin U
        <5>1. h < i /\ h \in Nat /\ i \in Nat
          BY <1>0, <2>1, <1>9, <3>4, AboveIs
        <5>2. ~(h = i \/ h > i)
          BY <5>1
        <5> QED BY <1>0, <2>1, <5>2, UnderIs DEF U
      <4>2. b = a
        BY <1>4, <2>1, <4>1
      <4>3. m = n /\ k # n
        BY <2>1, <3>4
      <4>4. r[k] = q[k]
        BY <1>1, <1>6, <3>1, <3>4, <4>3
      <4> QED BY <3>1, <4>2, <4>4
    <3> QED BY <3>2, <3>3, <3>4
  <2>5. /\ Front(r) \in Seq(Segment) /\ Len(Front(r)) = m - 1
        /\ \A k \in 1..(m - 1) : Front(r)[k] = r[k]
    <3> HIDE DEF r, m
    <3> QED BY <2>2, <2>3, FrontIs
  <2> HIDE DEF r, b, m
  <2>6. b = Front(r)
    BY <2>2, <2>4, <2>5, SeqEqual
  <2> QED BY <2>3, <2>6 DEF r, b
<1>10. IsDraft(new)
  <2>1. /\ Root \in DOMAIN new /\ new[Root].path = <<>> /\ new[Root].above = 0
    <3>1. Root \in DOMAIN doc /\ doc[Root].path = <<>> /\ doc[Root].above = 0
      BY <1>0 DEF IsPrinting, Printing
    <3>2. new[Root].path \in Seq(Segment) /\ Len(new[Root].path) = 0
      BY <1>0, <1>7, <3>1, AboveIs
    <3> QED BY <1>4, <1>5, <3>1, <3>2, EmptySeq
  <2>2. \A j \in DOMAIN doc : /\ j \in Nat \ {0} /\ new[j] \in Provision
                              /\ j # Root => doc[j].above \in DOMAIN doc /\ doc[j].above < j
    BY <1>0, <1>8, AboveIs
  <2>3. Printing(new)
    BY <1>4, <1>5, <1>9, <2>1, <2>2 DEF Printing
  <2> QED BY <1>0, <1>5, <1>8, <2>3 DEF IsDraft, IsPrinting
<1>11. path \in Seq(Segment) /\ Len(path) = n /\ path[n] = s /\ \A k \in 1..n - 1 : path[k] = p[k]
  <2> DEFINE f == Front(p)
  <2> HIDE DEF p
  <2>1. f \in Seq(Segment) /\ Len(f) = n - 1 /\ \A k \in 1..n - 1 : f[k] = p[k]
    BY <1>0, FrontIs
  <2> HIDE DEF f, n
  <2>2. /\ Append(f, s) \in Seq(Segment) /\ Len(Append(f, s)) = Len(f) + 1
        /\ \A k \in 1..Len(f) : Append(f, s)[k] = f[k]
        /\ Append(f, s)[Len(f) + 1] = s
    BY <2>1, AppendProperties
  <2>3. Len(f) + 1 = n
    BY <1>0, <2>1
  <2> QED BY <2>1, <2>2, <2>3 DEF f
(* Nothing else is at or under where it goes. *)
<1>12. ASSUME NEW j \in DOMAIN doc, NEW k \in U, doc[j].path = new[k].path
       PROVE  FALSE
  <2> DEFINE q == doc[j].path
  <2>1. n \in 0..Len(q) /\ \A x \in 1..n : q[x] = path[x]
    <3>1. Len(q) = Len(doc[k].path) /\ n <= Len(q) /\ Len(q) \in Nat
      BY <1>6, <1>12
    <3>2. \A x \in 1..n : x \in 1..Len(q)
      BY <1>0, <3>1
    <3> HIDE DEF n, path
    <3>3. ASSUME NEW x \in 1..n PROVE q[x] = path[x]
      <4>1. x \in 1..Len(doc[k].path) /\ q[x] = new[k].path[x]
        BY <1>12, <3>1, <3>2
      <4>2. x = n => q[x] = s
        BY <1>6, <4>1
      <4>3. x # n => x \in 1..n - 1 /\ q[x] = doc[k].path[x] /\ doc[k].path[x] = p[x]
        BY <1>0, <1>6, <4>1
      <4> QED BY <1>11, <4>2, <4>3
    <3> QED BY <1>0, <3>1, <3>3
  <2>2. PICK x \in DOMAIN doc : Len(doc[x].path) = n /\ Begins(doc[x].path, q)
    <3> HIDE DEF n, q
    <3> QED BY <1>0, <2>1, HeadIsThere DEF q
  <2>3. doc[x].path = path
    <3> DEFINE t == doc[x].path
    <3>1. t \in Seq(Segment) /\ Len(t) = n /\ Begins(t, q)
      BY <1>0, <2>2, AboveIs
    <3> HIDE DEF t, path, n, q
    <3>2. \A y \in 1..n : t[y] = path[y]
      BY <2>1, <3>1 DEF Begins
    <3>3. t = path
      BY <1>11, <3>1, <3>2, SeqEqual
    <3> QED BY <3>3 DEF t
  <2> QED BY <2>3
<1>13. ASSUME NEW j \in DOMAIN doc, NEW k \in DOMAIN doc, new[j].path = new[k].path
       PROVE  doc[j].path = doc[k].path
  <2>1. CASE j \notin U /\ k \notin U
    BY <1>4, <1>13, <2>1
  <2>2. CASE j \notin U /\ k \in U
    BY <1>4, <1>12, <1>13, <2>2
  <2>3. CASE j \in U /\ k \notin U
    BY <1>4, <1>12, <1>13, <2>3
  <2>4. CASE j \in U /\ k \in U
    <3> DEFINE q == doc[j].path  r == doc[k].path
    <3>1. q \in Seq(Segment) /\ r \in Seq(Segment) /\ Len(q) = Len(r)
      BY <1>0, <1>7, <1>13, AboveIs
    <3>2. ASSUME NEW x \in 1..Len(q) PROVE q[x] = r[x]
      <4>1. /\ x = n => q[x] = p[n] /\ r[x] = p[n]
            /\ x # n => new[j].path[x] = q[x] /\ new[k].path[x] = r[x]
        BY <1>6, <2>4, <3>1
      <4> QED BY <1>13, <4>1
    <3> HIDE DEF q, r
    <3>3. q = r
      BY <3>1, <3>2, SeqEqual
    <3> QED BY <3>3 DEF q, r
  <2> QED BY <2>1, <2>2, <2>3, <2>4
<1>14. Keeps(doc, new) /\ AboveKept(doc, new)
  BY <1>4, <1>5, <1>13 DEF Keeps, AboveKept
<1> QED BY <1>5, <1>10, <1>14 DEF new

-----------------------------------------------------------------------------
(* Paths, and how renumberings carry them.                                 *)

(* A path without its last segment, and its last segment.                  *)
LEMMA LastIs ==
  ASSUME NEW p \in Seq(Segment), p # <<>>
  PROVE  Last(p) = p[Len(p)] /\ Last(p) \in Segment /\ Append(Front(p), Last(p)) = p
<1> DEFINE f == Front(p)
<1>1. /\ f \in Seq(Segment) /\ Len(f) = Len(p) - 1 /\ Len(p) \in Nat \ {0}
      /\ \A k \in 1..(Len(p) - 1) : f[k] = p[k]
  BY FrontIs
<1> HIDE DEF f
<1>2. Last(p) = p[Len(p)]
  BY DEF Last
<1>3. p[Len(p)] \in Segment
  BY <1>1, ElementOfSeq
<1> DEFINE s == p[Len(p)]
           q == Append(f, s)
<1> HIDE DEF s
<1>4. /\ q \in Seq(Segment) /\ Len(q) = Len(f) + 1 /\ q[Len(f) + 1] = s
      /\ \A k \in 1..Len(f) : q[k] = f[k]
  BY <1>1, <1>3, AppendProperties DEF s
<1> HIDE DEF q
<1>5. ASSUME NEW k \in 1..Len(p) PROVE q[k] = p[k]
  BY <1>1, <1>4 DEF s
<1>6. q = p
  BY <1>1, <1>4, <1>5, SeqEqual
<1> QED BY <1>2, <1>3, <1>6 DEF q, s, f

(* A path up to a segment, and from there on.                              *)
LEMMA BelowIs ==
  ASSUME NEW p \in Seq(Segment), NEW n \in 0..Len(p)
  PROVE  /\ Below(p, n) \in Seq(Segment) /\ Len(Below(p, n)) = Len(p) - n
         /\ \A k \in 1..Len(p) - n : Below(p, n)[k] = p[n + k]
         /\ Head1(p, n) \in Seq(Segment) /\ Len(Head1(p, n)) = n
         /\ \A k \in 1..n : Head1(p, n)[k] = p[k]
<1>1. Len(p) \in Nat /\ n \in Nat /\ n <= Len(p)
  OBVIOUS
<1> QED BY <1>1 DEF Below, Head1

(* A path ends below any of its segments as it does without its last, and  *)
(* with it.                                                                *)
LEMMA BelowFront ==
  ASSUME NEW p \in Seq(Segment), p # <<>>, NEW n \in 0..Len(p) - 1
  PROVE  /\ Head1(p, n) = Head1(Front(p), n)
         /\ Below(p, n) = Append(Below(Front(p), n), Last(p))
         /\ n \in 0..Len(Front(p)) /\ n \in 0..Len(p)
<1> DEFINE f == Front(p)
           m == Len(p)
<1>1. /\ f \in Seq(Segment) /\ Len(f) = m - 1 /\ m \in Nat \ {0}
      /\ \A k \in 1..(m - 1) : f[k] = p[k]
  BY FrontIs
<1>2. Last(p) = p[m] /\ Last(p) \in Segment
  BY LastIs
<1> HIDE DEF f
<1>3. n \in 0..Len(f) /\ n \in 0..m /\ n \in Nat /\ n <= m - 1
  BY <1>1
<1>4. /\ Below(p, n) \in Seq(Segment) /\ Len(Below(p, n)) = m - n
      /\ \A k \in 1..m - n : Below(p, n)[k] = p[n + k]
      /\ Head1(p, n) \in Seq(Segment) /\ Len(Head1(p, n)) = n
      /\ \A k \in 1..n : Head1(p, n)[k] = p[k]
  BY <1>3, BelowIs
<1>5. /\ Below(f, n) \in Seq(Segment) /\ Len(Below(f, n)) = m - 1 - n
      /\ \A k \in 1..m - 1 - n : Below(f, n)[k] = f[n + k]
      /\ Head1(f, n) \in Seq(Segment) /\ Len(Head1(f, n)) = n
      /\ \A k \in 1..n : Head1(f, n)[k] = f[k]
  <2>1. /\ Below(f, n) \in Seq(Segment) /\ Len(Below(f, n)) = Len(f) - n
        /\ \A k \in 1..Len(f) - n : Below(f, n)[k] = f[n + k]
        /\ Head1(f, n) \in Seq(Segment) /\ Len(Head1(f, n)) = n
        /\ \A k \in 1..n : Head1(f, n)[k] = f[k]
    BY <1>1, <1>3, BelowIs
  <2> QED BY <1>1, <2>1
<1>6. Head1(p, n) = Head1(f, n)
  <2>1. ASSUME NEW k \in 1..n PROVE Head1(p, n)[k] = Head1(f, n)[k]
    <3>1. k \in 1..m - 1
      BY <1>1, <1>3
    <3> QED BY <1>1, <1>4, <1>5, <3>1
  <2> QED BY <1>4, <1>5, <2>1, SeqEqual
<1> DEFINE b == Below(f, n)
           l == Last(p)
           a == Append(b, l)
<1>7. /\ a \in Seq(Segment) /\ Len(a) = m - n /\ a[m - n] = l
      /\ \A k \in 1..m - 1 - n : a[k] = b[k]
  <2> HIDE DEF b, l, m
  <2>1. b \in Seq(Segment) /\ l \in Segment /\ Len(b) = m - 1 - n
    BY <1>2, <1>5 DEF b, l
  <2>2. /\ Append(b, l) \in Seq(Segment) /\ Len(Append(b, l)) = Len(b) + 1
        /\ Append(b, l)[Len(b) + 1] = l /\ \A k \in 1..Len(b) : Append(b, l)[k] = b[k]
    BY <2>1, AppendProperties
  <2>3. Len(b) + 1 = m - n
    BY <1>1, <1>3, <2>1
  <2> QED BY <2>1, <2>2, <2>3
<1>8. ASSUME NEW k \in 1..m - n PROVE Below(p, n)[k] = a[k]
  <2> HIDE DEF m
  <2>1. CASE k = m - n
    <3>1. Below(p, n)[k] = p[m]
      BY <1>1, <1>3, <1>4, <2>1
    <3> QED BY <1>2, <1>7, <2>1, <3>1
  <2>2. CASE k # m - n
    <3>1. k \in 1..m - 1 - n /\ n + k \in 1..m - 1
      BY <1>1, <1>3, <2>2
    <3>2. a[k] = b[k] /\ b[k] = f[n + k] /\ f[n + k] = p[n + k]
      <4> HIDE DEF a
      <4> QED BY <1>1, <1>5, <1>7, <3>1
    <3> QED BY <1>4, <3>2
  <2> QED BY <2>1, <2>2
<1> HIDE DEF a
<1>9. Below(p, n) = a
  BY <1>4, <1>7, <1>8, SeqEqual
<1> QED BY <1>3, <1>6, <1>9 DEF a, b, l, f, m

(* All of a path, and nothing below it.                                    *)
LEMMA AllOfIt ==
  ASSUME NEW p \in Seq(Segment)
  PROVE  Below(p, Len(p)) = <<>> /\ Head1(p, Len(p)) = p /\ Len(p) \in 0..Len(p)
<1>1. Len(p) \in 0..Len(p) /\ Len(p) \in Nat
  OBVIOUS
<1>2. /\ Below(p, Len(p)) \in Seq(Segment) /\ Len(Below(p, Len(p))) = Len(p) - Len(p)
      /\ Head1(p, Len(p)) \in Seq(Segment) /\ Len(Head1(p, Len(p))) = Len(p)
      /\ \A k \in 1..Len(p) : Head1(p, Len(p))[k] = p[k]
  BY <1>1, BelowIs
<1>3. Head1(p, Len(p)) = p
  BY <1>2, SeqEqual
<1>4. Len(Below(p, Len(p))) = 0
  BY <1>1, <1>2
<1> QED BY <1>1, <1>2, <1>3, <1>4, EmptySeq

(* A set of numbers up to another has a greatest member.                   *)
LEMMA GreatestMember ==
  ASSUME NEW n \in Nat, NEW T \in SUBSET (1..n), T # {}
  PROVE  \E m \in T : \A k \in T : k <= m
<1> DEFINE U == {x \in Nat : n - x \in T}
<1>1. U # {}
  <2>1. PICK k \in T : TRUE
    OBVIOUS
  <2>2. n - k \in Nat /\ n - (n - k) = k
    OBVIOUS
  <2> QED BY <2>1, <2>2
<1>2. PICK x \in U : \A y \in U : x <= y
  <2>1. U \in SUBSET Nat
    OBVIOUS
  <2> HIDE DEF U
  <2> QED BY <1>1, <2>1, LeastMember
<1>3. x \in Nat /\ n - x \in T
  OBVIOUS
<1>4. ASSUME NEW k \in T PROVE k <= n - x
  <2>1. n - k \in Nat /\ n - (n - k) = k /\ k \in Nat
    OBVIOUS
  <2>2. n - k \in U
    BY <2>1
  <2>3. x <= n - k
    <3> HIDE DEF U
    <3> QED BY <1>2, <2>2
  <2> QED BY <1>3, <2>1, <2>3
<1> QED BY <1>3, <1>4

(* A path is carried by what is nearest of all that was renamed at or      *)
(* above it, and stays as it is where nothing was.                         *)
LEMMA CarriedBy ==
  ASSUME NEW path \in Seq(Segment), NEW renamed, NEW n \in 1..Len(path),
         Head1(path, n) \in DOMAIN renamed,
         \A m \in 1..Len(path) : Head1(path, m) \in DOMAIN renamed => m <= n
  PROVE  Carried(path, renamed) = renamed[Head1(path, n)] \o Below(path, n)
<1> DEFINE heads == {m \in 1..Len(path) : Head1(path, m) \in DOMAIN renamed}
           nearest == CHOOSE x \in heads : \A m \in heads : m <= x
<1>1. Carried(path, renamed) = IF heads = {} THEN path
                               ELSE renamed[Head1(path, nearest)] \o Below(path, nearest)
  BY Zenon DEF Carried
<1>2. n \in heads /\ \A m \in heads : m <= n
  OBVIOUS
<1>3. nearest \in heads /\ \A m \in heads : m <= nearest
  <2> HIDE DEF heads
  <2> QED BY <1>2
<1>4. nearest = n
  <2>1. n <= nearest /\ nearest <= n /\ nearest \in Nat /\ n \in Nat
    <3>1. nearest \in Nat /\ n \in Nat
      <4> HIDE DEF nearest
      <4> QED BY <1>3
    <3> HIDE DEF heads
    <3> QED BY <1>2, <1>3, <3>1
  <2> HIDE DEF nearest
  <2> QED BY <2>1
<1> HIDE DEF heads, nearest
<1> QED BY <1>1, <1>2, <1>4

(* A path no renumbering is above stays.                                   *)
LEMMA CarriedNowhere ==
  ASSUME NEW path, NEW renamed,
         \A m \in 1..Len(path) : Head1(path, m) \notin DOMAIN renamed
  PROVE  Carried(path, renamed) = path
<1> DEFINE heads == {m \in 1..Len(path) : Head1(path, m) \in DOMAIN renamed}
           nearest == CHOOSE x \in heads : \A m \in heads : m <= x
<1>1. Carried(path, renamed) = IF heads = {} THEN path
                               ELSE renamed[Head1(path, nearest)] \o Below(path, nearest)
  BY Zenon DEF Carried
<1>2. heads = {}
  OBVIOUS
<1> HIDE DEF heads, nearest
<1> QED BY <1>1, <1>2

(* The nearest there is, where there is one.                               *)
LEMMA Nearest ==
  ASSUME NEW path \in Seq(Segment), NEW renamed
  PROVE  \/ \A m \in 1..Len(path) : Head1(path, m) \notin DOMAIN renamed
         \/ \E n \in 1..Len(path) :
              /\ Head1(path, n) \in DOMAIN renamed
              /\ \A m \in 1..Len(path) : Head1(path, m) \in DOMAIN renamed => m <= n
<1> DEFINE heads == {m \in 1..Len(path) : Head1(path, m) \in DOMAIN renamed}
<1>1. heads \in SUBSET (1..Len(path)) /\ Len(path) \in Nat
  OBVIOUS
<1>2. heads # {} => \E n \in heads : \A m \in heads : m <= n
  <2> HIDE DEF heads
  <2> QED BY <1>1, GreatestMember
<1> QED BY <1>2

Paths(renamed) == \A t \in DOMAIN renamed : renamed[t] \in Seq(Segment)

(* A path is carried as its container is, unless it is renamed itself.     *)
LEMMA CarriedStep ==
  ASSUME NEW path \in Seq(Segment), path # <<>>, NEW renamed, Paths(renamed)
  PROVE  Carried(path, renamed) = IF path \in DOMAIN renamed THEN renamed[path]
                                  ELSE Append(Carried(Front(path), renamed), Last(path))
<1> DEFINE l == Len(path)
           f == Front(path)
<1>1. l \in Nat \ {0} /\ f \in Seq(Segment) /\ Len(f) = l - 1 /\ Last(path) \in Segment
  BY FrontIs, LastIs
<1>2. Head1(path, l) = path /\ Below(path, l) = <<>>
  BY AllOfIt
<1>3. \A n \in 1..l - 1 : /\ Head1(path, n) = Head1(f, n) /\ n \in 0..Len(f) /\ n \in 1..Len(f)
                          /\ Below(path, n) = Append(Below(f, n), Last(path))
  <2> SUFFICES ASSUME NEW n \in 1..l - 1
               PROVE  /\ Head1(path, n) = Head1(f, n) /\ n \in 0..Len(f) /\ n \in 1..Len(f)
                      /\ Below(path, n) = Append(Below(f, n), Last(path))
    OBVIOUS
  <2>1. n \in 0..l - 1 /\ n \in 1..Len(f) /\ n \in 0..Len(f)
    BY <1>1
  <2> QED BY <2>1, BelowFront
<1>4. CASE path \in DOMAIN renamed
  <2>1. l \in 1..l /\ \A m \in 1..l : m <= l
    BY <1>1
  <2>2. Carried(path, renamed) = renamed[Head1(path, l)] \o Below(path, l)
    BY <1>2, <1>4, <2>1, CarriedBy
  <2>3. renamed[path] \in Seq(Segment)
    BY <1>4 DEF Paths
  <2>4. renamed[path] \o <<>> = renamed[path]
    BY <2>3, ConcatEmptySeq
  <2> QED BY <1>2, <1>4, <2>2, <2>4
<1>5. CASE path \notin DOMAIN renamed
  <2> HIDE DEF f, l
  <2>0. \A n \in 1..l : n = l \/ (n \in 1..l - 1 /\ n \in 1..Len(f))
    BY <1>1
  <2>1. CASE \A m \in 1..Len(f) : Head1(f, m) \notin DOMAIN renamed
    <3>1. \A m \in 1..l : Head1(path, m) \notin DOMAIN renamed
      BY <1>2, <1>3, <1>5, <2>0, <2>1
    <3>2. Carried(path, renamed) = path /\ Carried(f, renamed) = f
      BY <2>1, <3>1, CarriedNowhere DEF l
    <3>3. Append(f, Last(path)) = path
      BY LastIs DEF f
    <3> QED BY <1>5, <3>2, <3>3 DEF f
  <2>2. ASSUME NEW n \in 1..Len(f), Head1(f, n) \in DOMAIN renamed,
               \A m \in 1..Len(f) : Head1(f, m) \in DOMAIN renamed => m <= n
        PROVE  Carried(path, renamed) = Append(Carried(f, renamed), Last(path))
    <3>1. n \in 1..l - 1 /\ n \in 1..l /\ n \in 0..Len(f)
      BY <1>1
    <3>2. \A m \in 1..l : Head1(path, m) \in DOMAIN renamed => m <= n
      BY <1>2, <1>3, <1>5, <2>0, <2>2
    <3>3. Carried(path, renamed) = renamed[Head1(f, n)] \o Append(Below(f, n), Last(path))
      BY <1>3, <2>2, <3>1, <3>2, CarriedBy DEF l
    <3>4. Carried(f, renamed) = renamed[Head1(f, n)] \o Below(f, n)
      BY <1>1, <2>2, CarriedBy
    <3> DEFINE r == renamed[Head1(f, n)]
               b == Below(f, n)
               x == Last(path)
    <3>5. r \in Seq(Segment) /\ b \in Seq(Segment) /\ x \in Segment
      BY <1>1, <2>2, <3>1, BelowIs DEF Paths
    <3> HIDE DEF r, b, x
    <3>6. r \o Append(b, x) = Append(r \o b, x)
      BY <3>5, AppendIsConcat, ConcatAssociative, ConcatProperties
    <3> QED BY <3>3, <3>4, <3>6 DEF r, b, x
  <2>3. Carried(path, renamed) = Append(Carried(f, renamed), Last(path))
    <3>1. \/ \A m \in 1..Len(f) : Head1(f, m) \notin DOMAIN renamed
          \/ \E n \in 1..Len(f) :
               /\ Head1(f, n) \in DOMAIN renamed
               /\ \A m \in 1..Len(f) : Head1(f, m) \in DOMAIN renamed => m <= n
      BY <1>1, Nearest
    <3>2. CASE \A m \in 1..Len(f) : Head1(f, m) \notin DOMAIN renamed
      BY <1>5, <2>1, <3>2 DEF f
    <3> QED BY <2>2, <3>1, <3>2
  <2> QED BY <1>5, <2>3 DEF f
<1> QED BY <1>4, <1>5

(* A renumbered path is a path.                                            *)
LEMMA CarriedIsPath ==
  ASSUME NEW path \in Seq(Segment), NEW renamed, Paths(renamed)
  PROVE  Carried(path, renamed) \in Seq(Segment)
<1>1. \/ \A m \in 1..Len(path) : Head1(path, m) \notin DOMAIN renamed
      \/ \E n \in 1..Len(path) :
           /\ Head1(path, n) \in DOMAIN renamed
           /\ \A m \in 1..Len(path) : Head1(path, m) \in DOMAIN renamed => m <= n
  BY Nearest
<1>2. CASE \A m \in 1..Len(path) : Head1(path, m) \notin DOMAIN renamed
  BY <1>2, CarriedNowhere
<1>3. ASSUME NEW n \in 1..Len(path), Head1(path, n) \in DOMAIN renamed,
             \A m \in 1..Len(path) : Head1(path, m) \in DOMAIN renamed => m <= n
      PROVE  Carried(path, renamed) \in Seq(Segment)
  <2> DEFINE r == renamed[Head1(path, n)]
             b == Below(path, n)
  <2>1. Carried(path, renamed) = r \o b
    BY <1>3, CarriedBy
  <2>2. r \in Seq(Segment) /\ b \in Seq(Segment)
    <3>1. n \in 0..Len(path)
      OBVIOUS
    <3> QED BY <1>3, <3>1, BelowIs DEF Paths
  <2> HIDE DEF r, b
  <2>3. r \o b \in Seq(Segment)
    BY <2>2, ConcatProperties
  <2> QED BY <2>1, <2>3
<1> QED BY <1>1, <1>2, <1>3

-----------------------------------------------------------------------------
(* What the comparison never refuses.                                      *)

(* Two paths are one provision's where what holds them is and they end     *)
(* alike.                                                                  *)
LEMMA OneBelow ==
  ASSUME NEW p \in Seq(Segment), p # <<>>, NEW q \in Seq(Segment), q # <<>>, NEW known,
         IsOneProvision(Front(p), Front(q), known), Last(p) = Last(q)
  PROVE  IsOneProvision(p, q, known)
<1> DEFINE f == Front(p)
           g == Front(q)
<1>1. PICK n \in 0..Len(f), m \in 0..Len(g) :
        /\ Below(f, n) = Below(g, m)
        /\ \/ Head1(f, n) = Head1(g, m)
           \/ Head1(f, n) \in DOMAIN known /\ known[Head1(f, n)] = Head1(g, m)
  BY DEF IsOneProvision
<1>2. /\ Len(f) = Len(p) - 1 /\ Len(g) = Len(q) - 1
      /\ Len(p) \in Nat \ {0} /\ Len(q) \in Nat \ {0}
  BY FrontIs
<1>3. n \in 0..Len(p) - 1 /\ m \in 0..Len(q) - 1
  BY <1>2
<1>4. /\ Head1(p, n) = Head1(f, n) /\ Below(p, n) = Append(Below(f, n), Last(p))
      /\ Head1(q, m) = Head1(g, m) /\ Below(q, m) = Append(Below(g, m), Last(q))
      /\ n \in 0..Len(p) /\ m \in 0..Len(q)
  BY <1>3, BelowFront
<1> HIDE DEF f, g
<1>5. Below(p, n) = Below(q, m)
  BY <1>1, <1>4
<1> QED BY <1>1, <1>4, <1>5 DEF IsOneProvision

(* So are a path and itself, and a path and where it moved.                *)
LEMMA MovedIsOne ==
  ASSUME NEW p \in Seq(Segment), NEW q \in Seq(Segment), NEW known,
         p = q \/ (p \in DOMAIN known /\ known[p] = q)
  PROVE  IsOneProvision(p, q, known)
<1>1. /\ Below(p, Len(p)) = <<>> /\ Head1(p, Len(p)) = p /\ Len(p) \in 0..Len(p)
      /\ Below(q, Len(q)) = <<>> /\ Head1(q, Len(q)) = q /\ Len(q) \in 0..Len(q)
  BY AllOfIt
<1>2. /\ Below(p, Len(p)) = Below(q, Len(q))
      /\ \/ Head1(p, Len(p)) = Head1(q, Len(q))
         \/ Head1(p, Len(p)) \in DOMAIN known /\ known[Head1(p, Len(p))] = Head1(q, Len(q))
  BY <1>1
<1> HIDE <1>2
<1> QED BY <1>1, <1>2 DEF IsOneProvision

(* A mate is a child that its parent's mate is paired with.                *)
LEMMA MatesArePaired ==
  ASSUME NEW old, IsPrinting(old), NEW new, IsPrinting(new), NEW known,
         NEW mate, mate = Mates(old, new, known),
         NEW a \in DOMAIN old, a # Root, mate[a] # 0
  PROVE  /\ old[a].above \in DOMAIN old /\ mate[old[a].above] # 0
         /\ <<a, mate[a]>> \in Paired(old, new, known, old[a].above, mate[old[a].above])
         /\ mate[a] \in DOMAIN new /\ new[mate[a]].above = mate[old[a].above]
         /\ mate[old[a].above] \in DOMAIN new /\ mate[a] # Root
<1> DEFINE h == old[a].above
           g == mate[h]
           b == mate[a]
           pairs == Paired(old, new, known, h, g)
<1>1. h \in DOMAIN old
  BY AboveIs
<1>2. g # 0 /\ b = MateIn(pairs, a)
  BY MatesAre
<1> HIDE DEF pairs, b
<1>3. PICK m \in pairs : m[1] = a /\ m[2] = b
  BY <1>2, MateIsOf DEF b
<1>4. m \in Children(old, h) \X Children(new, g)
  <2> HIDE DEF g
  <2> QED BY PairedAreChildren DEF pairs
<1> HIDE DEF h, g
<1>5. m = <<a, b>> /\ b \in DOMAIN new /\ new[b].above = g
  BY <1>3, <1>4 DEF Children
<1>6. g \in DOMAIN new
  BY <1>1, <1>2, MatesAre DEF g
<1>7. b # Root
  <2>1. new[Root].above = 0
    BY DEF IsPrinting, Printing
  <2> QED BY <1>2, <1>5, <2>1
<1>8. <<a, b>> \in pairs
  BY <1>3, <1>5
<1> QED BY <1>1, <1>2, <1>5, <1>6, <1>7, <1>8 DEF pairs, b, g, h

(* A diff never compares two provisions that it would refuse to.           *)
LEMMA NeverRefuses ==
  ASSUME NEW old, IsPrinting(old), NEW new, IsPrinting(new), NEW known,
         NEW mate, mate = Mates(old, new, known)
  PROVE  Asserts(old, new, known, mate)
<1> DEFINE One1(a) == IsOneProvision(old[a].path, new[mate[a]].path, known)
           wrong == {a \in DOMAIN old : mate[a] # 0 /\ ~One1(a)}
<1>1. wrong = {}
  <2> SUFFICES ASSUME wrong # {} PROVE FALSE
    OBVIOUS
  <2>1. PICK a \in wrong : \A x \in wrong : a <= x
    <3>1. wrong \in SUBSET Nat
      BY AboveIs
    <3> HIDE DEF wrong
    <3> QED BY <3>1, LeastMember
  <2>2. a \in DOMAIN old /\ mate[a] # 0 /\ ~One1(a)
    <3> HIDE DEF One1
    <3> QED BY <2>1
  <2>3. CASE a = Root
    <3>1. mate[Root] = Root
      BY MatesAre
    <3>2. old[Root].path = <<>> /\ new[Root].path = <<>>
      BY DEF IsPrinting, Printing
    <3>3. <<>> \in Seq(Segment)
      BY EmptySeq
    <3> QED BY <2>2, <2>3, <3>1, <3>2, <3>3, MovedIsOne
  <2>4. CASE a # Root
    <3> DEFINE h == old[a].above
               b == mate[a]
               g == mate[h]
               p == old[a].path
               q == new[b].path
    <3>1. /\ h \in DOMAIN old /\ g # 0 /\ <<a, b>> \in Paired(old, new, known, h, g)
          /\ b \in DOMAIN new /\ new[b].above = g /\ g \in DOMAIN new /\ b # Root
      BY <2>2, <2>4, MatesArePaired
    <3>2. /\ p \in Seq(Segment) /\ p # <<>> /\ old[h].path = Front(p)
          /\ h < a /\ h \in Nat /\ a \in Nat
      BY <2>2, <2>4, <3>1, AboveIs
    <3> HIDE DEF b
    <3>3. q \in Seq(Segment) /\ q # <<>> /\ new[g].path = Front(q)
      <4> HIDE DEF g
      <4> QED BY <3>1, AboveIs
    <3>4. One1(h)
      <4>1. h \notin wrong
        <5> HIDE DEF wrong, h
        <5> QED BY <2>1, <3>2
      <4> HIDE DEF One1, h
      <4> QED BY <3>1, <4>1
    <3>5. IsOneProvision(Front(p), Front(q), known)
      BY <3>2, <3>3, <3>4
    <3> HIDE DEF g, h
    <3>6. \/ <<a, b>> \in Renumbered(old, new, known, h, g)
          \/ AlikeIn(old, new, OldLeft(old, new, known, h, g), NewLeft(old, new, known, h, g), a, b)
      BY <3>1, PairedIs
    <3>7. CASE <<a, b>> \in Renumbered(old, new, known, h, g)
      <4>1. p \in DOMAIN known /\ known[p] = q
        BY <3>7 DEF Renumbered
      <4>2. IsOneProvision(p, q, known)
        <5> HIDE DEF p, q
        <5> QED BY <3>2, <3>3, <4>1, MovedIsOne
      <4> QED BY <2>2, <4>2 DEF b
    <3>8. CASE AlikeIn(old, new, OldLeft(old, new, known, h, g), NewLeft(old, new, known, h, g), a, b)
      <4>1. Last(p) = Last(q)
        BY <3>8 DEF AlikeIn, Number
      <4>2. IsOneProvision(p, q, known)
        <5> HIDE DEF p, q
        <5> QED BY <3>2, <3>3, <3>5, <4>1, OneBelow
      <4> QED BY <2>2, <4>2 DEF b
    <3> QED BY <3>6, <3>7, <3>8
  <2> QED BY <2>3, <2>4
<1> QED BY <1>1 DEF Asserts

(* What is paired with a child, is paired with no other.                   *)
LEMMA PairedOnceBack ==
  ASSUME NEW old, IsPrinting(old), NEW new, NEW known, NEW p, NEW q, NEW a, NEW c, NEW b,
         <<a, b>> \in Paired(old, new, known, p, q),
         <<c, b>> \in Paired(old, new, known, p, q)
  PROVE  a = c
<1> DEFINE moved == Renumbered(old, new, known, p, q)
           oldLeft == OldLeft(old, new, known, p, q)
           newLeft == NewLeft(old, new, known, p, q)
<1>1. /\ <<a, b>> \in moved \/ AlikeIn(old, new, oldLeft, newLeft, a, b)
      /\ <<c, b>> \in moved \/ AlikeIn(old, new, oldLeft, newLeft, c, b)
  BY PairedIs
<1>2. \A x : <<x, b>> \in moved => b \notin newLeft
  BY DEF NewLeft, Others
<1>3. \A x : AlikeIn(old, new, oldLeft, newLeft, x, b) => b \in newLeft
  BY DEF AlikeIn
<1>4. CASE <<a, b>> \in moved /\ <<c, b>> \in moved
  <2> DEFINE path == new[b].path
             to == {i \in Children(old, p) : /\ old[i].path \in DOMAIN known
                                             /\ known[old[i].path] = path}
             at == {i \in Children(new, q) : new[i].path = path}
  <2>1. /\ a \in to /\ Place(to, a) = Place(at, b)
        /\ c \in to /\ Place(to, c) = Place(at, b)
    BY <1>4 DEF Renumbered
  <2>2. to \in SUBSET DOMAIN old
    BY DEF Children
  <2> HIDE DEF to, at
  <2> QED BY <2>1, <2>2, AmongProvisions, PlaceTells
<1>5. CASE /\ AlikeIn(old, new, oldLeft, newLeft, a, b)
           /\ AlikeIn(old, new, oldLeft, newLeft, c, b)
  <2>1. oldLeft \in SUBSET DOMAIN old
    BY DEF OldLeft, Children
  <2> HIDE DEF oldLeft, newLeft
  <2>2. /\ a \in oldLeft /\ c \in oldLeft /\ Number(old, a) = Number(old, c)
        /\ Place(ByNumber(old, oldLeft, a), a) = Place(ByNumber(old, oldLeft, c), c)
    BY <1>5 DEF AlikeIn
  <2> DEFINE S == ByNumber(old, oldLeft, a)
  <2>3. ByNumber(old, oldLeft, c) = S /\ a \in S /\ c \in S /\ S \in SUBSET DOMAIN old
    BY <2>1, <2>2 DEF ByNumber
  <2>4. Place(S, a) = Place(S, c)
    <3> HIDE DEF S
    <3> QED BY <2>2, <2>3 DEF S
  <2> HIDE DEF S
  <2> QED BY <2>3, <2>4, AmongProvisions, PlaceTells
<1> HIDE DEF moved, oldLeft, newLeft
<1> QED BY <1>1, <1>2, <1>3, <1>4, <1>5

(* Of a printing that names each path once, so does each parent a number.  *)
LEMMA SameNumber ==
  ASSUME NEW doc, IsPrinting(doc), OneAPath(doc),
         NEW i \in DOMAIN doc, i # Root, NEW j \in DOMAIN doc, j # Root,
         doc[i].above = doc[j].above, Number(doc, i) = Number(doc, j)
  PROVE  i = j
<1> DEFINE p == doc[i].path
           q == doc[j].path
<1>1. /\ p \in Seq(Segment) /\ p # <<>> /\ doc[doc[i].above].path = Front(p)
      /\ q \in Seq(Segment) /\ q # <<>> /\ doc[doc[j].above].path = Front(q)
      /\ Last(p) = Last(q)
  BY AboveIs DEF Number
<1>2. Front(p) = Front(q)
  BY <1>1
<1> HIDE DEF p, q
<1>3. Append(Front(p), Last(p)) = p /\ Append(Front(q), Last(q)) = q
  BY <1>1, LastIs
<1>4. p = q
  BY <1>1, <1>2, <1>3
<1> QED BY <1>4 DEF OneAPath, p, q

-----------------------------------------------------------------------------
(* Renumberings that tell where each provision of two printings went.      *)

(* What moves say of the provisions two printings both hold.               *)
Renames(old, new, moves) ==
  \A i \in (DOMAIN old \cap DOMAIN new) \ {Root} :
    IF old[i].path \in DOMAIN moves THEN moves[old[i].path] = new[i].path
    ELSE Last(old[i].path) = Last(new[i].path)

(* A provision both hold is carried to where it is.                        *)
LEMMA CarriesAlong ==
  ASSUME NEW old, IsPrinting(old), NEW new, IsPrinting(new), AboveKept(old, new),
         NEW moves, Paths(moves), Renames(old, new, moves),
         NEW i \in DOMAIN old \cap DOMAIN new
  PROVE  Carried(old[i].path, moves) = new[i].path
<1> DEFINE Is(j) == Carried(old[j].path, moves) = new[j].path
           wrong == {j \in DOMAIN old \cap DOMAIN new : ~Is(j)}
<1>1. wrong = {}
  <2> SUFFICES ASSUME wrong # {} PROVE FALSE
    OBVIOUS
  <2>1. PICK j \in wrong : \A x \in wrong : j <= x
    <3>1. wrong \in SUBSET Nat
      BY AboveIs
    <3> HIDE DEF wrong
    <3> QED BY <3>1, LeastMember
  <2>2. j \in DOMAIN old /\ j \in DOMAIN new /\ ~Is(j)
    <3> HIDE DEF Is
    <3> QED BY <2>1
  <2>3. CASE j = Root
    <3>1. old[j].path = <<>> /\ new[j].path = <<>>
      BY <2>2, <2>3, AboveIs
    <3>2. \A m \in 1..Len(<<>>) : Head1(<<>>, m) \notin DOMAIN moves
      OBVIOUS
    <3>3. Carried(<<>>, moves) = <<>>
      BY <3>2, CarriedNowhere
    <3> QED BY <2>2, <3>1, <3>3
  <2>4. CASE j # Root
    <3> DEFINE h == old[j].above
               p == old[j].path
               q == new[j].path
    <3>1. /\ h \in DOMAIN old /\ h < j /\ h \in Nat /\ j \in Nat
          /\ p \in Seq(Segment) /\ p # <<>> /\ old[h].path = Front(p)
      BY <2>2, <2>4, AboveIs
    <3>2. new[j].above = h
      BY <2>2 DEF AboveKept
    <3>3. h \in DOMAIN new /\ q \in Seq(Segment) /\ q # <<>> /\ new[h].path = Front(q)
      BY <2>2, <2>4, <3>2, AboveIs
    <3>4. Is(h)
      <4>1. h \notin wrong
        <5> HIDE DEF wrong, h
        <5> QED BY <2>1, <3>1
      <4> HIDE DEF Is, h
      <4> QED BY <3>1, <3>3, <4>1
    <3>5. Carried(Front(p), moves) = Front(q)
      BY <3>1, <3>3, <3>4
    <3>6. IF p \in DOMAIN moves THEN moves[p] = q ELSE Last(p) = Last(q)
      BY <2>2, <2>4 DEF Renames
    <3>7. Append(Front(q), Last(q)) = q
      <4> HIDE DEF q
      <4> QED BY <3>3, LastIs
    <3>8. Carried(p, moves) = q
      <4> HIDE DEF p, q
      <4> QED BY <3>1, <3>5, <3>6, <3>7, CarriedStep
    <3> QED BY <2>2, <3>8
  <2> QED BY <2>3, <2>4
<1> QED BY <1>1

(* The moves of one window.                                                *)
AreMoves(moves, old, new) ==
  /\ DOMAIN moves = {old[i].path : i \in Moved(old, new)}
  /\ \A i \in Moved(old, new) : moves[old[i].path] = new[i].path

(* The moves of one window carry each provision to where it is.            *)
LEMMA MovesCarry ==
  ASSUME NEW old, IsPrinting(old), OneAPath(old), NEW new, IsPrinting(new),
         AboveKept(old, new), NEW moves, AreMoves(moves, old, new)
  PROVE  /\ Paths(moves)
         /\ \A i \in DOMAIN old \cap DOMAIN new : Carried(old[i].path, moves) = new[i].path
<1>1. Moved(old, new) \subseteq (DOMAIN old \cap DOMAIN new) \ {Root}
  BY DEF Moved
<1>2. Paths(moves)
  <2> SUFFICES ASSUME NEW t \in DOMAIN moves PROVE moves[t] \in Seq(Segment)
    BY DEF Paths
  <2>1. PICK i \in Moved(old, new) : t = old[i].path
    BY DEF AreMoves
  <2>2. moves[t] = new[i].path /\ i \in DOMAIN new
    BY <1>1, <2>1 DEF AreMoves
  <2> QED BY <2>2, AboveIs
<1>3. Renames(old, new, moves)
  <2> SUFFICES ASSUME NEW i \in (DOMAIN old \cap DOMAIN new) \ {Root}
               PROVE  IF old[i].path \in DOMAIN moves THEN moves[old[i].path] = new[i].path
                      ELSE Last(old[i].path) = Last(new[i].path)
    BY DEF Renames
  <2>1. CASE old[i].path \in DOMAIN moves
    <3>1. PICK j \in Moved(old, new) : old[i].path = old[j].path
      BY <2>1 DEF AreMoves
    <3>2. i = j
      BY <1>1, <3>1 DEF OneAPath
    <3> QED BY <2>1, <3>1, <3>2 DEF AreMoves
  <2>2. CASE old[i].path \notin DOMAIN moves
    <3>1. i \notin Moved(old, new)
      BY <2>2 DEF AreMoves
    <3> QED BY <2>2, <3>1 DEF Moved
  <2> QED BY <2>1, <2>2
<1> QED BY <1>2, <1>3, CarriesAlong

(* The renumberings of a span tell the truth of old and new, two of its    *)
(* printings: of each provision whose own number differs, and of no other  *)
(* that both hold, but in the name of a provision that came under another  *)
(* parent. What they name is there, and stays (last is what is there at    *)
(* the end).                                                               *)
TellMoved(old, new, known) ==
  \A i \in (DOMAIN old \cap DOMAIN new) \ {Root} :
    Last(old[i].path) # Last(new[i].path) =>
      old[i].path \in DOMAIN known /\ known[old[i].path] = new[i].path

TellOthers(old, new, known) ==
  \A i \in (DOMAIN old \cap DOMAIN new) \ {Root}, y \in DOMAIN new :
    /\ old[i].path \in DOMAIN known /\ known[old[i].path] = new[y].path
    /\ y # i
    => y \notin DOMAIN old /\ new[y].above # old[i].above

TellOne(old, new, last, known, path) ==
  \E y \in (DOMAIN new \cap last) \ {Root} :
    known[path] = new[y].path /\ (y \in DOMAIN old => path = old[y].path)

Tell(old, new, last, known) ==
  /\ DOMAIN known \subseteq Seq(Segment)
  /\ TellMoved(old, new, known) /\ TellOthers(old, new, known)
  /\ \A path \in DOMAIN known : TellOne(old, new, last, known, path)

(* Those of its first window do.                                           *)
LEMMA FirstTell ==
  ASSUME NEW old, IsPrinting(old), OneAPath(old), NEW new, IsPrinting(new), OneAPath(new),
         NEW moves, AreMoves(moves, old, new), NEW last, Moved(old, new) \subseteq last
  PROVE  Tell(old, new, last, moves)
<1>1. Moved(old, new) \subseteq (DOMAIN old \cap DOMAIN new) \ {Root}
  BY DEF Moved
<1>2. ASSUME NEW path \in DOMAIN moves
      PROVE  \E i \in Moved(old, new) : path = old[i].path /\ moves[path] = new[i].path
  BY DEF AreMoves
<1>3. DOMAIN moves \subseteq Seq(Segment)
  BY <1>1, <1>2, AboveIs
<1>4. TellMoved(old, new, moves)
  BY DEF TellMoved, AreMoves, Moved
<1>5. TellOthers(old, new, moves)
  <2> SUFFICES ASSUME NEW i \in (DOMAIN old \cap DOMAIN new) \ {Root}, NEW y \in DOMAIN new,
                      old[i].path \in DOMAIN moves, moves[old[i].path] = new[y].path,
                      y # i
               PROVE  FALSE
    BY DEF TellOthers
  <2>1. PICK j \in Moved(old, new) : old[i].path = old[j].path /\ new[y].path = new[j].path
    BY <1>2
  <2>2. i = j /\ y = j
    BY <1>1, <2>1 DEF OneAPath
  <2> QED BY <2>2
<1>6. ASSUME NEW path \in DOMAIN moves PROVE TellOne(old, new, last, moves, path)
  <2>1. PICK i \in Moved(old, new) : path = old[i].path /\ moves[path] = new[i].path
    BY <1>2
  <2>2. i \in (DOMAIN new \cap last) \ {Root}
    BY <1>1
  <2> QED BY <2>1, <2>2 DEF TellOne
<1> QED BY <1>3, <1>4, <1>5, <1>6 DEF Tell

BackOf(known) == [new \in Range(known) |-> CHOOSE old \in DOMAIN known : known[old] = new]

(* Moves read backwards.                                                   *)
LEMMA BackIs ==
  ASSUME NEW known
  PROVE  /\ DOMAIN BackOf(known) = Range(known)
         /\ \A t \in Range(known) : BackOf(known)[t] \in DOMAIN known
                                    /\ known[BackOf(known)[t]] = t
<1>1. DOMAIN BackOf(known) = Range(known)
  BY DEF BackOf
<1>2. ASSUME NEW t \in Range(known)
      PROVE  BackOf(known)[t] \in DOMAIN known /\ known[BackOf(known)[t]] = t
  <2>1. \E from \in DOMAIN known : known[from] = t
    BY DEF Range
  <2>2. BackOf(known)[t] = CHOOSE from \in DOMAIN known : known[from] = t
    BY DEF BackOf
  <2> QED BY <2>1, <2>2
<1> QED BY <1>1, <1>2

(* Read backwards they name each provision as it was at first.             *)
LEMMA BackCarries ==
  ASSUME NEW old, IsPrinting(old), NEW new, IsPrinting(new), OneAPath(new),
         AboveKept(old, new), NEW last, NEW known, Tell(old, new, last, known)
  PROVE  /\ Paths(BackOf(known))
         /\ \A i \in DOMAIN old \cap DOMAIN new :
              Carried(new[i].path, BackOf(known)) = old[i].path
<1> DEFINE back == BackOf(known)
<1>1. /\ DOMAIN back = Range(known)
      /\ \A t \in Range(known) : back[t] \in DOMAIN known /\ known[back[t]] = t
  BY BackIs
<1> HIDE DEF back
<1>2. Paths(back)
  BY <1>1 DEF Paths, Tell
<1>3. Renames(new, old, back)
  <2> SUFFICES ASSUME NEW i \in (DOMAIN new \cap DOMAIN old) \ {Root}
               PROVE  IF new[i].path \in DOMAIN back THEN back[new[i].path] = old[i].path
                      ELSE Last(new[i].path) = Last(old[i].path)
    BY DEF Renames
  <2>1. CASE new[i].path \in DOMAIN back
    <3> DEFINE q == back[new[i].path]
    <3>1. q \in DOMAIN known /\ known[q] = new[i].path
      BY <1>1, <2>1
    <3>2. TellOne(old, new, last, known, q)
      BY <3>1 DEF Tell
    <3>3. PICK y \in (DOMAIN new \cap last) \ {Root} :
            known[q] = new[y].path /\ (y \in DOMAIN old => q = old[y].path)
      BY <3>2 DEF TellOne
    <3>4. y = i
      BY <3>1, <3>3 DEF OneAPath
    <3> QED BY <2>1, <3>3, <3>4
  <2>2. CASE new[i].path \notin DOMAIN back
    <3>1. ASSUME Last(new[i].path) # Last(old[i].path) PROVE FALSE
      <4>1. old[i].path \in DOMAIN known /\ known[old[i].path] = new[i].path
        BY <3>1 DEF Tell, TellMoved
      <4>2. new[i].path \in Range(known)
        BY <4>1 DEF Range
      <4> QED BY <1>1, <2>2, <4>2
    <3> QED BY <2>2, <3>1
  <2> QED BY <2>1, <2>2
<1>4. AboveKept(new, old)
  BY DEF AboveKept
<1> QED BY <1>2, <1>3, <1>4, CarriesAlong DEF back

-----------------------------------------------------------------------------
(* The renumberings of two windows joined.                                 *)

(* Then, in parts.                                                         *)
NamedBy(earlier, later) ==
  {Carried(middle, BackOf(earlier)) : middle \in DOMAIN later} \ DOMAIN earlier

MovingTo(earlier, later, old) ==
  {later[middle] : middle \in {m \in DOMAIN later : Carried(m, BackOf(earlier)) = old}}

Joined(earlier, later, choice) ==
  [old \in DOMAIN earlier \cup NamedBy(earlier, later) |->
     IF old \in NamedBy(earlier, later) THEN choice[old] ELSE Carried(earlier[old], later)]

Settled(f) == Restrict(f, {old \in DOMAIN f : f[old] # old})

(* Two windows are joined in each of these ways.                           *)
LEMMA ThenHas ==
  ASSUME NEW earlier, NEW later, NEW choice \in [NamedBy(earlier, later) -> Range(later)],
         \A old \in NamedBy(earlier, later) : choice[old] \in MovingTo(earlier, later, old)
  PROVE  Settled(Joined(earlier, later, choice)) \in Then(earlier, later)
BY Zenon DEF Then, Settled, Joined, MovingTo, NamedBy, BackOf

(* Two windows after one another, of a span that ends with last.           *)
Between(old, middle, new, last) ==
  /\ IsPrinting(old) /\ IsPrinting(middle) /\ IsPrinting(new)
  /\ OneAPath(old) /\ OneAPath(middle) /\ OneAPath(new)
  /\ AboveKept(old, middle) /\ AboveKept(middle, new)
  /\ DOMAIN old \cap DOMAIN new \subseteq DOMAIN middle
  /\ DOMAIN middle \cap last \subseteq DOMAIN new
  /\ Moved(middle, new) \subseteq last

(* No later move finds the move of another where it goes by its name.      *)
NoneLost(old, middle, new, known) ==
  \A i \in Moved(middle, new) \cap DOMAIN old :
    old[i].path \in DOMAIN known => known[old[i].path] = middle[i].path

(* What the renumberings of a window join.                                 *)
Joins(old, middle, new, last, known, moves) ==
  /\ Between(old, middle, new, last) /\ NoneLost(old, middle, new, known)
  /\ AreMoves(moves, middle, new) /\ Tell(old, middle, last, known)

(* The later move chosen for a name: that of a provision there was.        *)
ChosenWell(old, middle, new, known, moves, choice) ==
  /\ choice \in [NamedBy(known, moves) -> Range(moves)]
  /\ \A name \in NamedBy(known, moves) :
       /\ choice[name] \in MovingTo(known, moves, name)
       /\ \A i \in Moved(middle, new) \cap DOMAIN old :
            old[i].path = name => choice[name] = new[i].path

(* Read backwards, what is known carries to the first printing; what is    *)
(* next, to the last.                                                      *)
LEMMA JoinsCarry ==
  ASSUME NEW old, NEW middle, NEW new, NEW last, NEW known, NEW moves,
         Joins(old, middle, new, last, known, moves)
  PROVE  /\ Paths(BackOf(known)) /\ Paths(moves)
         /\ \A i \in DOMAIN old \cap DOMAIN middle :
              Carried(middle[i].path, BackOf(known)) = old[i].path
         /\ \A i \in DOMAIN middle \cap DOMAIN new : Carried(middle[i].path, moves) = new[i].path
         /\ Moved(middle, new) \subseteq (DOMAIN middle \cap DOMAIN new) \ {Root}
<1>1. /\ IsPrinting(old) /\ IsPrinting(middle) /\ IsPrinting(new)
      /\ OneAPath(middle) /\ AboveKept(old, middle) /\ AboveKept(middle, new)
      /\ AreMoves(moves, middle, new) /\ Tell(old, middle, last, known)
  BY DEF Joins, Between
<1>2. /\ Paths(BackOf(known))
      /\ \A i \in DOMAIN old \cap DOMAIN middle :
           Carried(middle[i].path, BackOf(known)) = old[i].path
  BY <1>1, BackCarries
<1>3. /\ Paths(moves)
      /\ \A i \in DOMAIN middle \cap DOMAIN new : Carried(middle[i].path, moves) = new[i].path
  BY <1>1, MovesCarry
<1>4. Moved(middle, new) \subseteq (DOMAIN middle \cap DOMAIN new) \ {Root}
  BY DEF Moved
<1> QED BY <1>2, <1>3, <1>4

(* There is always such a choice.                                          *)
LEMMA SomeChosen ==
  ASSUME NEW old, NEW middle, NEW new, NEW last, NEW known, NEW moves,
         Joins(old, middle, new, last, known, moves)
  PROVE  \E choice : ChosenWell(old, middle, new, known, moves, choice)
<1> DEFINE Of(name) == {i \in Moved(middle, new) \cap DOMAIN old : old[i].path = name}
           pick(name) == IF Of(name) # {} THEN new[CHOOSE i \in Of(name) : TRUE].path
                         ELSE CHOOSE to \in MovingTo(known, moves, name) : TRUE
           choice == [name \in NamedBy(known, moves) |-> pick(name)]
<1>1. /\ \A i \in DOMAIN old \cap DOMAIN middle :
           Carried(middle[i].path, BackOf(known)) = old[i].path
      /\ Moved(middle, new) \subseteq (DOMAIN middle \cap DOMAIN new) \ {Root}
  BY JoinsCarry
<1>2. OneAPath(old) /\ AreMoves(moves, middle, new)
  BY DEF Joins, Between
<1>3. ASSUME NEW name \in NamedBy(known, moves)
      PROVE  /\ pick(name) \in MovingTo(known, moves, name)
             /\ \A i \in Of(name) : pick(name) = new[i].path
  <2>1. CASE Of(name) # {}
    <3> DEFINE i == CHOOSE i \in Of(name) : TRUE
    <3>1. i \in Of(name)
      <4> HIDE DEF Of
      <4> QED BY <2>1
    <3>2. pick(name) = new[i].path
      BY <2>1
    <3> HIDE DEF i, pick
    <3>3. middle[i].path \in DOMAIN moves /\ moves[middle[i].path] = new[i].path
      BY <1>2, <3>1 DEF AreMoves
    <3>4. Carried(middle[i].path, BackOf(known)) = name
      BY <1>1, <3>1
    <3>5. new[i].path \in MovingTo(known, moves, name)
      BY <3>3, <3>4 DEF MovingTo
    <3>6. \A j \in Of(name) : j = i
      BY <1>2, <3>1 DEF OneAPath
    <3> QED BY <3>2, <3>5, <3>6
  <2>2. CASE Of(name) = {}
    <3>1. PICK middle1 \in DOMAIN moves : name = Carried(middle1, BackOf(known))
      BY DEF NamedBy
    <3>2. moves[middle1] \in MovingTo(known, moves, name)
      BY <3>1 DEF MovingTo
    <3>3. pick(name) \in MovingTo(known, moves, name)
      <4> HIDE DEF Of
      <4> QED BY <2>2, <3>2
    <3> QED BY <2>2, <3>3
  <2> QED BY <2>1, <2>2
<1> HIDE DEF pick
<1>4. \A name : MovingTo(known, moves, name) \subseteq Range(moves)
  BY DEF MovingTo, Range
<1>5. choice \in [NamedBy(known, moves) -> Range(moves)]
  BY <1>3, <1>4
<1>6. ChosenWell(old, middle, new, known, moves, choice)
  BY <1>3, <1>5 DEF ChosenWell
<1> QED BY <1>6

(* What is joined, of each path.                                           *)
LEMMA JoinedIs ==
  ASSUME NEW known, NEW moves, NEW choice, NEW joined,
         joined = Settled(Joined(known, moves, choice))
  PROVE  /\ \A path \in DOMAIN known :
              /\ path \in DOMAIN joined <=> Carried(known[path], moves) # path
              /\ path \in DOMAIN joined => joined[path] = Carried(known[path], moves)
         /\ \A path \in NamedBy(known, moves) :
              /\ path \in DOMAIN joined <=> choice[path] # path
              /\ path \in DOMAIN joined => joined[path] = choice[path]
         /\ DOMAIN joined \subseteq DOMAIN known \cup NamedBy(known, moves)
<1> DEFINE f == Joined(known, moves, choice)
<1>1. /\ DOMAIN f = DOMAIN known \cup NamedBy(known, moves)
      /\ \A path \in NamedBy(known, moves) : f[path] = choice[path]
      /\ \A path \in DOMAIN known : f[path] = Carried(known[path], moves)
  BY DEF Joined, NamedBy
<1> HIDE DEF f
<1>2. /\ DOMAIN joined = {path \in DOMAIN f : f[path] # path}
      /\ \A path \in DOMAIN joined : joined[path] = f[path]
  BY DEF Settled, Restrict, f
<1> QED BY <1>1, <1>2

(* Joined, they tell the truth of the whole span.                          *)
LEMMA JoinedTell ==
  ASSUME NEW old, NEW middle, NEW new, NEW last, NEW known, NEW moves,
         Joins(old, middle, new, last, known, moves),
         NEW choice, ChosenWell(old, middle, new, known, moves, choice),
         NEW joined, joined = Settled(Joined(known, moves, choice))
  PROVE  Tell(old, new, last, joined)
<1> DEFINE back == BackOf(known)
<1>1. /\ Paths(back) /\ Paths(moves)
      /\ \A i \in DOMAIN old \cap DOMAIN middle : Carried(middle[i].path, back) = old[i].path
      /\ \A i \in DOMAIN middle \cap DOMAIN new : Carried(middle[i].path, moves) = new[i].path
      /\ Moved(middle, new) \subseteq (DOMAIN middle \cap DOMAIN new) \ {Root}
  BY JoinsCarry
<1>2. /\ \A path \in DOMAIN known :
           /\ path \in DOMAIN joined <=> Carried(known[path], moves) # path
           /\ path \in DOMAIN joined => joined[path] = Carried(known[path], moves)
      /\ \A path \in NamedBy(known, moves) :
           /\ path \in DOMAIN joined <=> choice[path] # path
           /\ path \in DOMAIN joined => joined[path] = choice[path]
      /\ DOMAIN joined \subseteq DOMAIN known \cup NamedBy(known, moves)
  BY JoinedIs
<1>3. /\ IsPrinting(old) /\ IsPrinting(middle) /\ IsPrinting(new)
      /\ OneAPath(old) /\ OneAPath(middle) /\ OneAPath(new)
      /\ AboveKept(old, middle) /\ AboveKept(middle, new)
      /\ DOMAIN old \cap DOMAIN new \subseteq DOMAIN middle
      /\ DOMAIN middle \cap last \subseteq DOMAIN new
      /\ Moved(middle, new) \subseteq last
      /\ AreMoves(moves, middle, new) /\ NoneLost(old, middle, new, known)
  BY DEF Joins, Between
<1>4. /\ DOMAIN known \subseteq Seq(Segment)
      /\ TellMoved(old, middle, known) /\ TellOthers(old, middle, known)
      /\ \A path \in DOMAIN known : TellOne(old, middle, last, known, path)
  BY DEF Joins, Tell
(* Where a name comes from. *)
<1>5. ASSUME NEW path \in NamedBy(known, moves)
      PROVE  /\ path \notin DOMAIN known
             /\ \E y \in Moved(middle, new) :
                  choice[path] = new[y].path /\ Carried(middle[y].path, back) = path
  <2>1. choice[path] \in MovingTo(known, moves, path) /\ path \notin DOMAIN known
    BY DEF ChosenWell, NamedBy
  <2>2. PICK m \in DOMAIN moves : Carried(m, back) = path /\ choice[path] = moves[m]
    BY <2>1 DEF MovingTo
  <2>3. PICK y \in Moved(middle, new) : m = middle[y].path
    BY <1>3, <2>2 DEF AreMoves
  <2>4. moves[m] = new[y].path
    BY <1>3, <2>3 DEF AreMoves
  <2> QED BY <2>1, <2>2, <2>3, <2>4
(* What a known move goes on to. *)
<1>6. ASSUME NEW path \in DOMAIN known
      PROVE  \E y \in (DOMAIN middle \cap DOMAIN new \cap last) \ {Root} :
               /\ known[path] = middle[y].path /\ (y \in DOMAIN old => path = old[y].path)
               /\ Carried(known[path], moves) = new[y].path
  <2>1. TellOne(old, middle, last, known, path)
    BY <1>4
  <2>2. PICK y \in (DOMAIN middle \cap last) \ {Root} :
          known[path] = middle[y].path /\ (y \in DOMAIN old => path = old[y].path)
    BY <2>1 DEF TellOne
  <2>3. y \in DOMAIN new
    BY <1>3
  <2> QED BY <1>1, <2>2, <2>3
<1>7. DOMAIN joined \subseteq Seq(Segment)
  <2> SUFFICES ASSUME NEW path \in NamedBy(known, moves) PROVE path \in Seq(Segment)
    BY <1>2, <1>4
  <2>1. PICK y \in Moved(middle, new) : Carried(middle[y].path, back) = path
    BY <1>5
  <2>2. middle[y].path \in Seq(Segment)
    BY <1>1, <1>3, AboveIs
  <2> QED BY <1>1, <2>1, <2>2, CarriedIsPath
<1>8. ASSUME NEW i \in (DOMAIN old \cap DOMAIN new) \ {Root}, Last(old[i].path) # Last(new[i].path)
      PROVE  old[i].path \in DOMAIN joined /\ joined[old[i].path] = new[i].path
  <2> DEFINE q == old[i].path
  <2>1. i \in DOMAIN middle /\ new[i].path # q
    BY <1>3, <1>8
  <2>2. CASE q \in DOMAIN known /\ known[q] = middle[i].path
    <3>1. Carried(known[q], moves) = new[i].path
      BY <1>1, <2>1, <2>2
    <3> QED BY <1>2, <2>1, <2>2, <3>1
  <2>3. CASE ~(q \in DOMAIN known /\ known[q] = middle[i].path)
    <3>1. Last(q) = Last(middle[i].path)
      BY <1>4, <2>1, <2>3 DEF TellMoved
    <3>2. i \in Moved(middle, new)
      BY <1>8, <2>1, <3>1 DEF Moved
    <3>3. q \notin DOMAIN known
      BY <1>3, <2>3, <3>2 DEF NoneLost
    <3>4. middle[i].path \in DOMAIN moves /\ Carried(middle[i].path, back) = q
      BY <1>1, <1>3, <2>1, <3>2 DEF AreMoves
    <3>5. q \in NamedBy(known, moves)
      BY <3>3, <3>4 DEF NamedBy
    <3>6. choice[q] = new[i].path
      BY <3>2, <3>5 DEF ChosenWell
    <3> QED BY <1>2, <2>1, <3>5, <3>6
  <2> QED BY <2>2, <2>3
<1>9. ASSUME NEW i \in (DOMAIN old \cap DOMAIN new) \ {Root}, NEW y \in DOMAIN new,
             old[i].path \in DOMAIN joined, joined[old[i].path] = new[y].path, y # i
      PROVE  y \notin DOMAIN old /\ new[y].above # old[i].above
  <2> DEFINE q == old[i].path
             h == old[i].above
  <2>1. i \in DOMAIN middle
    BY <1>3
  <2>2. CASE q \in DOMAIN known
    <3>1. PICK x \in (DOMAIN middle \cap DOMAIN new \cap last) \ {Root} :
            known[q] = middle[x].path /\ Carried(known[q], moves) = new[x].path
      BY <1>6, <2>2
    <3>2. x = y
      BY <1>2, <1>3, <1>9, <2>2, <3>1 DEF OneAPath
    <3>3. y \notin DOMAIN old /\ middle[y].above # h
      BY <1>4, <1>9, <2>1, <2>2, <3>1, <3>2 DEF TellOthers
    <3>4. new[y].above = middle[y].above
      BY <1>3, <3>1, <3>2 DEF AboveKept
    <3> QED BY <3>3, <3>4
  <2>3. CASE q \notin DOMAIN known
    <3>1. q \in NamedBy(known, moves)
      BY <1>2, <1>9, <2>3
    <3>2. PICK x \in Moved(middle, new) :
            choice[q] = new[x].path /\ Carried(middle[x].path, back) = q
      BY <1>5, <3>1
    <3>3. x = y
      BY <1>1, <1>2, <1>3, <1>9, <3>1, <3>2 DEF OneAPath
    <3>4. y \in DOMAIN middle /\ y # Root /\ new[y].above = middle[y].above
      BY <1>1, <1>3, <3>2, <3>3 DEF AboveKept
    <3>5. ASSUME y \in DOMAIN old PROVE FALSE
      <4>1. old[y].path = q
        BY <1>1, <3>2, <3>3, <3>4, <3>5
      <4> QED BY <1>3, <1>9, <3>5, <4>1 DEF OneAPath
    <3>6. ASSUME new[y].above = h PROVE FALSE
      <4> DEFINE t == middle[y].path
                 u == middle[i].path
      <4>1. /\ h \in DOMAIN old /\ q \in Seq(Segment) /\ q # <<>> /\ old[h].path = Front(q)
        BY <1>3, AboveIs
      <4>2. /\ h \in DOMAIN middle /\ t \in Seq(Segment) /\ t # <<>>
            /\ middle[h].path = Front(t)
        <5>1. middle[y].above = h
          BY <3>4, <3>6
        <5> QED BY <1>3, <3>4, <5>1, AboveIs
      <4>3. /\ u \in Seq(Segment) /\ u # <<>> /\ middle[h].path = Front(u)
        <5>1. middle[i].above = h
          BY <1>3, <2>1 DEF AboveKept
        <5> QED BY <1>3, <2>1, <5>1, AboveIs
      <4>4. Last(q) = Last(u)
        BY <1>4, <2>1, <2>3 DEF TellMoved
      <4>5. t \notin DOMAIN back
        <5>1. ASSUME t \in DOMAIN back PROVE FALSE
          <6>1. back[t] \in DOMAIN known
            BY <5>1, BackIs
          <6>2. Carried(t, back) = back[t]
            <7> HIDE DEF back, t
            <7> QED BY <1>1, <4>2, <5>1, CarriedStep
          <6> QED BY <2>3, <3>2, <3>3, <6>1, <6>2
        <5> QED BY <5>1
      <4>6. Carried(t, back) = Append(Carried(Front(t), back), Last(t))
        <5> HIDE DEF back, t
        <5> QED BY <1>1, <4>2, <4>5, CarriedStep
      <4>7. Carried(Front(t), back) = Front(q)
        BY <1>1, <4>1, <4>2
      <4>8. q = Append(Front(q), Last(t))
        BY <3>2, <3>3, <4>6, <4>7
      <4> HIDE DEF q, t, u
      <4>9. Last(t) = Last(q)
        <5>1. Append(Front(q), Last(q)) = q /\ Last(q) \in Segment /\ Last(t) \in Segment
              /\ Front(q) \in Seq(Segment)
          BY <4>1, <4>2, LastIs, FrontIs
        <5> DEFINE f == Front(q)
                   a == Last(q)
                   b == Last(t)
        <5>2. Append(f, a) = Append(f, b) /\ a \in Segment /\ b \in Segment /\ f \in Seq(Segment)
          BY <4>8, <5>1
        <5> HIDE DEF f, a, b
        <5>3. a = b
          BY <5>2, AppendInjective
        <5> QED BY <5>3 DEF a, b
      <4>10. t = u
        <5>1. Append(Front(t), Last(t)) = t /\ Append(Front(u), Last(u)) = u
          BY <4>2, <4>3, LastIs
        <5> QED BY <4>2, <4>3, <4>4, <4>9, <5>1
      <4> QED BY <1>3, <1>9, <2>1, <3>4, <4>10 DEF OneAPath, t, u
    <3> QED BY <3>5, <3>6
  <2> QED BY <2>2, <2>3
<1>10. ASSUME NEW path \in DOMAIN joined PROVE TellOne(old, new, last, joined, path)
  <2>1. CASE path \in DOMAIN known
    <3>1. PICK y \in (DOMAIN middle \cap DOMAIN new \cap last) \ {Root} :
            /\ y \in DOMAIN old => path = old[y].path
            /\ Carried(known[path], moves) = new[y].path
      BY <1>6, <2>1
    <3>2. joined[path] = new[y].path
      BY <1>2, <2>1, <3>1
    <3> QED BY <3>1, <3>2 DEF TellOne
  <2>2. CASE path \in NamedBy(known, moves)
    <3>1. PICK y \in Moved(middle, new) :
            choice[path] = new[y].path /\ Carried(middle[y].path, back) = path
      BY <1>5, <2>2
    <3>2. joined[path] = new[y].path
      BY <1>2, <2>2, <3>1
    <3>3. y \in DOMAIN old => path = old[y].path
      BY <1>1, <3>1
    <3>4. y \in (DOMAIN new \cap last) \ {Root}
      BY <1>1, <1>3
    <3> QED BY <3>2, <3>3, <3>4 DEF TellOne
  <2> QED BY <1>2, <2>1, <2>2
<1>11. TellMoved(old, new, joined)
  BY <1>8 DEF TellMoved
<1>12. TellOthers(old, new, joined)
  BY <1>9 DEF TellOthers
<1> QED BY <1>7, <1>10, <1>11, <1>12 DEF Tell

(* So some way of joining them does.                                       *)
LEMMA ThenTells ==
  ASSUME NEW old, NEW middle, NEW new, NEW last, NEW known, NEW moves,
         Joins(old, middle, new, last, known, moves)
  PROVE  \E joined \in Then(known, moves) : Tell(old, new, last, joined)
<1>1. PICK choice : ChosenWell(old, middle, new, known, moves, choice)
  BY SomeChosen
<1> DEFINE joined == Settled(Joined(known, moves, choice))
<1>2. joined \in Then(known, moves)
  BY <1>1, ThenHas DEF ChosenWell
<1>3. Tell(old, new, last, joined)
  BY <1>1, JoinedTell
<1> QED BY <1>2, <1>3

-----------------------------------------------------------------------------
(* A diff that reads renumberings that tell the truth.                     *)

(* What is told of the two printings compared.                             *)
Compared(old, new, last, known) ==
  /\ IsPrinting(old) /\ IsPrinting(new) /\ OneAPath(old) /\ OneAPath(new)
  /\ AboveKept(old, new) /\ Tell(old, new, last, known)

(* One that is alone is in the first place.                                *)
LEMMA PlaceAlone ==
  ASSUME NEW S, NEW T, NEW i, S = {i}, T = {i}
  PROVE  Place(S, i) = Place(T, i)
BY DEF Place

(* A child both hold, of one parent, is paired with itself.                *)
LEMMA PairedWithItself ==
  ASSUME NEW old, NEW new, NEW last, NEW known, Compared(old, new, last, known),
         NEW a \in (DOMAIN old \cap DOMAIN new) \ {Root}
  PROVE  <<a, a>> \in Paired(old, new, known, old[a].above, old[a].above)
<1> DEFINE h == old[a].above
           q == old[a].path
           moved == Renumbered(old, new, known, h, h)
           oldLeft == OldLeft(old, new, known, h, h)
           newLeft == NewLeft(old, new, known, h, h)
<1>1. /\ IsPrinting(old) /\ IsPrinting(new) /\ OneAPath(old) /\ OneAPath(new)
      /\ TellMoved(old, new, known) /\ TellOthers(old, new, known)
      /\ \A path \in DOMAIN known : TellOne(old, new, last, known, path)
      /\ new[a].above = h
  BY DEF Compared, Tell, AboveKept
<1>2. a \in Children(old, h) /\ a \in Children(new, h)
  BY <1>1 DEF Children
(* Only its own move goes to where it is. *)
<1>3. ASSUME NEW c \in DOMAIN old, old[c].path \in DOMAIN known,
             known[old[c].path] = new[a].path
      PROVE  c = a
  <2>1. PICK y \in (DOMAIN new \cap last) \ {Root} :
          /\ known[old[c].path] = new[y].path
          /\ y \in DOMAIN old => old[c].path = old[y].path
    BY <1>1, <1>3 DEF TellOne
  <2>2. y = a
    BY <1>1, <1>3, <2>1 DEF OneAPath
  <2> QED BY <1>1, <2>1, <2>2 DEF OneAPath
<1>4. CASE q \in DOMAIN known /\ known[q] = new[a].path
  <2> DEFINE path == new[a].path
             to == {c \in Children(old, h) : /\ old[c].path \in DOMAIN known
                                             /\ known[old[c].path] = path}
             at == {b \in Children(new, h) : new[b].path = path}
  <2>1. to = {a}
    <3>1. a \in to
      BY <1>2, <1>4
    <3>2. \A c \in to : c = a
      BY <1>3 DEF Children
    <3> HIDE DEF to
    <3> QED BY <3>1, <3>2
  <2>2. at = {a}
    <3>1. a \in at
      BY <1>2
    <3>2. \A b \in at : b = a
      BY <1>1 DEF Children, OneAPath
    <3> HIDE DEF at
    <3> QED BY <3>1, <3>2
  <2>3. a \in to /\ Place(to, a) = Place(at, a)
    <3> HIDE DEF to, at
    <3> QED BY <2>1, <2>2, PlaceAlone
  <2>4. <<a, a>> \in moved
    BY <1>2, <2>3 DEF Renumbered
  <2> QED BY <2>4, PairedIs
<1>5. CASE ~(q \in DOMAIN known /\ known[q] = new[a].path)
  <2>1. Last(q) = Last(new[a].path)
    BY <1>1, <1>5 DEF TellMoved
  <2>2. a \in oldLeft
    <3>1. ASSUME NEW m \in moved, m[1] = a PROVE FALSE
      <4> DEFINE b == m[2]
      <4>1. b \in DOMAIN new /\ new[b].above = h /\ q \in DOMAIN known /\ known[q] = new[b].path
        BY <3>1 DEF Renumbered, Children
      <4>2. b # a
        BY <1>5, <4>1
      <4> QED BY <1>1, <4>1, <4>2 DEF TellOthers
    <3> QED BY <1>2, <3>1 DEF OldLeft, Ones
  <2>3. a \in newLeft
    <3>1. ASSUME NEW m \in moved, m[2] = a PROVE FALSE
      <4> DEFINE c == m[1]
      <4>1. c \in DOMAIN old /\ old[c].path \in DOMAIN known /\ known[old[c].path] = new[a].path
        BY <3>1 DEF Renumbered, Children
      <4>2. c = a
        BY <1>3, <4>1
      <4> QED BY <1>5, <4>1, <4>2
    <3> QED BY <1>2, <3>1 DEF NewLeft, Others
  <2>4. \A i \in DOMAIN old : i \in oldLeft /\ Number(old, i) = Number(old, a) => i = a
    <3> SUFFICES ASSUME NEW i \in DOMAIN old, i \in oldLeft, Number(old, i) = Number(old, a)
                 PROVE  i = a
      OBVIOUS
    <3>1. old[i].above = h
      BY DEF OldLeft, Children
    <3>2. i # Root
      <4>1. old[Root].above = 0 /\ h # 0
        <5>1. h \in DOMAIN old
          BY <1>1, AboveIs
        <5> HIDE DEF h
        <5> QED BY <1>1, <5>1 DEF IsPrinting, Printing
      <4> QED BY <3>1, <4>1
    <3> QED BY <1>1, <3>1, <3>2, SameNumber
  <2>5. \A i \in DOMAIN new : i \in newLeft /\ Number(new, i) = Number(new, a) => i = a
    <3> SUFFICES ASSUME NEW i \in DOMAIN new, i \in newLeft, Number(new, i) = Number(new, a)
                 PROVE  i = a
      OBVIOUS
    <3>1. new[i].above = h
      BY DEF NewLeft, Children
    <3>2. i # Root
      <4>1. new[Root].above = 0 /\ h # 0
        <5>1. h \in DOMAIN old
          BY <1>1, AboveIs
        <5> HIDE DEF h
        <5> QED BY <1>1, <5>1 DEF IsPrinting, Printing
      <4> QED BY <3>1, <4>1
    <3> QED BY <1>1, <3>1, <3>2, SameNumber
  <2>6. oldLeft \subseteq DOMAIN old /\ newLeft \subseteq DOMAIN new
    BY DEF OldLeft, NewLeft, Children
  <2> HIDE DEF oldLeft, newLeft
  <2>7. ByNumber(old, oldLeft, a) = {a}
    BY <2>2, <2>4, <2>6 DEF ByNumber
  <2>8. ByNumber(new, newLeft, a) = {a}
    BY <2>3, <2>5, <2>6 DEF ByNumber
  <2>9. AlikeIn(old, new, oldLeft, newLeft, a, a)
    <3>1. Place(ByNumber(old, oldLeft, a), a) = Place(ByNumber(new, newLeft, a), a)
      BY <2>7, <2>8, PlaceAlone
    <3> QED BY <2>1, <2>2, <2>3, <3>1 DEF AlikeIn, Number
  <2> QED BY <2>9, PairedIs DEF oldLeft, newLeft
<1> QED BY <1>4, <1>5

(* A provision both hold is compared with itself.                          *)
LEMMA ItselfIsMate ==
  ASSUME NEW old, NEW new, NEW last, NEW known, Compared(old, new, last, known),
         NEW mate, mate = Mates(old, new, known), NEW i \in DOMAIN old \cap DOMAIN new
  PROVE  mate[i] = i
<1> DEFINE wrong == {a \in DOMAIN old \cap DOMAIN new : mate[a] # a}
<1>0. IsPrinting(old) /\ IsPrinting(new) /\ AboveKept(old, new)
  BY DEF Compared
<1>1. wrong = {}
  <2> SUFFICES ASSUME wrong # {} PROVE FALSE
    OBVIOUS
  <2>1. PICK a \in wrong : \A x \in wrong : a <= x
    <3>1. wrong \in SUBSET Nat
      BY <1>0, AboveIs
    <3> HIDE DEF wrong
    <3> QED BY <3>1, LeastMember
  <2>2. a \in DOMAIN old /\ a \in DOMAIN new /\ mate[a] # a
    OBVIOUS
  <2>3. a # Root
    BY <1>0, <2>2, MatesAre
  <2> DEFINE h == old[a].above
             pairs == Paired(old, new, known, h, h)
  <2>4. h \in DOMAIN old /\ h < a /\ h \in Nat \ {0} /\ a \in Nat
    <3>1. h \in DOMAIN old /\ h < a
      BY <1>0, <2>2, <2>3, AboveIs
    <3> HIDE DEF h
    <3> QED BY <1>0, <2>2, <3>1, AboveIs
  <2>5. h \in DOMAIN new
    <3>1. new[a].above = h
      BY <1>0, <2>2 DEF AboveKept
    <3> QED BY <1>0, <2>2, <2>3, <3>1, AboveIs
  <2>6. mate[h] = h
    <3>1. h \notin wrong
      <4> HIDE DEF wrong, h
      <4> QED BY <2>1, <2>4
    <3> QED BY <2>4, <2>5, <3>1
  <2>7. mate[a] = MateIn(pairs, a)
    <3>1. mate[h] # 0
      BY <2>4, <2>6
    <3>2. mate[a] = MateIn(Paired(old, new, known, h, mate[h]), a)
      BY <1>0, <2>2, <2>3, <3>1, MatesAre
    <3> QED BY <2>6, <3>2
  <2>8. <<a, a>> \in pairs
    BY <2>2, <2>3, PairedWithItself
  <2>9. MateIn(pairs, a) = a
    <3>1. \A m \in pairs : m = <<m[1], m[2]>>
      BY PairedAreChildren
    <3>2. \A c : <<a, c>> \in pairs => c = a
      <4> HIDE DEF h
      <4> QED BY <1>0, <2>8, PairedOnce
    <3> HIDE DEF pairs
    <3> QED BY <2>8, <3>1, <3>2, MateIsThe
  <2> QED BY <2>2, <2>7, <2>9
<1> QED BY <1>1

(* And nothing else is compared with it.                                   *)
LEMMA NoOtherIsMate ==
  ASSUME NEW old, NEW new, NEW last, NEW known, Compared(old, new, last, known),
         NEW mate, mate = Mates(old, new, known),
         NEW i \in DOMAIN old, mate[i] # 0, mate[i] \in DOMAIN old
  PROVE  mate[i] = i
<1> DEFINE wrong == {a \in DOMAIN old : mate[a] # 0 /\ mate[a] \in DOMAIN old /\ mate[a] # a}
<1>0. IsPrinting(old) /\ IsPrinting(new) /\ AboveKept(old, new)
  BY DEF Compared
<1>1. wrong = {}
  <2> SUFFICES ASSUME wrong # {} PROVE FALSE
    OBVIOUS
  <2>1. PICK a \in wrong : \A x \in wrong : a <= x
    <3>1. wrong \in SUBSET Nat
      BY <1>0, AboveIs
    <3> HIDE DEF wrong
    <3> QED BY <3>1, LeastMember
  <2>2. a \in DOMAIN old /\ mate[a] # 0 /\ mate[a] \in DOMAIN old /\ mate[a] # a
    OBVIOUS
  <2>3. a # Root
    BY <1>0, <2>2, MatesAre
  <2> DEFINE h == old[a].above
             b == mate[a]
             g == mate[h]
  <2>4. /\ h \in DOMAIN old /\ g # 0 /\ <<a, b>> \in Paired(old, new, known, h, g)
        /\ b \in DOMAIN new /\ new[b].above = g /\ g \in DOMAIN new /\ b # Root
    BY <1>0, <2>2, <2>3, MatesArePaired
  <2>5. h < a /\ h \in Nat /\ a \in Nat
    BY <1>0, <2>2, <2>3, <2>4, AboveIs
  <2> HIDE DEF b, g
  <2>6. old[b].above = g /\ g \in DOMAIN old
    <3>1. b \in DOMAIN old /\ b # Root /\ b \in DOMAIN new
      BY <2>2, <2>4 DEF b
    <3>2. old[b].above = g
      BY <1>0, <2>4, <3>1 DEF AboveKept
    <3> QED BY <1>0, <3>1, <3>2, AboveIs
  <2>7. g = h
    <3>1. h \notin wrong
      <4> HIDE DEF wrong, h
      <4> QED BY <2>1, <2>5
    <3> QED BY <2>4, <2>6, <3>1 DEF g
  <2>8. <<b, b>> \in Paired(old, new, known, h, h)
    <3>1. b \in (DOMAIN old \cap DOMAIN new) \ {Root}
      BY <2>2, <2>4 DEF b
    <3> HIDE DEF h
    <3> QED BY <2>6, <2>7, <3>1, PairedWithItself
  <2>9. a = b
    <3>1. <<a, b>> \in Paired(old, new, known, h, h)
      BY <2>4, <2>7
    <3> HIDE DEF h
    <3> QED BY <1>0, <2>8, <3>1, PairedOnceBack
  <2> QED BY <2>2, <2>9 DEF b
<1> QED BY <1>1

(* So the diff says what is true.                                          *)
LEMMA DiffIsTrue ==
  ASSUME NEW old, NEW new, NEW last, NEW known, Compared(old, new, last, known)
  PROVE  IsTrue(old, new, Mates(old, new, known))
<1> DEFINE mate == Mates(old, new, known)
<1>1. mate \in [DOMAIN old -> DOMAIN new \cup {0}]
  BY MatesAre DEF Compared
<1>2. ASSUME NEW a \in DOMAIN old, a \in DOMAIN new PROVE mate[a] = a
  BY <1>2, ItselfIsMate
<1>3. ASSUME NEW a \in DOMAIN old, a \notin DOMAIN new, mate[a] # 0 PROVE mate[a] \notin DOMAIN old
  <2>1. ASSUME mate[a] \in DOMAIN old PROVE FALSE
    <3>1. mate[a] = a
      BY <1>3, <2>1, NoOtherIsMate
    <3>2. mate[a] \in DOMAIN new
      BY <1>1, <1>3
    <3> QED BY <1>3, <3>1, <3>2
  <2> QED BY <2>1
<1> HIDE DEF mate
<1>4. IsTrue(old, new, mate)
  BY <1>2, <1>3 DEF IsTrue
<1> QED BY <1>4 DEF mate

-----------------------------------------------------------------------------
(* The windows of a span.                                                  *)

(* The renumberings of one more window, joined in each way.                *)
WithWindow(ways, w) == UNION {Then(known, Moves(w)) : known \in ways}

IsOver(m, n, f) ==
  f = [k \in m + 1..n |-> IF k = m + 1 THEN {Moves(m)} ELSE WithWindow(f[k - 1], k - 1)]

(* Over, as the recursion it is.                                           *)
LEMMA OverExists ==
  ASSUME NEW m \in Nat, NEW n \in Nat, m < n
  PROVE  \E f : IsOver(m, n, f)
<1> DEFINE open == {x \in Nat : m < x /\ ~ \E f : IsOver(m, x, f)}
<1>1. open = {}
  <2> SUFFICES ASSUME open # {} PROVE FALSE
    OBVIOUS
  <2>1. PICK x \in open : \A y \in open : x <= y
    <3>1. open \in SUBSET Nat
      OBVIOUS
    <3> HIDE DEF open
    <3> QED BY <3>1, LeastMember
  <2>2. x \in Nat /\ m < x /\ ~ \E f : IsOver(m, x, f)
    OBVIOUS
  <2>3. CASE x = m + 1
    <3> DEFINE f == [k \in m + 1..x |-> {Moves(m)}]
    <3>1. \A k \in m + 1..x : k = m + 1
      BY <2>3
    <3>2. IsOver(m, x, f)
      BY <3>1 DEF IsOver
    <3> QED BY <2>2, <3>2
  <2>4. CASE x # m + 1
    <3>1. x - 1 \in Nat /\ m < x - 1 /\ x - 1 < x
      BY <2>2, <2>4
    <3>2. x - 1 \notin open
      <4> HIDE DEF open
      <4> QED BY <2>1, <2>2, <3>1
    <3>3. PICK f : IsOver(m, x - 1, f)
      BY <3>1, <3>2
    <3> DEFINE g == [k \in m + 1..x |-> IF k = x THEN WithWindow(f[x - 1], x - 1) ELSE f[k]]
               of(k) == IF k = m + 1 THEN {Moves(m)} ELSE WithWindow(g[k - 1], k - 1)
    <3>4. \A k \in m + 1..x - 1 : /\ g[k] = f[k]
                                  /\ f[k] = IF k = m + 1 THEN {Moves(m)}
                                            ELSE WithWindow(f[k - 1], k - 1)
      <4>1. \A k \in m + 1..x - 1 : f[k] = IF k = m + 1 THEN {Moves(m)}
                                           ELSE WithWindow(f[k - 1], k - 1)
        BY <3>3 DEF IsOver
      <4>2. \A k \in m + 1..x - 1 : k \in m + 1..x /\ k # x
        BY <2>2
      <4> QED BY <4>1, <4>2
    <3>5. ASSUME NEW k \in m + 1..x PROVE g[k] = of(k)
      <4> HIDE DEF g
      <4>1. CASE k = x
        <5>1. g[x] = WithWindow(f[x - 1], x - 1)
          BY <2>2 DEF g
        <5>2. x - 1 \in m + 1..x - 1
          BY <3>1
        <5>3. g[x - 1] = f[x - 1]
          BY <3>4, <5>2
        <5> QED BY <2>4, <4>1, <5>1, <5>3
      <4>2. CASE k # x /\ k = m + 1
        <5>1. k \in m + 1..x - 1
          BY <2>2, <4>2
        <5> QED BY <3>4, <4>2, <5>1
      <4>3. CASE k # x /\ k # m + 1
        <5>1. k \in m + 1..x - 1 /\ k - 1 \in m + 1..x - 1
          BY <2>2, <4>3
        <5>2. g[k] = WithWindow(f[k - 1], k - 1) /\ g[k - 1] = f[k - 1]
          BY <3>4, <4>3, <5>1
        <5> QED BY <4>3, <5>2
      <4> QED BY <4>1, <4>2, <4>3
    <3>6. IsOver(m, x, g)
      <4>1. g = [k \in m + 1..x |-> g[k]]
        OBVIOUS
      <4> HIDE DEF g
      <4>2. g = [k \in m + 1..x |-> of(k)]
        BY <3>5, <4>1
      <4> QED BY <4>2 DEF IsOver
    <3> HIDE DEF g
    <3> QED BY <2>2, <3>6
  <2> QED BY <2>3, <2>4
<1> QED BY <1>1

(* A span is its first window, and each later one joined to those before.  *)
LEMMA OverIs ==
  ASSUME NEW m \in Nat, NEW n \in Nat, m < n
  PROVE  /\ Over(m, m + 1) = {Moves(m)}
         /\ Over(m, n + 1) = WithWindow(Over(m, n), n)
<1> DEFINE of(x) == CHOOSE f : IsOver(m, x, f)
<1>1. ASSUME NEW x \in Nat, m < x
      PROVE  /\ Over(m, x) = of(x)[x]
             /\ \A k \in m + 1..x : of(x)[k] = IF k = m + 1 THEN {Moves(m)}
                                               ELSE WithWindow(of(x)[k - 1], k - 1)
  <2>1. IsOver(m, x, of(x))
    BY <1>1, OverExists
  <2>2. Over(m, x) = of(x)[x]
    BY Zenon DEF Over, IsOver, WithWindow
  <2> HIDE DEF of
  <2>3. \A k \in m + 1..x : of(x)[k] = IF k = m + 1 THEN {Moves(m)}
                                       ELSE WithWindow(of(x)[k - 1], k - 1)
    BY <2>1 DEF IsOver
  <2> QED BY <2>2, <2>3
<1> HIDE DEF of
<1>2. Over(m, m + 1) = {Moves(m)}
  <2>1. m + 1 \in Nat /\ m < m + 1 /\ m + 1 \in m + 1..m + 1
    OBVIOUS
  <2> QED BY <1>1, <2>1
<1> DEFINE f == of(n)
           g == of(n + 1)
           wrong == {k \in m + 1..n : f[k] # g[k]}
<1>3. /\ \A k \in m + 1..n : f[k] = IF k = m + 1 THEN {Moves(m)} ELSE WithWindow(f[k - 1], k - 1)
      /\ \A k \in m + 1..n + 1 : g[k] = IF k = m + 1 THEN {Moves(m)} ELSE WithWindow(g[k - 1], k - 1)
      /\ Over(m, n) = f[n] /\ Over(m, n + 1) = g[n + 1]
  <2>1. n + 1 \in Nat /\ m < n + 1
    OBVIOUS
  <2> QED BY <1>1, <2>1
<1> HIDE DEF f, g
<1>4. wrong = {}
  <2> SUFFICES ASSUME wrong # {} PROVE FALSE
    OBVIOUS
  <2>1. PICK k \in wrong : \A x \in wrong : k <= x
    <3>1. wrong \in SUBSET Nat
      OBVIOUS
    <3> HIDE DEF wrong
    <3> QED BY <3>1, LeastMember
  <2>2. k \in m + 1..n /\ k \in m + 1..n + 1 /\ f[k] # g[k] /\ k \in Nat
    OBVIOUS
  <2>3. CASE k = m + 1
    BY <1>3, <2>2, <2>3
  <2>4. CASE k # m + 1
    <3>1. k - 1 \in m + 1..n /\ k - 1 < k /\ k - 1 \in Nat
      BY <2>2, <2>4
    <3>2. k - 1 \notin wrong
      <4> HIDE DEF wrong
      <4> QED BY <2>1, <2>2, <3>1
    <3>3. f[k - 1] = g[k - 1]
      BY <3>1, <3>2
    <3> QED BY <1>3, <2>2, <2>4, <3>3
  <2> QED BY <2>3, <2>4
<1>5. f[n] = g[n]
  <2>1. n \in m + 1..n
    OBVIOUS
  <2> QED BY <1>4, <2>1
<1>6. g[n + 1] = WithWindow(g[n], n)
  <2>1. n + 1 \in m + 1..n + 1 /\ n + 1 # m + 1 /\ (n + 1) - 1 = n
    OBVIOUS
  <2> QED BY <1>3, <2>1
<1> QED BY <1>2, <1>3, <1>5, <1>6

-----------------------------------------------------------------------------
(* The printings published, and the links of each window.                  *)

(* The members of a finite set, one after another.                         *)
LEMMA SetToSeqIs ==
  ASSUME NEW S, IsFiniteSet(S)
  PROVE  SetToSeq(S) \in Seq(S) /\ \A x \in S : \E n \in 1..Len(SetToSeq(S)) : SetToSeq(S)[n] = x
<1> DEFINE n == Cardinality(S)
           f == SetToSeq(S)
<1>1. n \in Nat /\ ExistsBijection(1..n, S)
  BY FS_CardinalityType
<1>2. PICK g \in [1..n -> S] : IsInjective(g)
  BY <1>1 DEF ExistsBijection, Bijection, Injection, IsInjective
<1>3. f \in [1..n -> S] /\ IsInjective(f)
  BY <1>2 DEF SetToSeq
<1> HIDE DEF f
<1>4. f \in Seq(S) /\ Len(f) = n
  BY <1>1, <1>3
<1>5. f \in Surjection(1..n, S)
  <2>1. f \in Injection(1..n, S)
    BY <1>3 DEF Injection, IsInjective
  <2>2. IsFiniteSet(1..n) /\ Cardinality(1..n) = n
    BY <1>1, FS_Interval
  <2> QED BY <2>1, <2>2, FS_Injection
<1>6. \A x \in S : \E k \in 1..n : f[k] = x
  BY <1>5 DEF Surjection
<1> QED BY <1>4, <1>6 DEF f

(* The printings there are.                                                *)
Docs == UNION {[D -> Provision] : D \in SUBSET Nat}

(* A draft is a printing, once published.                                  *)
LEMMA DraftIsDoc == ASSUME NEW doc, IsDraft(doc) PROVE doc \in Docs
<1>1. DOMAIN doc \in SUBSET Nat
  BY DEF IsDraft, IsPrinting, Printing
<1> QED BY <1>1 DEF IsDraft, Docs

(* What a link of a window names of a provision.                           *)
StepOf(all, w, i) ==
  [from |-> all[w][i].path, to |-> all[w + 1][i].path, window |-> <<w, w + 1>>]

(* A link names one whose own number a window changed, and each is named.  *)
NamesOne(s, all) ==
  \E w \in 1..Len(all) - 1 : \E i \in Moved(all[w], all[w + 1]) : s = StepOf(all, w, i)

AllNamed(all, list) ==
  \A w \in 1..Len(all) - 1 : \A i \in Moved(all[w], all[w + 1]) :
    \E n \in 1..Len(list) : list[n] = StepOf(all, w, i)

(* What amendments keep, from a printing on.                               *)
Follows(old, new) ==
  Keeps(old, new) /\ AboveKept(old, new) /\ (OneAPath(old) => OneAPath(new))

(* Every printing is a tree of provisions there were, and so is the draft; *)
(* nothing comes to share a path from one to the next or changes what      *)
(* holds it.                                                               *)
DraftsKeep ==
  /\ \A n \in 1..Last1 : IsDraft(printings[n]) /\ DOMAIN printings[n] \subseteq used
  /\ IsDraft(draft) /\ DOMAIN draft \subseteq used
  /\ \A n \in 1..Last1 - 1 : Follows(printings[n], printings[n + 1])
  /\ Follows(printings[Last1], draft)

(* What was struck never returns.                                          *)
StruckStay ==
  \A u, v \in 1..Last1 : u <= v =>
    /\ \A w \in 1..Last1 : v <= w =>
         DOMAIN printings[u] \cap DOMAIN printings[w] \subseteq DOMAIN printings[v]
    /\ DOMAIN printings[u] \cap DOMAIN draft \subseteq DOMAIN printings[v]

(* Provisions are numbered as they come, and the links are theirs.         *)
PrintingsInv ==
  /\ printings \in Seq(Docs) /\ Last1 \in Nat \ {0}
  /\ \E n \in Nat : used = 1..n
  /\ DraftsKeep /\ StruckStay
  /\ links \in Seq(Step) /\ \A n \in 1..Len(links) : NamesOne(links[n], printings)
  /\ AllNamed(printings, links)

(* The moves of a window are of the provisions whose own number changed.   *)
LEMMA MovesAre ==
  ASSUME PrintingsInv, NEW w \in 1..Last1 - 1
  PROVE  LET moved == Moved(printings[w], printings[w + 1]) IN
         /\ \A path \in DOMAIN Moves(w) : \E i \in moved :
              path = printings[w][i].path /\ Moves(w)[path] = printings[w + 1][i].path
         /\ \A i \in moved : printings[w][i].path \in DOMAIN Moves(w)
<1> DEFINE known == Moves(w)
           steps == {s \in Range(links) : s.window[1] = w}
           old == printings[w]
           new == printings[w + 1]
           at(path) == CHOOSE s \in steps : s.from = path
<1>1. known = [path \in {s.from : s \in steps} |-> at(path).to]
  BY Zenon DEF Moves
<1>2. links \in Seq(Step) /\ DOMAIN links = 1..Len(links)
  BY DEF PrintingsInv
<1>3. ASSUME NEW s \in steps
      PROVE  \E i \in Moved(old, new) : s.from = old[i].path /\ s.to = new[i].path
  <2>1. PICK n \in 1..Len(links) : s = links[n]
    BY <1>2 DEF Range
  <2>2. NamesOne(s, printings)
    BY <2>1 DEF PrintingsInv
  <2>3. PICK v \in 1..Len(printings) - 1 : \E i \in Moved(printings[v], printings[v + 1]) :
                                            s = StepOf(printings, v, i)
    BY <2>2 DEF NamesOne
  <2>4. PICK i \in Moved(printings[v], printings[v + 1]) : s = StepOf(printings, v, i)
    BY <2>3
  <2>5. s.window[1] = v
    BY <2>4 DEF StepOf
  <2>6. v = w
    BY <2>5
  <2> QED BY <2>4, <2>6 DEF StepOf
<1>4. ASSUME NEW i \in Moved(old, new) PROVE \E s \in steps : s.from = old[i].path
  <2>1. PICK n \in 1..Len(links) : links[n] = StepOf(printings, w, i)
    BY DEF PrintingsInv, AllNamed, Last1
  <2>2. links[n] \in Range(links) /\ links[n].window[1] = w /\ links[n].from = old[i].path
    BY <1>2, <2>1 DEF Range, StepOf
  <2> QED BY <2>2
<1> HIDE DEF steps, old, new
<1>5. ASSUME NEW path \in DOMAIN known
      PROVE  at(path) \in steps /\ at(path).from = path /\ known[path] = at(path).to
  <2>1. \E s \in steps : s.from = path
    BY <1>1
  <2>2. at(path) \in steps /\ at(path).from = path
    BY <2>1
  <2> QED BY <1>1, <2>2
<1> HIDE DEF at
<1>6. \A path \in DOMAIN known : \E i \in Moved(old, new) :
        path = old[i].path /\ known[path] = new[i].path
  BY <1>3, <1>5
<1>7. \A i \in Moved(old, new) : old[i].path \in DOMAIN known
  BY <1>1, <1>4
<1> HIDE DEF known
<1> QED BY <1>6, <1>7 DEF known, old, new

(* The moves of the last window can be read backwards.                     *)
LEMMA MovesReverse ==
  ASSUME PrintingsInv, Last1 > 1, NEW known, known = Moves(Last1 - 1), NEW back,
         back = [path \in Range(known) |-> CHOOSE from \in DOMAIN known : known[from] = path]
  PROVE  AreReverse(known, back)
<1> DEFINE w == Last1 - 1
           old == printings[w]
           new == printings[w + 1]
<1>1. w \in 1..Last1 - 1
  BY DEF PrintingsInv
<1>2. Keeps(old, new) /\ Moved(old, new) \subseteq DOMAIN old \cap DOMAIN new
  BY <1>1 DEF PrintingsInv, DraftsKeep, Follows, Moved
<1>3. \A path \in DOMAIN known : \E i \in Moved(old, new) :
        path = old[i].path /\ known[path] = new[i].path
  BY <1>1, MovesAre
<1> HIDE DEF old, new
<1>4. ASSUME NEW p \in DOMAIN known, NEW q \in DOMAIN known, known[p] = known[q]
      PROVE  p = q
  BY <1>2, <1>3, <1>4 DEF Keeps
<1>5. back = BackOf(known)
  BY DEF BackOf
<1>6. /\ DOMAIN back = Range(known)
      /\ \A t \in Range(known) : back[t] \in DOMAIN known /\ known[back[t]] = t
  BY <1>5, BackIs
<1>7. ASSUME NEW s \in DOMAIN known PROVE known[s] \in DOMAIN back /\ back[known[s]] = s
  <2>1. known[s] \in Range(known)
    BY DEF Range
  <2>2. back[known[s]] \in DOMAIN known /\ known[back[known[s]]] = known[s]
    BY <1>6, <2>1
  <2> QED BY <1>4, <1>6, <2>1, <2>2
<1> QED BY <1>6, <1>7 DEF AreReverse

(* Printings that keep these read backwards.                               *)
LEMMA InvReadsBackwards == ASSUME PrintingsInv PROVE ReadsBackwards
<1> SUFFICES ASSUME Fresh, Last1 > 1 PROVE ReadsBackwards
  BY DEF ReadsBackwards
<1> DEFINE old == printings[Last1 - 1]
           new == printings[Last1]
           known == Moves(Last1 - 1)
           back == [path \in Range(known) |-> CHOOSE from \in DOMAIN known : known[from] = path]
<1>1. IsPrinting(old) /\ IsPrinting(new)
  <2>1. Last1 \in 1..Last1 /\ Last1 - 1 \in 1..Last1
    BY DEF PrintingsInv
  <2> QED BY <2>1 DEF PrintingsInv, DraftsKeep, IsDraft
<1>2. AreReverse(known, back)
  BY MovesReverse
<1>3. IsReadBackwards(old, new, known, back)
  <2> HIDE DEF old, new, known, back
  <2> QED BY <1>1, <1>2, DiffReadsBackwards
<1> QED BY <1>3, Zenon DEF ReadsBackwards, IsReadBackwards

(* The first printing keeps them.                                          *)
LEMMA InvInit == Init => PrintingsInv
<1> SUFFICES ASSUME Init PROVE PrintingsInv
  OBVIOUS
<1>1. PICK doc \in First : printings = <<doc>> /\ draft = doc /\ used = DOMAIN doc
  BY DEF Init
<1>2. doc \in Seq(Provision) /\ Printing(doc)
  BY FirstAssumption
<1>3. DOMAIN doc = 1..Len(doc) /\ Len(doc) \in Nat /\ doc \in [DOMAIN doc -> Provision]
  BY <1>2, LenProperties
<1>4. IsDraft(doc)
  <2>1. IsFiniteSet(DOMAIN doc)
    BY <1>3, FS_Interval
  <2> QED BY <1>2, <1>3, <2>1 DEF IsDraft, IsPrinting
<1>5. doc \in Docs
  BY <1>4, DraftIsDoc
<1>6. printings \in Seq(Docs) /\ Last1 = 1 /\ printings[1] = doc
  BY <1>1, <1>5 DEF Last1
<1>7. Follows(doc, doc)
  BY DEF Follows, Keeps, AboveKept
<1>8. DraftsKeep /\ StruckStay
  BY <1>1, <1>4, <1>6, <1>7 DEF DraftsKeep, StruckStay
<1>9. links = <<>> /\ AllNamed(printings, links)
  <2>1. ~ \E w : w \in 1..Len(printings) - 1
    BY <1>6 DEF Last1
  <2> QED BY <2>1 DEF AllNamed, Init
<1>10. links \in Seq(Step) /\ ~ \E n : n \in 1..Len(links)
  BY <1>9
<1> QED BY <1>1, <1>3, <1>6, <1>8, <1>9, <1>10 DEF PrintingsInv

(* An amendment keeps the relation of the draft to what was published.     *)
LEMMA AmendKeeps ==
  ASSUME PrintingsInv, NEW new, Amend(new), IsDraft(new), Follows(draft, new),
         DOMAIN new \subseteq used', DOMAIN new \cap used \subseteq DOMAIN draft,
         used \subseteq used', \E n \in Nat : used' = 1..n
  PROVE  PrintingsInv'
<1>1. draft' = new /\ printings' = printings /\ links' = links
  BY DEF Amend
<1> DEFINE old == printings[Last1]
<1>2. DOMAIN old \subseteq used
  <2>1. Last1 \in 1..Last1
    BY DEF PrintingsInv
  <2> QED BY <2>1 DEF PrintingsInv, DraftsKeep
<1>3. Follows(old, new)
  <2>1. \A i \in DOMAIN old \cap DOMAIN new : i \in DOMAIN draft
    BY <1>2
  <2>2. Follows(old, draft)
    BY DEF PrintingsInv, DraftsKeep
  <2> HIDE DEF old
  <2>3. Keeps(old, new)
    BY <2>1, <2>2 DEF Follows, Keeps
  <2>4. AboveKept(old, new)
    BY <2>1, <2>2 DEF Follows, AboveKept
  <2> QED BY <2>2, <2>3, <2>4 DEF Follows
<1>4. DraftsKeep'
  <2>1. Last1' = Last1
    BY <1>1 DEF Last1
  <2>2. \A n \in 1..Last1 : DOMAIN printings[n] \subseteq used'
    BY DEF PrintingsInv, DraftsKeep
  <2> QED BY <1>1, <1>3, <2>1, <2>2 DEF PrintingsInv, DraftsKeep
<1>5. StruckStay'
  <2>1. Last1' = Last1
    BY <1>1 DEF Last1
  <2>2. \A u \in 1..Last1 : DOMAIN printings[u] \cap DOMAIN new \subseteq DOMAIN draft
    BY DEF PrintingsInv, DraftsKeep
  <2>3. StruckStay
    BY DEF PrintingsInv
  <2>4. \A u, v \in 1..Last1 : u <= v =>
          DOMAIN printings[u] \cap DOMAIN new \subseteq DOMAIN printings[v]
    BY <2>2, <2>3 DEF StruckStay
  <2> QED BY <1>1, <2>1, <2>3, <2>4 DEF StruckStay
<1> QED BY <1>1, <1>4, <1>5 DEF PrintingsInv, Last1

(* Where nothing comes, no path comes to name two.                         *)
LEMMA KeepsFollows ==
  ASSUME NEW old, NEW new, Keeps(old, new), AboveKept(old, new),
         DOMAIN new \subseteq DOMAIN old
  PROVE  Follows(old, new)
BY DEF Follows, Keeps, OneAPath

(* So does each amendment,                                                 *)
LEMMA RewordInv == ASSUME PrintingsInv, NEW i \in DOMAIN draft, Reword(i) PROVE PrintingsInv'
<1> DEFINE new == [draft EXCEPT ![i].words = 1 - @]
<1>1. Amend(new) /\ used' = used
  BY DEF Reword
<1>2. IsDraft(draft) /\ DOMAIN draft \subseteq used /\ \E n \in Nat : used = 1..n
  BY DEF PrintingsInv, DraftsKeep
<1>3. /\ IsDraft(new) /\ DOMAIN new = DOMAIN draft
      /\ Keeps(draft, new) /\ AboveKept(draft, new)
  BY <1>2, RewordKeeps
<1> HIDE DEF new
<1>4. Follows(draft, new)
  BY <1>3, KeepsFollows
<1> QED BY <1>1, <1>2, <1>3, <1>4, AmendKeeps

LEMMA StrikeInv == ASSUME PrintingsInv, NEW i \in DOMAIN draft, Strike(i) PROVE PrintingsInv'
<1> DEFINE new == Restrict(draft, DOMAIN draft \ Under(draft, i))
<1>1. Amend(new) /\ used' = used /\ i # Root
  BY DEF Strike
<1>2. IsDraft(draft) /\ DOMAIN draft \subseteq used /\ \E n \in Nat : used = 1..n
  BY DEF PrintingsInv, DraftsKeep
<1>3. /\ IsDraft(new) /\ DOMAIN new \subseteq DOMAIN draft
      /\ Keeps(draft, new) /\ AboveKept(draft, new)
  BY <1>1, <1>2, StrikeKeeps
<1> HIDE DEF new
<1>4. Follows(draft, new)
  BY <1>3, KeepsFollows
<1> QED BY <1>1, <1>2, <1>3, <1>4, AmendKeeps

LEMMA InsertInv ==
  ASSUME PrintingsInv, NEW p \in DOMAIN draft, NEW s \in Segment, Insert(p, s)
  PROVE  PrintingsInv'
<1> DEFINE i == 1 + Cardinality(used)
           path == Append(draft[p].path, s)
           new == Inserted(draft, i, path, p)
<1>1. Amend(new) /\ used' = used \cup {i} /\ Len(path) <= Depth /\ Free(path)
  BY Zenon DEF Insert, Inserted
<1>2. IsDraft(draft) /\ DOMAIN draft \subseteq used
  BY DEF PrintingsInv, DraftsKeep
<1>3. PICK n \in Nat : used = 1..n
  BY DEF PrintingsInv
<1>4. i = n + 1
  <2>1. Cardinality(1..n) = n
    BY FS_Interval
  <2> QED BY <1>3, <2>1
<1> HIDE DEF i
<1>5. i \in Nat /\ i \notin used /\ (\A j \in DOMAIN draft : j < i) /\ used \cup {i} = 1..n + 1
  BY <1>2, <1>3, <1>4
<1>6. /\ IsDraft(new) /\ DOMAIN new = DOMAIN draft \cup {i}
      /\ Keeps(draft, new) /\ AboveKept(draft, new)
      /\ \A j \in DOMAIN draft : new[j] = draft[j]
      /\ new[i].path = path
  <2>1. IsDraft(draft) /\ i \in Nat /\ (\A j \in DOMAIN draft : j < i) /\ p \in DOMAIN draft
        /\ s \in Segment
    BY <1>2, <1>5
  <2>2. Len(Append(draft[p].path, s)) <= Depth
    BY <1>1
  <2> QED BY ONLY <2>1, <2>2, InsertKeeps
<1> HIDE DEF new, path
<1>8. Follows(draft, new)
  <2>1. \A j \in DOMAIN draft : draft[j].path # path
    BY <1>1 DEF Free, At
  <2>2. OneAPath(draft) => OneAPath(new)
    BY <1>6, <2>1 DEF OneAPath
  <2> QED BY <1>6, <2>2 DEF Follows
<1>7. /\ DOMAIN new \subseteq used' /\ DOMAIN new \cap used \subseteq DOMAIN draft
      /\ used \subseteq used' /\ n + 1 \in Nat /\ used' = 1..n + 1
  BY <1>1, <1>2, <1>5, <1>6
<1> QED BY <1>1, <1>6, <1>7, <1>8, AmendKeeps

LEMMA RenumberInv ==
  ASSUME PrintingsInv, NEW i \in DOMAIN draft, NEW s \in Segment, Renumber(i, s)
  PROVE  PrintingsInv'
<1> DEFINE path == Append(Front(draft[i].path), s)
           new == Renamed(draft, i, path, Len(draft[i].path))
<1>1. Amend(new) /\ used' = used /\ i # Root /\ Free(path)
  BY Zenon DEF Renumber, Renamed
<1>2. IsDraft(draft) /\ DOMAIN draft \subseteq used /\ \E n \in Nat : used = 1..n
  BY DEF PrintingsInv, DraftsKeep
<1>3. /\ IsDraft(new) /\ DOMAIN new = DOMAIN draft
      /\ Keeps(draft, new) /\ AboveKept(draft, new)
  <2>1. \A j \in DOMAIN draft : draft[j].path # path
    BY <1>1 DEF Free, At
  <2> QED BY <1>1, <1>2, <2>1, RenumberKeeps
<1> HIDE DEF new
<1>4. Follows(draft, new)
  BY <1>3, KeepsFollows
<1> QED BY <1>1, <1>2, <1>3, <1>4, AmendKeeps

(* and a printing that is published, with its links.                       *)
LEMMA PublishInv == ASSUME PrintingsInv, Publish PROVE PrintingsInv'
<1> DEFINE old == printings[Last1]
           moved == Moved(old, draft)
           stepOf(i) == [from |-> old[i].path, to |-> draft[i].path, window |-> <<Last1, Last1 + 1>>]
           steps == {stepOf(i) : i \in moved}
           L == SetToSeq(steps)
<1>1. /\ Last1 <= Windows /\ printings' = Append(printings, draft)
      /\ links' = links \o L /\ draft' = draft /\ used' = used
  BY Zenon DEF Publish
<1>2. /\ printings \in Seq(Docs) /\ Last1 \in Nat \ {0} /\ links \in Seq(Step)
      /\ DraftsKeep /\ IsDraft(draft) /\ draft \in Docs
  BY DraftIsDoc DEF PrintingsInv, DraftsKeep
<1>3. /\ printings' \in Seq(Docs) /\ Last1' = Last1 + 1
      /\ printings'[Last1 + 1] = draft
      /\ \A n \in 1..Last1 : printings'[n] = printings[n]
  BY <1>1, <1>2, AppendProperties DEF Last1
<1>4. IsDraft(old)
  <2>1. Last1 \in 1..Last1
    BY <1>2
  <2> QED BY <1>2, <2>1 DEF DraftsKeep
<1>5. moved \subseteq DOMAIN old \cap DOMAIN draft /\ IsFiniteSet(moved)
  <2>1. moved \subseteq DOMAIN old \cap DOMAIN draft
    BY DEF Moved
  <2> QED BY <1>4, <2>1, FS_Subset DEF IsDraft, IsPrinting
<1>6. IsFiniteSet(steps)
  <2> DEFINE f == [i \in moved |-> stepOf(i)]
  <2>1. f \in Surjection(moved, steps)
    <3> HIDE DEF stepOf, moved
    <3> QED BY DEF Surjection
  <2> HIDE DEF f, moved, steps
  <2> QED BY <1>5, <2>1, FS_Surjection
<1>7. steps \subseteq Step
  <2> SUFFICES ASSUME NEW i \in moved PROVE stepOf(i) \in Step
    OBVIOUS
  <2>1. old[i].path \in Path /\ draft[i].path \in Path
    BY <1>2, <1>4, <1>5, DraftOf
  <2>2. Last1 \in 1..Windows /\ Last1 + 1 \in 2..Windows + 1
    BY <1>1, <1>2, BoundAssumption
  <2> HIDE DEF old
  <2> QED BY <2>1, <2>2 DEF Step
<1> HIDE DEF steps
<1>8. /\ L \in Seq(steps) /\ L \in Seq(Step)
      /\ \A x \in steps : \E n \in 1..Len(L) : L[n] = x
  <2>1. L \in Seq(steps) /\ \A x \in steps : \E n \in 1..Len(L) : L[n] = x
    BY <1>6, SetToSeqIs
  <2> QED BY <1>7, <2>1, SeqMonotonic
<1>9. /\ links' \in Seq(Step) /\ Len(links') = Len(links) + Len(L)
      /\ \A n \in 1..Len(links) + Len(L) :
           links'[n] = IF n <= Len(links) THEN links[n] ELSE L[n - Len(links)]
  <2> HIDE DEF L
  <2> QED BY <1>1, <1>2, <1>8, ConcatProperties
<1>10. ASSUME NEW w \in 1..Last1 - 1
       PROVE  /\ w \in 1..Len(printings') - 1 /\ w \in 1..Len(printings) - 1
              /\ printings'[w] = printings[w] /\ printings'[w + 1] = printings[w + 1]
              /\ \A i : StepOf(printings', w, i) = StepOf(printings, w, i)
  <2>1. w \in 1..Last1 /\ w + 1 \in 1..Last1 /\ w \in 1..Last1 + 1 - 1
    BY <1>2
  <2>2. printings'[w] = printings[w] /\ printings'[w + 1] = printings[w + 1]
    BY <1>3, <2>1
  <2>3. Len(printings') = Last1 + 1 /\ Len(printings) = Last1
    BY <1>3 DEF Last1
  <2> QED BY <2>1, <2>2, <2>3 DEF StepOf
<1>11. /\ Last1 \in 1..Len(printings') - 1 /\ printings'[Last1] = old
       /\ printings'[Last1 + 1] = draft
       /\ \A i : StepOf(printings', Last1, i) = stepOf(i)
  <2>1. Len(printings') = Last1 + 1 /\ Last1 \in 1..Last1 + 1 - 1 /\ Last1 \in 1..Last1
    BY <1>2, <1>3 DEF Last1
  <2> QED BY <1>3, <2>1 DEF StepOf
<1>12. \A n \in 1..Len(links') : NamesOne(links'[n], printings')
  <2> SUFFICES ASSUME NEW n \in 1..Len(links') PROVE NamesOne(links'[n], printings')
    OBVIOUS
  <2>1. Len(links) \in Nat /\ Len(L) \in Nat /\ n \in 1..Len(links) + Len(L)
    BY <1>2, <1>8, <1>9
  <2>2. CASE n <= Len(links)
    <3>1. n \in 1..Len(links) /\ links'[n] = links[n]
      BY <1>9, <2>1, <2>2
    <3>2. NamesOne(links[n], printings)
      BY <3>1 DEF PrintingsInv
    <3>3. PICK w \in 1..Last1 - 1 : \E i \in Moved(printings[w], printings[w + 1]) :
                                     links[n] = StepOf(printings, w, i)
      BY <3>2 DEF NamesOne, Last1
    <3> QED BY <1>10, <3>1, <3>3 DEF NamesOne
  <2>3. CASE ~(n <= Len(links))
    <3>1. links'[n] = L[n - Len(links)] /\ n - Len(links) \in 1..Len(L)
      BY <1>9, <2>1, <2>3
    <3> HIDE DEF L
    <3>2. L[n - Len(links)] \in steps
      BY <1>8, <3>1, ElementOfSeq
    <3>3. PICK i \in moved : links'[n] = stepOf(i)
      BY <3>1, <3>2 DEF steps
    <3>4. i \in Moved(printings'[Last1], printings'[Last1 + 1])
      BY <1>11
    <3>5. links'[n] = StepOf(printings', Last1, i)
      BY <1>11, <3>3
    <3> QED BY <1>11, <3>4, <3>5 DEF NamesOne
  <2> QED BY <2>2, <2>3
<1>17. AllNamed(printings', links')
  <2> SUFFICES ASSUME NEW w \in 1..Len(printings') - 1,
                      NEW i \in Moved(printings'[w], printings'[w + 1])
               PROVE  \E n \in 1..Len(links') : links'[n] = StepOf(printings', w, i)
    BY DEF AllNamed
  <2>1. Len(links) \in Nat /\ Len(L) \in Nat /\ Len(links') = Len(links) + Len(L)
    BY <1>2, <1>8, <1>9
  <2>2. w = Last1 \/ w \in 1..Last1 - 1
    BY <1>2, <1>3 DEF Last1
  <2>3. CASE w = Last1
    <3>1. i \in moved /\ stepOf(i) \in steps /\ StepOf(printings', w, i) = stepOf(i)
      BY <1>11, <2>3 DEF steps
    <3>2. PICK n \in 1..Len(L) : L[n] = stepOf(i)
      <4> HIDE DEF stepOf, L
      <4> QED BY <1>8, <3>1
    <3> HIDE DEF L, stepOf
    <3>3. /\ Len(links) + n \in 1..Len(links) + Len(L) /\ ~(Len(links) + n <= Len(links))
          /\ Len(links) + n - Len(links) = n
      BY <2>1
    <3>4. links'[Len(links) + n] = L[n]
      BY <1>9, <3>3
    <3> QED BY <2>1, <3>1, <3>2, <3>3, <3>4
  <2>4. CASE w \in 1..Last1 - 1
    <3>1. /\ w \in 1..Len(printings) - 1 /\ i \in Moved(printings[w], printings[w + 1])
          /\ StepOf(printings', w, i) = StepOf(printings, w, i)
      BY <1>10, <2>4
    <3>2. PICK n \in 1..Len(links) : links[n] = StepOf(printings, w, i)
      BY <3>1 DEF PrintingsInv, AllNamed
    <3>3. n \in 1..Len(links) + Len(L) /\ n <= Len(links)
      BY <2>1
    <3>4. links'[n] = links[n]
      BY <1>9, <3>3
    <3> QED BY <2>1, <3>1, <3>2, <3>3, <3>4
  <2> QED BY <2>2, <2>3, <2>4
<1>16. StruckStay'
  <2>1. Last1' = Last1 + 1 /\ Last1 \in Nat \ {0} /\ draft' = draft /\ StruckStay
    BY <1>1, <1>2, <1>3 DEF PrintingsInv
  <2>2. (\A n \in 1..Last1 : printings'[n] = printings[n]) /\ printings'[Last1 + 1] = draft
    BY <1>3
  <2>3. ASSUME NEW u \in 1..Last1 + 1, NEW v \in 1..Last1 + 1, u <= v
        PROVE  DOMAIN printings'[u] \cap DOMAIN draft \subseteq DOMAIN printings'[v]
    <3>1. CASE v = Last1 + 1
      BY <2>2, <3>1
    <3>2. CASE v # Last1 + 1
      <4>1. u \in 1..Last1 /\ v \in 1..Last1
        BY <2>1, <2>3, <3>2
      <4> QED BY <2>1, <2>2, <2>3, <4>1 DEF StruckStay
    <3> QED BY <3>1, <3>2
  <2>4. ASSUME NEW u \in 1..Last1 + 1, NEW v \in 1..Last1 + 1, u <= v,
               NEW w \in 1..Last1 + 1, v <= w
        PROVE  DOMAIN printings'[u] \cap DOMAIN printings'[w] \subseteq DOMAIN printings'[v]
    <3>1. CASE w = Last1 + 1
      BY <2>2, <2>3, <2>4, <3>1
    <3>2. CASE w # Last1 + 1
      <4>1. u \in 1..Last1 /\ v \in 1..Last1 /\ w \in 1..Last1
        BY <2>1, <2>4, <3>2
      <4> QED BY <2>1, <2>2, <2>4, <4>1 DEF StruckStay
    <3> QED BY <3>1, <3>2
  <2> QED BY <2>1, <2>3, <2>4 DEF StruckStay
<1>13. DraftsKeep'
  <2>1. Last1' = Last1 + 1 /\ Last1 \in Nat \ {0} /\ used' = used /\ draft' = draft
    BY <1>1, <1>2, <1>3
  <2>2. \A n \in 1..Last1 : printings'[n] = printings[n] /\ IsDraft(printings[n])
                             /\ DOMAIN printings[n] \subseteq used
    BY <1>2, <1>3 DEF DraftsKeep
  <2>3. DOMAIN draft \subseteq used /\ Follows(printings[Last1], draft)
        /\ \A n \in 1..Last1 - 1 : Follows(printings[n], printings[n + 1])
    BY <1>2 DEF DraftsKeep
  <2>4. ASSUME NEW n \in 1..Last1'
        PROVE  IsDraft(printings'[n]) /\ DOMAIN printings'[n] \subseteq used'
    <3>1. CASE n = Last1 + 1
      BY <1>2, <1>3, <2>1, <2>3, <3>1
    <3>2. CASE n # Last1 + 1
      <4>1. n \in 1..Last1
        BY <2>1, <3>2
      <4> QED BY <2>1, <2>2, <4>1
    <3> QED BY <3>1, <3>2
  <2>5. ASSUME NEW n \in 1..Last1' - 1
        PROVE  Follows(printings'[n], printings'[n + 1])
    <3>1. CASE n = Last1
      BY <1>3, <2>1, <2>2, <2>3, <3>1
    <3>2. CASE n # Last1
      <4>1. n \in 1..Last1 - 1 /\ n + 1 \in 1..Last1 /\ n \in 1..Last1
        BY <2>1, <3>2
      <4> QED BY <2>2, <2>3, <4>1
    <3> QED BY <3>1, <3>2
  <2>6. IsDraft(draft') /\ DOMAIN draft' \subseteq used'
    BY <1>2, <2>1, <2>3
  <2>7. Follows(printings'[Last1'], draft')
    <3>1. Follows(draft, draft)
      BY DEF Follows, Keeps, AboveKept
    <3>2. printings'[Last1'] = draft
      BY <1>3, <2>1
    <3> QED BY <2>1, <3>1, <3>2
  <2> QED BY <2>4, <2>5, <2>6, <2>7 DEF DraftsKeep
<1>14. Last1' \in Nat \ {0}
  BY <1>2, <1>3
<1>15. \E n \in Nat : used' = 1..n
  BY <1>1 DEF PrintingsInv
<1>18. \A n \in 1..Len(links') : NamesOne(links'[n], printings')
  BY <1>12
<1>19. links' \in Seq(Step)
  BY <1>9
<1> HIDE DEF L, old, moved, stepOf
<1>20. (\A n \in 1..Len(links) : NamesOne(links[n], printings))'
  BY <1>18
<1>21. AllNamed(printings, links)'
  BY <1>17
<1>22. (printings \in Seq(Docs))' /\ (links \in Seq(Step))' /\ (\E n \in Nat : used = 1..n)'
  BY <1>3, <1>15, <1>19
<1> QED BY ONLY <1>13, <1>14, <1>16, <1>20, <1>21, <1>22 DEF PrintingsInv

(* Each step keeps them.                                                   *)
LEMMA InvNext == PrintingsInv /\ [Next]_vars => PrintingsInv'
<1> SUFFICES ASSUME PrintingsInv, [Next]_vars PROVE PrintingsInv'
  OBVIOUS
<1>1. CASE UNCHANGED vars
  <2>1. /\ printings' = printings /\ draft' = draft /\ used' = used /\ links' = links
        /\ Last1' = Last1
    BY <1>1 DEF vars, Last1
  <2>2. DraftsKeep' /\ StruckStay'
    BY <2>1 DEF PrintingsInv, DraftsKeep, StruckStay
  <2>3. AllNamed(printings, links)' /\ (\A n \in 1..Len(links) : NamesOne(links[n], printings))'
    BY <2>1 DEF PrintingsInv
  <2> QED BY <2>1, <2>2, <2>3 DEF PrintingsInv
<1>2. CASE Next
  BY <1>2, RewordInv, StrikeInv, InsertInv, RenumberInv, PublishInv DEF Next
<1> QED BY <1>1, <1>2

(* Whatever is amended and published, they keep them.                      *)
THEOREM InvAlways == Spec => []PrintingsInv
BY InvInit, InvNext, PTL DEF Spec

(* From a printing on, each path names one provision, and nothing comes to *)
(* be held by another.                                                     *)
LEMMA SpanFollows ==
  ASSUME PrintingsInv, NEW m \in 1..Last1, OneAPath(printings[m]), NEW n \in m..Last1
  PROVE  OneAPath(printings[n]) /\ AboveKept(printings[m], printings[n])
<1> DEFINE old == printings[m]
           Holds(k) == OneAPath(printings[k]) /\ AboveKept(old, printings[k])
           wrong == {k \in m..Last1 : ~Holds(k)}
<1>1. wrong = {}
  <2> SUFFICES ASSUME wrong # {} PROVE FALSE
    OBVIOUS
  <2>1. PICK k \in wrong : \A x \in wrong : k <= x
    <3>1. wrong \in SUBSET Nat
      BY DEF PrintingsInv
    <3> HIDE DEF wrong
    <3> QED BY <3>1, LeastMember
  <2>2. k \in m..Last1 /\ ~Holds(k) /\ Last1 \in Nat
    BY DEF PrintingsInv
  <2>3. CASE k = m
    BY <2>2, <2>3 DEF AboveKept
  <2>4. CASE k # m
    <3>1. k - 1 \in m..Last1 /\ k - 1 < k /\ k - 1 \in 1..Last1 - 1 /\ k \in 1..Last1
          /\ (k - 1) + 1 = k /\ m <= k - 1
      BY <2>2, <2>4
    <3>2. k - 1 \notin wrong
      <4> HIDE DEF wrong
      <4> QED BY <2>1, <2>2, <3>1
    <3>3. Holds(k - 1)
      BY <3>1, <3>2
    <3> DEFINE middle == printings[k - 1]
               new == printings[k]
    <3>4. Follows(middle, new)
      <4>1. DraftsKeep
        BY DEF PrintingsInv
      <4> QED BY <3>1, <4>1 DEF DraftsKeep
    <3>5. DOMAIN old \cap DOMAIN new \subseteq DOMAIN middle
      <4>1. StruckStay
        BY DEF PrintingsInv
      <4>2. k - 1 <= k /\ m \in 1..Last1
        BY <3>1
      <4> QED BY <3>1, <4>1, <4>2 DEF StruckStay
    <3> HIDE DEF old, middle, new
    <3>6. OneAPath(new) /\ AboveKept(old, new)
      <4>1. OneAPath(middle) /\ AboveKept(old, middle)
        BY <3>3 DEF middle
      <4> QED BY <3>4, <3>5, <4>1 DEF Follows, AboveKept
    <3> QED BY <2>2, <3>6 DEF new, old
  <2> QED BY <2>3, <2>4
<1> QED BY <1>1

(* What a span is where its diff is to be true.                            *)
Tellable(m) ==
  /\ m \in 1..Last1 - 1 /\ OneAPath(printings[m])
  /\ MovedStay(<<m, Last1>>) /\ NamesApart(<<m, Last1>>)

Tells(m, n) ==
  \E known \in Over(m, n) : Tell(printings[m], printings[n], DOMAIN printings[Last1], known)

(* Two windows after one another of such a span.                           *)
LEMMA SpanBetween ==
  ASSUME PrintingsInv, NEW m, Tellable(m), NEW k \in m + 1..Last1 - 1
  PROVE  Between(printings[m], printings[k], printings[k + 1], DOMAIN printings[Last1])
<1>1. /\ Last1 \in Nat /\ m \in 1..Last1 /\ k \in m..Last1 /\ k + 1 \in m..Last1
      /\ k \in 1..Last1 /\ k + 1 \in 1..Last1 /\ Last1 \in 1..Last1
      /\ m <= k /\ k <= k + 1 /\ k + 1 <= Last1 /\ k \in 1..Last1 - 1
  BY DEF Tellable, PrintingsInv
<1>2. /\ OneAPath(printings[m]) /\ OneAPath(printings[k]) /\ OneAPath(printings[k + 1])
      /\ AboveKept(printings[m], printings[k])
  BY <1>1, SpanFollows DEF Tellable
<1>3. DraftsKeep /\ StruckStay
  BY DEF PrintingsInv
<1>4. /\ IsPrinting(printings[m]) /\ IsPrinting(printings[k]) /\ IsPrinting(printings[k + 1])
      /\ AboveKept(printings[k], printings[k + 1])
  BY <1>1, <1>3 DEF DraftsKeep, IsDraft, Follows
<1>5. /\ DOMAIN printings[m] \cap DOMAIN printings[k + 1] \subseteq DOMAIN printings[k]
      /\ DOMAIN printings[k] \cap DOMAIN printings[Last1] \subseteq DOMAIN printings[k + 1]
  BY <1>1, <1>3 DEF StruckStay
<1>6. Moved(printings[k], printings[k + 1]) \subseteq DOMAIN printings[Last1]
  <2>1. k \in m..Last1 - 1
    BY <1>1
  <2> QED BY <2>1 DEF Tellable, MovedStay
<1> QED BY <1>2, <1>4, <1>5, <1>6 DEF Between

(* What a window's links name, where each path names one provision.        *)
LEMMA AreTheMoves ==
  ASSUME PrintingsInv, NEW w \in 1..Last1 - 1, OneAPath(printings[w])
  PROVE  AreMoves(Moves(w), printings[w], printings[w + 1])
<1> DEFINE old == printings[w]
           new == printings[w + 1]
           moved == Moved(old, new)
           moves == Moves(w)
<1>1. /\ \A path \in DOMAIN moves : \E i \in moved :
           path = old[i].path /\ moves[path] = new[i].path
      /\ \A i \in moved : old[i].path \in DOMAIN moves
  BY MovesAre
<1>2. moved \subseteq DOMAIN old
  BY DEF Moved
<1>3. \A i, j \in DOMAIN old : old[i].path = old[j].path => i = j
  BY DEF OneAPath
<1> HIDE DEF moves, moved, old, new
<1>4. \A i \in moved : moves[old[i].path] = new[i].path
  BY <1>1, <1>2, <1>3
<1>5. DOMAIN moves = {old[i].path : i \in moved}
  BY <1>1
<1> QED BY <1>4, <1>5 DEF AreMoves, moves, moved, old, new

(* Some way to join them tells the truth of the span.                      *)
LEMMA SpanTells ==
  ASSUME PrintingsInv, NEW m, Tellable(m), NEW n \in m + 1..Last1
  PROVE  Tells(m, n)
<1> DEFINE wrong == {k \in m + 1..Last1 : ~Tells(m, k)}
           last == DOMAIN printings[Last1]
<1>1. Last1 \in Nat \ {0} /\ m \in 1..Last1 - 1 /\ m \in Nat /\ OneAPath(printings[m])
  BY DEF PrintingsInv, Tellable
<1>2. wrong = {}
  <2> SUFFICES ASSUME wrong # {} PROVE FALSE
    OBVIOUS
  <2>1. PICK k \in wrong : \A x \in wrong : k <= x
    <3>1. wrong \in SUBSET Nat
      BY <1>1
    <3> HIDE DEF wrong
    <3> QED BY <3>1, LeastMember
  <2>2. k \in m + 1..Last1 /\ k \in Nat /\ ~Tells(m, k)
    BY <1>1
  <2> HIDE DEF wrong
  <2>3. CASE k = m + 1
    <3>1. /\ IsPrinting(printings[m]) /\ IsPrinting(printings[m + 1]) /\ OneAPath(printings[m + 1])
      <4>1. m \in 1..Last1 /\ m + 1 \in 1..Last1 /\ m + 1 \in m..Last1
        BY <1>1
      <4> QED BY <1>1, <4>1, SpanFollows DEF PrintingsInv, DraftsKeep, IsDraft
    <3>2. AreMoves(Moves(m), printings[m], printings[m + 1])
      BY <1>1, AreTheMoves
    <3>3. Moved(printings[m], printings[m + 1]) \subseteq last
      <4>1. m \in m..Last1 - 1
        BY <1>1
      <4> QED BY <4>1 DEF Tellable, MovedStay
    <3> HIDE DEF last
    <3>4. Tell(printings[m], printings[m + 1], last, Moves(m))
      BY <1>1, <3>1, <3>2, <3>3, FirstTell
    <3>5. Over(m, m + 1) = {Moves(m)}
      <4>1. m + 1 \in Nat /\ m < m + 1
        BY <1>1
      <4> QED BY <1>1, <4>1, OverIs
    <3> QED BY <2>2, <2>3, <3>4, <3>5 DEF Tells, last
  <2>4. CASE k # m + 1
    <3> DEFINE j == k - 1
    <3>1. /\ j \in m + 1..Last1 - 1 /\ j \in m + 1..Last1 /\ j \in Nat /\ j < k /\ m < j
          /\ k = j + 1 /\ j \in 1..Last1 - 1 /\ j \in m..Last1 /\ m \in 1..Last1
      BY <1>1, <2>2, <2>4
    <3> HIDE DEF j
    <3>2. j \notin wrong
      BY <2>1, <2>2, <3>1
    <3>3. Tells(m, j)
      BY <3>1, <3>2 DEF wrong
    <3>4. PICK known \in Over(m, j) : Tell(printings[m], printings[j], last, known)
      BY <3>3 DEF Tells
    <3> HIDE DEF last
    <3>5. Between(printings[m], printings[j], printings[j + 1], last)
      BY <3>1, SpanBetween DEF last
    <3>6. NoneLost(printings[m], printings[j], printings[j + 1], known)
      BY <3>1, <3>4 DEF Tellable, NamesApart, NoneLost
    <3>7. AreMoves(Moves(j), printings[j], printings[j + 1])
      BY <1>1, <3>1, SpanFollows, AreTheMoves
    <3>8. Joins(printings[m], printings[j], printings[j + 1], last, known, Moves(j))
      BY <3>4, <3>5, <3>6, <3>7 DEF Joins
    <3>9. PICK joined \in Then(known, Moves(j)) : Tell(printings[m], printings[j + 1], last, joined)
      BY <3>8, ThenTells
    <3>10. joined \in Over(m, j + 1)
      <4>1. Over(m, j + 1) = WithWindow(Over(m, j), j)
        BY <1>1, <3>1, OverIs
      <4> QED BY <3>4, <3>9, <4>1 DEF WithWindow
    <3> QED BY <2>2, <3>1, <3>9, <3>10 DEF Tells, last
  <2> QED BY <2>3, <2>4
<1> QED BY <1>2

(* So a diff over such a span is true.                                     *)
LEMMA InvPairsProvisions == ASSUME PrintingsInv PROVE PairsProvisions
<1> SUFFICES ASSUME NEW s \in Spans,
                    OneAPath(printings[s[1]]), MovedStay(s), NamesApart(s),
                    NEW only \in Over(s[1], s[2]), Over(s[1], s[2]) = {only},
                    NEW known \in Over(s[1], s[2])
             PROVE  LET mate == Mates(printings[s[1]], printings[s[2]], known) IN
                    /\ IsTrue(printings[s[1]], printings[s[2]], mate)
                    /\ Asserts(printings[s[1]], printings[s[2]], known, mate)
  BY DEF PairsProvisions
<1> DEFINE m == s[1]
           old == printings[m]
           new == printings[Last1]
           last == DOMAIN new
           mate == Mates(old, new, known)
<1>1. s = <<m, Last1>> /\ m \in 1..Last1 - 1 /\ s[2] = Last1 /\ Last1 \in Nat
  BY DEF Spans, PrintingsInv
<1>2. Tellable(m)
  <2> HIDE DEF m
  <2>1. MovedStay(<<m, Last1>>) /\ NamesApart(<<m, Last1>>) /\ OneAPath(printings[m])
    BY <1>1 DEF m
  <2> QED BY <1>1, <2>1 DEF Tellable
<1> HIDE DEF m
<1>3. Tell(old, new, last, known)
  <2>1. Last1 \in m + 1..Last1
    BY <1>1
  <2>2. PICK told \in Over(m, Last1) : Tell(old, new, last, told)
    BY <1>2, <2>1, SpanTells DEF Tells
  <2>3. told = known
    BY <1>1, <2>2 DEF m
  <2> QED BY <2>2, <2>3
<1>4. /\ IsPrinting(old) /\ IsPrinting(new) /\ OneAPath(old) /\ OneAPath(new)
      /\ AboveKept(old, new)
  <2>1. m \in 1..Last1 /\ Last1 \in 1..Last1 /\ Last1 \in m..Last1
    BY <1>1
  <2> QED BY <1>2, <2>1, SpanFollows DEF Tellable, PrintingsInv, DraftsKeep, IsDraft
<1> HIDE DEF old, new, last
<1>5. Compared(old, new, last, known)
  BY <1>3, <1>4 DEF Compared
<1>6. IsTrue(old, new, mate)
  BY <1>5, DiffIsTrue
<1>7. Asserts(old, new, known, mate)
  BY <1>4, NeverRefuses
<1> QED BY <1>1, <1>6, <1>7 DEF m, old, new

(* A diff over any windows compares each provision with itself, whatever   *)
(* was renumbered, struck and numbered anew between.                       *)
THEOREM PairsProvisionsAlways == Spec => []PairsProvisions
BY InvAlways, InvPairsProvisions, PTL

(* Read backwards, the diff of a window is the diff of its printings the   *)
(* other way round.                                                        *)
THEOREM ReadsBackwardsAlways == Spec => []ReadsBackwards
BY InvAlways, InvReadsBackwards, PTL

-----------------------------------------------------------------------------
(* The history of a provision: the walk through the links.                 *)

(* A function that goes on from a value to another until it stops.         *)
GoesOn(D, stops, on, f) == f = [h \in D |-> IF h \in stops THEN h ELSE f[on[h]]]

(* There is one, though it may never stop: what it says is where one comes *)
(* to a stop from a value.                                                 *)
LEMMA GoesOnExists ==
  ASSUME NEW D, NEW stops \in SUBSET D, NEW on \in [D -> D]
  PROVE  \E f : GoesOn(D, stops, on, f)
<1> DEFINE Closed(C) == \A h \in C : h \notin stops => on[h] \in C
           Reach(h) == {x \in D : \A C \in SUBSET D : h \in C /\ Closed(C) => x \in C}
           Ends(h) == Reach(h) \cap stops
           to(h) == IF Ends(h) = {} THEN h ELSE CHOOSE x \in Ends(h) : TRUE
           out == CHOOSE x : x \notin D
           f == [h \in D |-> IF Ends(h) = {} THEN out ELSE CHOOSE x \in Ends(h) : TRUE]
<1>1. ASSUME NEW h \in D PROVE h \in Reach(h) /\ Closed(Reach(h)) /\ Reach(h) \subseteq D
  OBVIOUS
<1>2. ASSUME NEW h \in stops PROVE Ends(h) = {h}
  <2>1. Closed({h}) /\ {h} \in SUBSET D
    OBVIOUS
  <2>2. Reach(h) \subseteq {h}
    BY <2>1
  <2> QED BY <1>1, <2>2
<1>3. ASSUME NEW h \in D, h \notin stops PROVE Ends(h) = Ends(on[h])
  <2>1. on[h] \in D
    BY <1>3
  <2>2. Reach(on[h]) \subseteq Reach(h)
    BY <1>3
  <2>3. Closed({h} \cup Reach(on[h])) /\ {h} \cup Reach(on[h]) \in SUBSET D
    <3>1. on[h] \in Reach(on[h]) /\ Closed(Reach(on[h])) /\ Reach(on[h]) \subseteq D
      BY <1>1, <2>1
    <3> QED BY <3>1
  <2>4. Reach(h) \subseteq {h} \cup Reach(on[h])
    BY <2>3
  <2> QED BY <1>3, <2>2, <2>4
<1> HIDE DEF Ends
<1>4. ASSUME NEW h \in D PROVE f[h] = IF h \in stops THEN h ELSE f[on[h]]
  <2>1. CASE h \in stops
    BY <1>2, <2>1
  <2>2. CASE h \notin stops
    <3>1. on[h] \in D /\ Ends(h) = Ends(on[h])
      BY <1>3, <2>2
    <3> QED BY <2>2, <3>1
  <2> QED BY <2>1, <2>2
<1>5. f = [h \in D |-> f[h]]
  OBVIOUS
<1> HIDE DEF f
<1>6. GoesOn(D, stops, on, f)
  BY <1>4, <1>5 DEF GoesOn
<1> QED BY <1>6

(* The first step to a path, or from one, if there is one.                 *)
To(steps, at) == {n \in DOMAIN steps : steps[n].to = at}

From(steps, at) == {n \in DOMAIN steps : steps[n].from = at}

FirstOf(steps, found) ==
  IF found = {} THEN <<>> ELSE <<steps[CHOOSE n \in found : \A m \in found : n <= m]>>

(* The walk back and the walk on: the step each looks at, and where it     *)
(* stops.                                                                  *)
Earlier(path, steps, h) == FirstOf(steps, To(steps, IF h = <<>> THEN path ELSE h[1].from))

IsEarliest(path, steps, h) ==
  \/ Earlier(path, steps, h) = <<>>
  \/ Earlier(path, steps, h)[1].from \in {path} \cup {h[n].from : n \in DOMAIN h}

Later(path, steps, past, h) ==
  FirstOf(steps, From(steps, IF h = past THEN path ELSE Last(h).to))

IsLatest(path, steps, past, h) ==
  \/ Later(path, steps, past, h) = <<>>
  \/ Later(path, steps, past, h)[1].to \in
       {path} \cup {past[n].from : n \in DOMAIN past}
              \cup {h[n].to : n \in Len(past) + 1..Len(h)}

(* What is first is one of the steps.                                      *)
LEMMA FirstOfIs ==
  ASSUME NEW S, NEW steps \in Seq(S), NEW found \in SUBSET DOMAIN steps
  PROVE  /\ FirstOf(steps, found) \in Seq(Range(steps))
         /\ found # {} => \E n \in found : FirstOf(steps, found) = <<steps[n]>>
<1>1. CASE found = {}
  BY <1>1 DEF FirstOf
<1>2. CASE found # {}
  <2> DEFINE n == CHOOSE n \in found : \A m \in found : n <= m
  <2>1. DOMAIN steps = 1..Len(steps) /\ Len(steps) \in Nat
    OBVIOUS
  <2>2. found \in SUBSET Nat
    BY <2>1
  <2>3. n \in found
    BY <1>2, <2>2, LeastMember
  <2>4. FirstOf(steps, found) = <<steps[n]>>
    BY <1>2 DEF FirstOf
  <2> HIDE DEF n
  <2>5. steps[n] \in Range(steps)
    BY <2>3 DEF Range
  <2> QED BY <2>3, <2>4, <2>5
<1> QED BY <1>1, <1>2

(* History, as the recursions it is.                                       *)
GoesBack(path, steps, back) ==
  \A h \in Seq(Range(steps)) :
    back[h] = IF IsEarliest(path, steps, h) THEN h ELSE back[Earlier(path, steps, h) \o h]

GoesForth(path, steps, past, forth) ==
  \A h \in Seq(Range(steps)) :
    forth[h] = IF IsLatest(path, steps, past, h) THEN h
               ELSE forth[h \o Later(path, steps, past, h)]

(* Of a list of steps there are such walks, and the history is the one on  *)
(* from where the one back ends.                                           *)
LEMMA HistoryIs ==
  ASSUME NEW S, NEW steps \in Seq(S), NEW path
  PROVE  \E back, forth : /\ GoesBack(path, steps, back)
                          /\ GoesForth(path, steps, back[<<>>], forth)
                          /\ History(path, steps) = forth[back[<<>>]]
<1> DEFINE D == Seq(Range(steps))
           back == CHOOSE f : f = [h \in D |-> IF IsEarliest(path, steps, h) THEN h
                                               ELSE f[Earlier(path, steps, h) \o h]]
           past == back[<<>>]
           forth == CHOOSE f : f = [h \in D |-> IF IsLatest(path, steps, past, h) THEN h
                                                ELSE f[h \o Later(path, steps, past, h)]]
<1>1. History(path, steps) = forth[past]
  BY Zenon DEF History, FirstWhere, Earlier, Later, IsEarliest, IsLatest, FirstOf, To, From
<1>2. ASSUME NEW h \in D, NEW q
      PROVE  Earlier(path, steps, h) \o h \in D /\ h \o Later(path, steps, q, h) \in D
  <2>1. Earlier(path, steps, h) \in D
    <3>1. To(steps, IF h = <<>> THEN path ELSE h[1].from) \in SUBSET DOMAIN steps
      BY DEF To
    <3> QED BY <3>1, FirstOfIs DEF Earlier
  <2>2. Later(path, steps, q, h) \in D
    <3>1. From(steps, IF h = q THEN path ELSE Last(h).to) \in SUBSET DOMAIN steps
      BY DEF From
    <3> QED BY <3>1, FirstOfIs DEF Later
  <2> QED BY <2>1, <2>2, ConcatProperties
<1>3. back = [h \in D |-> IF IsEarliest(path, steps, h) THEN h
                          ELSE back[Earlier(path, steps, h) \o h]]
  <2> DEFINE stops == {h \in D : IsEarliest(path, steps, h)}
             on == [h \in D |-> Earlier(path, steps, h) \o h]
  <2>1. on \in [D -> D] /\ stops \in SUBSET D
    BY <1>2
  <2>2. PICK f : GoesOn(D, stops, on, f)
    <3> HIDE DEF stops, on, D
    <3> QED BY <2>1, GoesOnExists
  <2>3. f = [h \in D |-> IF IsEarliest(path, steps, h) THEN h ELSE f[Earlier(path, steps, h) \o h]]
    <3>1. \A h \in D : h \in stops <=> IsEarliest(path, steps, h)
      OBVIOUS
    <3>2. \A h \in D : on[h] = Earlier(path, steps, h) \o h
      OBVIOUS
    <3> HIDE DEF stops, on, D
    <3> QED BY <2>2, <3>1, <3>2 DEF GoesOn
  <2> HIDE DEF D
  <2> QED BY <2>3
<1>4. forth = [h \in D |-> IF IsLatest(path, steps, past, h) THEN h
                           ELSE forth[h \o Later(path, steps, past, h)]]
  <2> HIDE DEF back
  <2> DEFINE stops == {h \in D : IsLatest(path, steps, past, h)}
             on == [h \in D |-> h \o Later(path, steps, past, h)]
  <2>1. on \in [D -> D] /\ stops \in SUBSET D
    BY <1>2
  <2>2. PICK f : GoesOn(D, stops, on, f)
    <3> HIDE DEF stops, on, D
    <3> QED BY <2>1, GoesOnExists
  <2>3. f = [h \in D |-> IF IsLatest(path, steps, past, h) THEN h
                         ELSE f[h \o Later(path, steps, past, h)]]
    <3>1. \A h \in D : h \in stops <=> IsLatest(path, steps, past, h)
      OBVIOUS
    <3>2. \A h \in D : on[h] = h \o Later(path, steps, past, h)
      OBVIOUS
    <3> HIDE DEF stops, on, D
    <3> QED BY <2>2, <3>1, <3>2 DEF GoesOn
  <2> HIDE DEF D
  <2> QED BY <2>3
<1> HIDE DEF back, forth
<1>5. GoesBack(path, steps, back)
  <2>1. \A h \in D : back[h] = IF IsEarliest(path, steps, h) THEN h
                              ELSE back[Earlier(path, steps, h) \o h]
    <3> HIDE DEF D
    <3> QED BY <1>3
  <2> QED BY <2>1 DEF GoesBack
<1>6. GoesForth(path, steps, past, forth)
  <2>1. \A h \in D : forth[h] = IF IsLatest(path, steps, past, h) THEN h
                               ELSE forth[h \o Later(path, steps, past, h)]
    <3> HIDE DEF D, past
    <3> QED BY <1>4
  <2> QED BY <2>1 DEF GoesForth
<1> QED BY <1>1, <1>5, <1>6

-----------------------------------------------------------------------------
(* The history of a provision: what its own moves are.                     *)

(* A provision that stays plain, in printings no two provisions of which   *)
(* ever have one path: the printings that hold it, what it is called in    *)
(* each, and the windows it moved in.                                      *)
IsPlain(i) == PrintingsInv /\ NoPathReused /\ MovesPlainly(i) /\ i \in DOMAIN printings[Last1] \ {Root}

Had(i) == {n \in 1..Last1 : i \in DOMAIN printings[n]}

Called(i, n) == printings[n][i].path

MovedIn(i) == {w \in 1..Last1 - 1 : i \in Moved(printings[w], printings[w + 1])}

(* It is held from its first printing on, and renumbered where its path    *)
(* changed.                                                                *)
LEMMA HeldOn ==
  ASSUME NEW i, IsPlain(i)
  PROVE  /\ Last1 \in Nat \ {0} /\ Last1 \in Had(i)
         /\ \A k \in Had(i) : \A n \in k..Last1 : n \in Had(i)
         /\ \A w \in MovedIn(i) : w \in Had(i) /\ w + 1 \in Had(i) /\ w + 1 <= Last1
<1>1. Last1 \in Nat \ {0} /\ StruckStay /\ i \in DOMAIN printings[Last1]
  BY DEF IsPlain, PrintingsInv
<1>2. Last1 \in Had(i)
  BY <1>1 DEF Had
<1>3. ASSUME NEW k \in Had(i), NEW n \in k..Last1 PROVE n \in Had(i)
  <2>1. k \in 1..Last1 /\ n \in 1..Last1 /\ k <= n /\ n <= Last1 /\ Last1 \in 1..Last1
    BY <1>1, <1>3 DEF Had
  <2>2. DOMAIN printings[k] \cap DOMAIN printings[Last1] \subseteq DOMAIN printings[n]
    BY <1>1, <2>1 DEF StruckStay
  <2> QED BY <1>1, <1>3, <2>1, <2>2 DEF Had
<1>4. ASSUME NEW w \in MovedIn(i) PROVE w \in Had(i) /\ w + 1 \in Had(i) /\ w + 1 <= Last1
  <2>1. w \in 1..Last1 /\ w + 1 \in 1..Last1 /\ w + 1 <= Last1
    BY <1>1 DEF MovedIn
  <2> QED BY <2>1 DEF MovedIn, Moved, Had
<1> QED BY <1>1, <1>2, <1>3, <1>4

(* It is called another name exactly after each of its moves.              *)
LEMMA MovesChange ==
  ASSUME NEW i, IsPlain(i), NEW w \in Had(i), w + 1 \in Had(i)
  PROVE  /\ w \in MovedIn(i) => Called(i, w) # Called(i, w + 1)
         /\ w \notin MovedIn(i) => Called(i, w) = Called(i, w + 1)
<1> DEFINE old == printings[w]
           new == printings[w + 1]
<1>1. w \in 1..Last1 /\ w + 1 \in 1..Last1 /\ i \in DOMAIN old /\ i \in DOMAIN new
      /\ Last1 \in Nat
  BY HeldOn DEF Had
<1>2. IsDraft(old) /\ IsDraft(new) /\ i # Root
  BY <1>1 DEF IsPlain, PrintingsInv, DraftsKeep
<1>3. /\ old[i].path \in Seq(Segment) /\ old[i].path # <<>>
      /\ new[i].path \in Seq(Segment) /\ new[i].path # <<>>
  <2>1. old[i].path \in Path /\ new[i].path \in Path
    BY <1>1, <1>2, DraftOf
  <2>2. old[i].path # <<>> /\ new[i].path # <<>>
    BY <1>1, <1>2 DEF IsDraft, IsPrinting, Printing
  <2> QED BY <2>1, <2>2, PathIs
<1>4. Front(old[i].path) = Front(new[i].path)
  <2>1. DOMAIN printings = 1..Last1
    BY DEF IsPlain, PrintingsInv, Last1
  <2> QED BY <1>1, <2>1 DEF IsPlain, MovesPlainly
<1>5. w \in MovedIn(i) <=> Last(old[i].path) # Last(new[i].path)
  <2>1. w \in 1..Last1 - 1
    BY <1>1
  <2> QED BY <1>1, <1>2, <2>1 DEF MovedIn, Moved
<1>6. Last(old[i].path) = Last(new[i].path) => old[i].path = new[i].path
  BY <1>3, <1>4, LastIs
<1> QED BY <1>5, <1>6 DEF Called

(* Where it is called the same, it is in between.                          *)
LEMMA SameBetween ==
  ASSUME NEW i, IsPlain(i), NEW m \in Had(i), NEW n \in Had(i), m < n, Called(i, m) = Called(i, n),
         NEW w \in m..n - 1
  PROVE  w \notin MovedIn(i)
<1>1. Last1 \in Nat /\ m \in 1..Last1 /\ n \in 1..Last1
  BY HeldOn DEF Had
<1>2. w \in Had(i) /\ w + 1 \in Had(i) /\ w \in m..Last1 /\ w + 1 \in m..Last1
  <2>1. w \in m..Last1 /\ w + 1 \in m..Last1
    BY <1>1
  <2> QED BY <2>1, HeldOn
<1>3. ASSUME NEW k \in m..n PROVE Called(i, k) = Called(i, m)
  <2>1. k \in Had(i)
    <3>1. k \in m..Last1
      BY <1>1
    <3> QED BY <3>1, HeldOn
  <2>2. DOMAIN printings = 1..Last1
    BY DEF IsPlain, PrintingsInv, Last1
  <2>3. Had(i) = {x \in DOMAIN printings : i \in DOMAIN printings[x]}
    BY <2>2 DEF Had
  <2>4. \A x \in Had(i) : (m < x /\ x < n) => printings[x][i].path = printings[m][i].path
    BY <2>3 DEF IsPlain, MovesPlainly, Called
  <2> QED BY <1>1, <2>1, <2>4 DEF Called
<1>4. w \in m..n /\ w + 1 \in m..n
  BY <1>1
<1>5. Called(i, w) = Called(i, w + 1)
  BY <1>3, <1>4
<1> QED BY <1>2, <1>5, MovesChange

(* A link that names a path of it is of a move of it.                      *)
LEMMA LinkIsOwn ==
  ASSUME NEW i, IsPlain(i), NEW n \in DOMAIN links, NEW k \in Had(i)
  PROVE  links[n].from = Called(i, k) \/ links[n].to = Called(i, k) =>
           \E w \in MovedIn(i) : links[n] = StepOf(printings, w, i)
<1> SUFFICES ASSUME links[n].from = Called(i, k) \/ links[n].to = Called(i, k)
             PROVE  \E w \in MovedIn(i) : links[n] = StepOf(printings, w, i)
  OBVIOUS
<1>1. /\ Last1 \in Nat /\ k \in 1..Last1 /\ i \in DOMAIN printings[k]
      /\ DOMAIN printings = 1..Last1 /\ n \in 1..Len(links) /\ Len(printings) = Last1
  BY DEF IsPlain, PrintingsInv, Had, Last1
<1>2. NamesOne(links[n], printings)
  BY <1>1 DEF IsPlain, PrintingsInv
<1>3. PICK w \in 1..Last1 - 1 : \E j \in Moved(printings[w], printings[w + 1]) :
                                 links[n] = StepOf(printings, w, j)
  BY <1>1, <1>2 DEF NamesOne
<1>4. PICK j \in Moved(printings[w], printings[w + 1]) : links[n] = StepOf(printings, w, j)
  BY <1>3
<1>5. /\ w \in DOMAIN printings /\ w + 1 \in DOMAIN printings /\ k \in DOMAIN printings
      /\ j \in DOMAIN printings[w] /\ j \in DOMAIN printings[w + 1]
  BY <1>1, <1>4 DEF Moved
<1>6. links[n].from = printings[w][j].path /\ links[n].to = printings[w + 1][j].path
  BY <1>4 DEF StepOf
<1>7. i = j
  BY <1>1, <1>5, <1>6 DEF IsPlain, NoPathReused, Called
<1> QED BY <1>4, <1>7 DEF MovedIn

(* Each of its moves has a link.                                           *)
LEMMA OwnIsLink ==
  ASSUME NEW i, IsPlain(i), NEW w \in MovedIn(i)
  PROVE  \E n \in DOMAIN links : links[n] = StepOf(printings, w, i)
<1>1. Len(printings) = Last1 /\ DOMAIN links = 1..Len(links)
  BY DEF IsPlain, PrintingsInv, Last1
<1> QED BY <1>1 DEF IsPlain, PrintingsInv, AllNamed, MovedIn

-----------------------------------------------------------------------------
(* The history of a provision: the walk tells its moves.                   *)

(* The moves of it from a printing on, oldest first, back to what that     *)
(* printing calls it.                                                      *)
Since(i, k) == {StepOf(printings, w, i) : w \in {w \in MovedIn(i) : k <= w}}

InOrder(h) == \A m, n \in DOMAIN h : m < n => h[m].window[2] <= h[n].window[1]

IsTold(i, k, h) ==
  /\ h \in Seq(Range(links)) /\ Range(h) = Since(i, k) /\ InOrder(h)
  /\ (IF h = <<>> THEN Called(i, Last1) ELSE h[1].from) = Called(i, k)

WalksBack(i, back) ==
  \A h \in Seq(Range(links)) :
    back[h] = IF IsEarliest(Called(i, Last1), links, h) THEN h
              ELSE back[Earlier(Called(i, Last1), links, h) \o h]

(* A link to what a printing calls it is of a move before that printing,   *)
(* and of the last window before it if it moved there.                     *)
LEMMA LinkTo ==
  ASSUME NEW i, IsPlain(i), NEW k \in Had(i), NEW n \in DOMAIN links, links[n].to = Called(i, k)
  PROVE  \E w \in MovedIn(i) : /\ links[n] = StepOf(printings, w, i) /\ w < k
                               /\ k - 1 \in MovedIn(i) => w = k - 1
<1>1. PICK w \in MovedIn(i) : links[n] = StepOf(printings, w, i)
  BY LinkIsOwn
<1>2. /\ w \in Had(i) /\ w + 1 \in Had(i) /\ w + 1 <= Last1 /\ Last1 \in Nat
      /\ k \in 1..Last1 /\ w \in 1..Last1
  BY HeldOn DEF Had
<1>3. Called(i, w + 1) = Called(i, k)
  BY <1>1 DEF StepOf, Called
<1>4. w < k
  <2> SUFFICES ASSUME ~(w < k) PROVE FALSE
    OBVIOUS
  <2>1. w \in k..(w + 1) - 1 /\ k < w + 1
    BY <1>2
  <2> QED BY <1>2, <1>3, <2>1, SameBetween
<1>5. ASSUME k - 1 \in MovedIn(i) PROVE w = k - 1
  <2> SUFFICES ASSUME w # k - 1 PROVE FALSE
    OBVIOUS
  <2>1. w + 1 < k /\ k - 1 \in w + 1..k - 1
    BY <1>2, <1>4
  <2> QED BY <1>2, <1>3, <1>5, <2>1, SameBetween
<1> QED BY <1>1, <1>4, <1>5

(* So the walk looks at the last move, where there is one,                 *)
LEMMA LooksAt ==
  ASSUME NEW i, IsPlain(i), NEW k \in Had(i), k - 1 \in MovedIn(i), NEW h, IsTold(i, k, h)
  PROVE  LET step == StepOf(printings, k - 1, i) IN
         /\ Earlier(Called(i, Last1), links, h) = <<step>> /\ step \in Range(links)
         /\ ~IsEarliest(Called(i, Last1), links, h)
<1> DEFINE step == StepOf(printings, k - 1, i)
           path == Called(i, Last1)
           found == To(links, Called(i, k))
<1>1. k \in 1..Last1 /\ Last1 \in Nat /\ k - 1 \in Had(i) /\ Last1 \in Had(i)
      /\ (k - 1) + 1 = k
  BY HeldOn DEF Had
<1>2. step.from = Called(i, k - 1) /\ step.to = Called(i, k)
  BY <1>1 DEF StepOf, Called
<1>3. Earlier(path, links, h) = FirstOf(links, found)
  BY DEF IsTold, Earlier
<1>4. PICK n \in DOMAIN links : links[n] = step
  BY OwnIsLink
<1> HIDE DEF step
<1>5. n \in found /\ step \in Range(links)
  BY <1>2, <1>4 DEF To, Range
<1>6. ASSUME NEW m \in found PROVE links[m] = step
  BY LinkTo DEF To, step
<1>7. Earlier(path, links, h) = <<step>>
  <2>1. links \in Seq(Step) /\ found \in SUBSET DOMAIN links
    BY DEF IsPlain, PrintingsInv, To
  <2>2. \E m \in found : FirstOf(links, found) = <<links[m]>>
    BY <1>5, <2>1, FirstOfIs
  <2> QED BY <1>3, <1>6, <2>2
<1>8. ASSUME NEW n1 \in Had(i), k <= n1 PROVE Called(i, k - 1) # Called(i, n1)
  <2> SUFFICES ASSUME Called(i, k - 1) = Called(i, n1) PROVE FALSE
    OBVIOUS
  <2>1. n1 \in 1..Last1 /\ k - 1 < n1 /\ k - 1 \in k - 1..n1 - 1
    BY <1>1, <1>8 DEF Had
  <2> QED BY <1>1, <2>1, SameBetween
<1>9. step.from # path
  BY <1>1, <1>2, <1>8
<1>10. ASSUME NEW m \in DOMAIN h PROVE step.from # h[m].from
  <2>1. h[m] \in Since(i, k)
    BY DEF IsTold, Range
  <2>2. PICK w \in MovedIn(i) : k <= w /\ h[m] = StepOf(printings, w, i)
    BY <2>1 DEF Since
  <2>3. h[m].from = Called(i, w) /\ w \in Had(i)
    BY <2>2, HeldOn DEF StepOf, Called
  <2> QED BY <1>2, <1>8, <2>2, <2>3
<1>11. ~IsEarliest(path, links, h)
  <2>1. <<step>>[1] = step /\ <<step>> # <<>>
    OBVIOUS
  <2> QED BY <1>7, <1>9, <1>10, <2>1 DEF IsEarliest
<1> QED BY <1>5, <1>7, <1>11 DEF step

(* and goes on by it.                                                      *)
LEMMA ToldBefore ==
  ASSUME NEW i, IsPlain(i), NEW k \in Had(i), k - 1 \in Had(i), NEW back, WalksBack(i, back),
         NEW h, IsTold(i, k, h)
  PROVE  \E g : IsTold(i, k - 1, g) /\ back[g] = back[h]
<1>1. k \in Nat /\ k - 1 \in Nat /\ Last1 \in Nat /\ (k - 1) + 1 = k /\ k <= Last1
      /\ MovedIn(i) \in SUBSET Nat
  BY HeldOn DEF Had, MovedIn
<1>2. h \in Seq(Range(links)) /\ Range(h) = Since(i, k) /\ InOrder(h)
  BY DEF IsTold
<1>3. CASE k - 1 \notin MovedIn(i)
  <2>1. Called(i, k - 1) = Called(i, k)
    BY <1>1, <1>3, MovesChange
  <2>2. Since(i, k - 1) = Since(i, k)
    <3>1. \A w \in MovedIn(i) : k <= w <=> k - 1 <= w
      BY <1>1, <1>3
    <3> QED BY <3>1 DEF Since
  <2>3. IsTold(i, k - 1, h)
    BY <2>1, <2>2 DEF IsTold
  <2> QED BY <2>3
<1>4. CASE k - 1 \in MovedIn(i)
  <2> DEFINE step == StepOf(printings, k - 1, i)
             g == <<step>> \o h
  <2>1. /\ Earlier(Called(i, Last1), links, h) = <<step>> /\ step \in Range(links)
        /\ ~IsEarliest(Called(i, Last1), links, h)
    BY <1>4, LooksAt
  <2>2. back[h] = back[g]
    BY <1>2, <2>1 DEF WalksBack
  <2>3. step.from = Called(i, k - 1) /\ step.window = <<k - 1, k>>
    BY <1>1 DEF StepOf, Called
  <2>4. Since(i, k - 1) = {step} \cup Since(i, k)
    <3>1. \A w \in MovedIn(i) : k - 1 <= w <=> w = k - 1 \/ k <= w
      BY <1>1
    <3> QED BY <1>4, <3>1 DEF Since
  <2> HIDE DEF step
  <2>5. <<step>> \in Seq(Range(links)) /\ Len(<<step>>) = 1 /\ <<step>>[1] = step
    BY <2>1
  <2>6. /\ g \in Seq(Range(links)) /\ Len(g) = 1 + Len(h)
        /\ \A n \in 1..1 + Len(h) : g[n] = IF n <= 1 THEN <<step>>[n] ELSE h[n - 1]
    BY ONLY <1>2, <2>5, ConcatProperties
  <2>7. /\ Len(h) \in Nat /\ DOMAIN h = 1..Len(h) /\ DOMAIN g = 1..1 + Len(h)
        /\ g[1] = step /\ g # <<>>
        /\ \A n \in 1..Len(h) : g[n + 1] = h[n]
        /\ \A n \in DOMAIN g : n = 1 \/ (n - 1 \in DOMAIN h /\ g[n] = h[n - 1])
    <3>1. Len(h) \in Nat /\ DOMAIN h = 1..Len(h) /\ DOMAIN g = 1..1 + Len(h)
      BY <1>2, <2>6, LenProperties
    <3> HIDE DEF g
    <3>2. 1 \in 1..1 + Len(h) /\ 1 <= 1
      BY <3>1
    <3>3. g[1] = step
      BY <2>5, <2>6, <3>2
    <3>4. g # <<>>
      BY <2>6, <3>1
    <3>5. ASSUME NEW n \in 1..Len(h) PROVE g[n + 1] = h[n]
      <4>1. n + 1 \in 1..1 + Len(h) /\ ~(n + 1 <= 1) /\ (n + 1) - 1 = n
        BY <3>1
      <4> QED BY <2>6, <4>1
    <3>6. ASSUME NEW n \in DOMAIN g, n # 1 PROVE n - 1 \in DOMAIN h /\ g[n] = h[n - 1]
      <4>1. n \in 1..1 + Len(h) /\ ~(n <= 1) /\ n - 1 \in 1..Len(h)
        BY <3>1, <3>6
      <4> QED BY <2>6, <3>1, <4>1
    <3> QED BY <3>1, <3>3, <3>4, <3>5, <3>6
  <2> HIDE DEF g
  <2>8. Range(g) = Since(i, k - 1)
    <3>1. Range(g) = {step} \cup Range(h)
      <4>1. ASSUME NEW x \in Range(g) PROVE x \in {step} \cup Range(h)
        BY <2>7 DEF Range
      <4>2. step \in Range(g)
        BY <2>7 DEF Range
      <4>3. ASSUME NEW n \in DOMAIN h PROVE h[n] \in Range(g)
        <5>1. n + 1 \in DOMAIN g /\ g[n + 1] = h[n]
          BY <2>7
        <5> QED BY <5>1 DEF Range
      <4> QED BY <4>1, <4>2, <4>3 DEF Range
    <3> QED BY <1>2, <2>4, <3>1
  <2>9. InOrder(g)
    <3> SUFFICES ASSUME NEW m \in DOMAIN g, NEW n \in DOMAIN g, m < n
                 PROVE  g[m].window[2] <= g[n].window[1]
      BY DEF InOrder
    <3>1. m \in Nat \ {0} /\ n \in Nat \ {0} /\ n # 1 /\ n - 1 \in DOMAIN h /\ g[n] = h[n - 1]
      BY <2>7
    <3>2. CASE m = 1
      <4>1. h[n - 1] \in Since(i, k)
        BY <1>2, <3>1 DEF Range
      <4>2. PICK w \in MovedIn(i) : k <= w /\ h[n - 1] = StepOf(printings, w, i)
        BY <4>1 DEF Since
      <4>3. h[n - 1].window[1] = w /\ step.window[2] = k
        BY <2>3, <4>2 DEF StepOf
      <4> QED BY <2>7, <3>1, <3>2, <4>2, <4>3
    <3>3. CASE m # 1
      <4>1. m - 1 \in DOMAIN h /\ g[m] = h[m - 1] /\ m - 1 < n - 1
        BY <2>7, <3>1, <3>3
      <4> QED BY <1>2, <3>1, <4>1 DEF InOrder
    <3> QED BY <3>2, <3>3
  <2>10. IsTold(i, k - 1, g)
    BY <2>3, <2>6, <2>7, <2>8, <2>9 DEF IsTold, g
  <2> QED BY <2>2, <2>10 DEF g
<1> QED BY <1>3, <1>4

(* Before the first printing that holds it there is nothing to go on to.   *)
LEMMA WalkEnds ==
  ASSUME NEW i, IsPlain(i), NEW k \in Had(i), \A n \in Had(i) : k <= n,
         NEW back, WalksBack(i, back), NEW h, IsTold(i, k, h)
  PROVE  back[h] = h
<1>1. To(links, Called(i, k)) = {}
  <2> SUFFICES ASSUME NEW n \in DOMAIN links, links[n].to = Called(i, k) PROVE FALSE
    BY DEF To
  <2>1. PICK w \in MovedIn(i) : w < k
    BY LinkTo
  <2>2. w \in Had(i) /\ w \in Nat /\ k \in Nat
    BY HeldOn DEF Had
  <2> QED BY <2>1, <2>2
<1>2. Earlier(Called(i, Last1), links, h) = <<>>
  BY <1>1 DEF Earlier, FirstOf, IsTold
<1>3. IsEarliest(Called(i, Last1), links, h)
  BY <1>2 DEF IsEarliest
<1> QED BY <1>3 DEF WalksBack, IsTold

(* So the walk back tells all its moves, from the first printing that      *)
(* holds it on.                                                            *)
LEMMA WalkTells ==
  ASSUME NEW i, IsPlain(i), NEW back, WalksBack(i, back)
  PROVE  \E k \in Had(i) : (\A n \in Had(i) : k <= n) /\ IsTold(i, k, back[<<>>])
<1>1. Last1 \in Nat \ {0} /\ Last1 \in Had(i) /\ Had(i) \in SUBSET Nat
  BY HeldOn DEF Had
<1> DEFINE Reaches(k) == \E h : IsTold(i, k, h) /\ back[h] = back[<<>>]
           reached == {k \in Had(i) : Reaches(k)}
<1>2. Last1 \in reached
  <2>1. Since(i, Last1) = {}
    <3>1. \A w \in MovedIn(i) : w \in 1..Last1 - 1
      BY DEF MovedIn
    <3>2. \A w \in MovedIn(i) : ~(Last1 <= w)
      BY <1>1, <3>1
    <3> QED BY <3>2 DEF Since
  <2>2. <<>> \in Seq(Range(links)) /\ Range(<<>>) = {} /\ InOrder(<<>>)
    BY DEF Range, InOrder
  <2>3. IsTold(i, Last1, <<>>)
    BY <2>1, <2>2 DEF IsTold
  <2> QED BY <1>1, <2>3
<1>3. PICK k \in reached : \A n \in reached : k <= n
  <2> HIDE DEF reached
  <2>1. reached \in SUBSET Nat
    BY <1>1 DEF reached
  <2> QED BY <1>2, <2>1, LeastMember
<1>4. k \in Had(i) /\ k \in Nat /\ Reaches(k)
  BY <1>1
<1>5. ASSUME NEW n \in Had(i) PROVE k <= n
  <2> SUFFICES ASSUME ~(k <= n) PROVE FALSE
    OBVIOUS
  <2>1. n \in Nat /\ k <= Last1 /\ k - 1 \in n..Last1 /\ k - 1 \in Nat
    BY <1>1, <1>4 DEF Had
  <2>2. k - 1 \in Had(i)
    BY <2>1, HeldOn
  <2>3. PICK h : IsTold(i, k, h) /\ back[h] = back[<<>>]
    BY <1>4
  <2>4. Reaches(k - 1)
    BY <1>4, <2>2, <2>3, ToldBefore
  <2>5. k - 1 \in reached
    BY <2>2, <2>4
  <2> HIDE DEF reached
  <2> QED BY <1>3, <1>4, <2>1, <2>5
<1>6. PICK h : IsTold(i, k, h) /\ back[h] = back[<<>>]
  BY <1>4
<1>7. back[h] = h
  BY <1>4, <1>5, <1>6, WalkEnds
<1> QED BY <1>4, <1>5, <1>6, <1>7

(* And there is nothing to go on to from the last printing.                *)
LEMMA WalkIsOver ==
  ASSUME NEW i, IsPlain(i), NEW past
  PROVE  IsLatest(Called(i, Last1), links, past, past)
<1>1. From(links, Called(i, Last1)) = {}
  <2> SUFFICES ASSUME NEW n \in DOMAIN links, links[n].from = Called(i, Last1) PROVE FALSE
    BY DEF From
  <2>1. Last1 \in Had(i) /\ Last1 \in Nat
    BY HeldOn
  <2>2. PICK w \in MovedIn(i) : links[n] = StepOf(printings, w, i)
    BY <2>1, LinkIsOwn
  <2>3. w \in Had(i) /\ w + 1 <= Last1 /\ w \in Nat
    BY HeldOn DEF Had
  <2>4. Called(i, w) = Called(i, Last1)
    BY <2>2 DEF StepOf, Called
  <2>5. w < Last1 /\ w \in w..Last1 - 1
    BY <2>1, <2>3
  <2> QED BY <2>1, <2>3, <2>4, <2>5, SameBetween
<1>2. Later(Called(i, Last1), links, past, past) = <<>>
  BY <1>1 DEF Later, FirstOf
<1> QED BY <1>2 DEF IsLatest

(* The steps of a provision are those of its moves.                        *)
LEMMA StepsAre ==
  ASSUME NEW i, IsPlain(i), NEW k \in Had(i), \A n \in Had(i) : k <= n
  PROVE  StepsOf(i) = Since(i, k)
<1>1. ASSUME NEW w \in MovedIn(i) PROVE StepOf(printings, w, i) \in StepsOf(i) /\ k <= w
  <2>1. PICK n \in DOMAIN links : links[n] = StepOf(printings, w, i)
    BY OwnIsLink
  <2>2. w \in Had(i)
    BY HeldOn
  <2>3. links[n].window[1] = w /\ links[n].from = printings[w][i].path
    BY <2>1 DEF StepOf
  <2>4. links[n] \in Range(links) /\ i \in DOMAIN printings[w]
    BY <2>2 DEF Range, Had
  <2>5. links[n] \in StepsOf(i)
    BY <2>3, <2>4 DEF StepsOf
  <2> QED BY <2>1, <2>2, <2>5
<1>2. ASSUME NEW s \in StepsOf(i) PROVE \E w \in MovedIn(i) : s = StepOf(printings, w, i)
  <2>1. PICK n \in DOMAIN links : s = links[n]
    BY DEF StepsOf, Range
  <2>2. NamesOne(s, printings)
    <3>1. n \in 1..Len(links)
      BY DEF IsPlain, PrintingsInv
    <3> QED BY <2>1, <3>1 DEF IsPlain, PrintingsInv
  <2>3. PICK w \in 1..Last1 - 1 : \E j \in Moved(printings[w], printings[w + 1]) :
                                   s = StepOf(printings, w, j)
    BY <2>2 DEF NamesOne, Last1
  <2>4. s.window[1] = w
    BY <2>3 DEF StepOf
  <2>5. i \in DOMAIN printings[w] /\ printings[w][i].path = s.from
    BY <2>4 DEF StepsOf
  <2>6. w \in Had(i) /\ s.from = Called(i, w)
    BY <2>5, HeldOn DEF Had, Called
  <2> QED BY <2>1, <2>6, LinkIsOwn
<1> QED BY <1>1, <1>2 DEF Since

(* The history of a plain provision is its own.                            *)
LEMMA PlainHistory ==
  ASSUME NEW i, IsPlain(i)
  PROVE  LET history == History(Called(i, Last1), links) IN
         Range(history) = StepsOf(i) /\ InOrder(history)
<1> DEFINE path == Called(i, Last1)
<1>1. links \in Seq(Step)
  BY DEF IsPlain, PrintingsInv
<1>2. PICK back, forth : /\ GoesBack(path, links, back)
                         /\ GoesForth(path, links, back[<<>>], forth)
                         /\ History(path, links) = forth[back[<<>>]]
  BY <1>1, HistoryIs
<1>3. WalksBack(i, back)
  BY <1>2 DEF GoesBack, WalksBack
<1>4. PICK k \in Had(i) : (\A n \in Had(i) : k <= n) /\ IsTold(i, k, back[<<>>])
  BY <1>3, WalkTells
<1>5. IsLatest(path, links, back[<<>>], back[<<>>])
  BY WalkIsOver
<1>6. History(path, links) = back[<<>>]
  BY <1>2, <1>4, <1>5 DEF GoesForth, IsTold
<1>7. StepsOf(i) = Since(i, k)
  BY <1>4, StepsAre
<1> QED BY <1>4, <1>6, <1>7 DEF IsTold

(* So the histories of a state in order are so.                            *)
LEMMA InvHistoryIsOwn == ASSUME PrintingsInv PROVE HistoryIsOwn
<1> SUFFICES ASSUME Fresh, NoPathReused, NEW i \in DOMAIN printings[Last1] \ {Root}, MovesPlainly(i)
             PROVE  LET history == History(printings[Last1][i].path, links) IN
                    /\ Range(history) = StepsOf(i)
                    /\ \A m, n \in DOMAIN history :
                         m < n => history[m].window[2] <= history[n].window[1]
  BY DEF HistoryIsOwn
<1>1. IsPlain(i)
  BY DEF IsPlain
<1> QED BY <1>1, PlainHistory DEF Called, InOrder

(* The history `provision` tells of a path is that of one provision, all   *)
(* of it and in order, whatever the windows make of the numbers of others. *)
THEOREM HistoryIsOwnAlways == Spec => []HistoryIsOwn
BY InvAlways, InvHistoryIsOwn, PTL

-----------------------------------------------------------------------------
(* What the moves of one window carry where, and what its comparison pairs. *)

(* Two printings after one another, each path one provision's, and the     *)
(* moves of the window between them.                                       *)
IsWindow(old, new, moves) ==
  /\ IsPrinting(old) /\ IsPrinting(new) /\ OneAPath(old) /\ OneAPath(new)
  /\ AboveKept(old, new) /\ AreMoves(moves, old, new)

(* Its moves are of provisions both hold, and can be read backwards.       *)
MovesKnown(old, new, moves) ==
  /\ \A a \in DOMAIN old : old[a].path \in DOMAIN moves =>
       a \in DOMAIN new \ {Root} /\ moves[old[a].path] = new[a].path
  /\ \A b \in DOMAIN new : new[b].path \in Range(moves) =>
       /\ b \in DOMAIN old \ {Root} /\ old[b].path \in DOMAIN moves
       /\ moves[old[b].path] = new[b].path

AreOfPaths(moves) ==
  /\ Paths(moves) /\ Paths(BackOf(moves)) /\ AreReverse(moves, BackOf(moves))
  /\ DOMAIN moves \subseteq Seq(Segment) \ {<<>>}
  /\ Range(moves) \subseteq Seq(Segment) \ {<<>>} /\ DOMAIN BackOf(moves) = Range(moves)

(* So it is in every window.                                               *)
LEMMA WindowKnows ==
  ASSUME NEW old, NEW new, NEW moves, IsWindow(old, new, moves)
  PROVE  MovesKnown(old, new, moves) /\ AreOfPaths(moves)
<1> DEFINE moved == Moved(old, new)
           back == BackOf(moves)
<1>1. moved \subseteq (DOMAIN old \cap DOMAIN new) \ {Root}
  BY DEF Moved
<1>2. /\ DOMAIN moves = {old[i].path : i \in moved}
      /\ \A i \in moved : moves[old[i].path] = new[i].path
      /\ IsPrinting(old) /\ IsPrinting(new) /\ OneAPath(old) /\ OneAPath(new)
  BY DEF IsWindow, AreMoves
<1>3. \A i \in moved : /\ old[i].path \in Seq(Segment) \ {<<>>}
                       /\ new[i].path \in Seq(Segment) \ {<<>>}
  BY <1>1, <1>2, AboveIs
<1> HIDE DEF moved
<1>4. /\ \A t \in DOMAIN moves : \E i \in moved : t = old[i].path /\ moves[t] = new[i].path
      /\ \A t \in Range(moves) : \E i \in moved : /\ t = new[i].path /\ old[i].path \in DOMAIN moves
                                                  /\ moves[old[i].path] = t
  BY <1>2 DEF Range
<1>5. MovesKnown(old, new, moves)
  <2>1. ASSUME NEW a \in DOMAIN old, old[a].path \in DOMAIN moves
        PROVE  a \in DOMAIN new \ {Root} /\ moves[old[a].path] = new[a].path
    <3>1. PICK i \in moved : old[a].path = old[i].path /\ moves[old[a].path] = new[i].path
      BY <1>4, <2>1
    <3> QED BY <1>1, <1>2, <3>1 DEF OneAPath
  <2>2. ASSUME NEW b \in DOMAIN new, new[b].path \in Range(moves)
        PROVE  /\ b \in DOMAIN old \ {Root} /\ old[b].path \in DOMAIN moves
               /\ moves[old[b].path] = new[b].path
    <3>1. PICK i \in moved : /\ new[b].path = new[i].path /\ old[i].path \in DOMAIN moves
                             /\ moves[old[i].path] = new[b].path
      BY <1>4, <2>2
    <3> QED BY <1>1, <1>2, <3>1 DEF OneAPath
  <2> QED BY <2>1, <2>2 DEF MovesKnown
<1>6. /\ DOMAIN moves \subseteq Seq(Segment) \ {<<>>}
      /\ Range(moves) \subseteq Seq(Segment) \ {<<>>}
  BY <1>3, <1>4
<1>7. DOMAIN back = Range(moves) /\ \A t \in Range(moves) : back[t] \in DOMAIN moves
                                                              /\ moves[back[t]] = t
  BY BackIs
<1>8. \A s \in DOMAIN moves, t \in DOMAIN moves : moves[s] = moves[t] => s = t
  <2> SUFFICES ASSUME NEW s \in DOMAIN moves, NEW t \in DOMAIN moves, moves[s] = moves[t]
               PROVE  s = t
    OBVIOUS
  <2>1. PICK i \in moved : s = old[i].path /\ moves[s] = new[i].path
    BY <1>4
  <2>2. PICK j \in moved : t = old[j].path /\ moves[t] = new[j].path
    BY <1>4
  <2>3. i = j
    BY <1>1, <1>2, <2>1, <2>2 DEF OneAPath
  <2> QED BY <2>1, <2>2, <2>3
<1> HIDE DEF back
<1>9. AreReverse(moves, back)
  <2>1. ASSUME NEW s \in DOMAIN moves PROVE moves[s] \in DOMAIN back /\ back[moves[s]] = s
    <3>1. moves[s] \in Range(moves)
      BY DEF Range
    <3> QED BY <1>7, <1>8, <3>1
  <2> QED BY <1>7, <2>1 DEF AreReverse
<1>10. Paths(moves) /\ Paths(back)
  BY <1>6, <1>7 DEF Paths, Range
<1> QED BY <1>5, <1>6, <1>7, <1>9, <1>10 DEF AreOfPaths, back

(* One path is the other's, carried either way.                            *)
Goes(p, q, moves) == Carried(p, moves) = q /\ Carried(q, BackOf(moves)) = p

(* A path that is moved from, or to, goes there and nowhere else.          *)
LEMMA GoesByMove ==
  ASSUME NEW moves, AreOfPaths(moves), NEW p \in Seq(Segment), p # <<>>,
         NEW q \in Seq(Segment), q # <<>>
  PROVE  /\ p \in DOMAIN moves => (Goes(p, q, moves) <=> q = moves[p])
         /\ q \in Range(moves) => (Goes(p, q, moves) <=> p \in DOMAIN moves /\ q = moves[p])
<1> DEFINE back == BackOf(moves)
<1>1. /\ Paths(moves) /\ Paths(back) /\ DOMAIN back = Range(moves)
      /\ \A s \in DOMAIN moves : moves[s] \in DOMAIN back /\ back[moves[s]] = s
      /\ \A t \in DOMAIN back : back[t] \in DOMAIN moves /\ moves[back[t]] = t
  BY DEF AreOfPaths, AreReverse
<1>2. p \in DOMAIN moves => Carried(p, moves) = moves[p]
  BY <1>1, CarriedStep
<1>3. q \in DOMAIN back => Carried(q, back) = back[q]
  BY <1>1, CarriedStep
<1> HIDE DEF back
<1> QED BY <1>1, <1>2, <1>3 DEF Goes, back

(* Others go where what holds them goes.                                   *)
LEMMA GoesBelow ==
  ASSUME NEW moves, AreOfPaths(moves), NEW p \in Seq(Segment), p # <<>>, p \notin DOMAIN moves,
         NEW q \in Seq(Segment), q # <<>>, q \notin Range(moves)
  PROVE  Goes(p, q, moves) <=> Goes(Front(p), Front(q), moves) /\ Last(p) = Last(q)
<1> DEFINE back == BackOf(moves)
           f == Carried(Front(p), moves)
           g == Carried(Front(q), back)
<1>1. Paths(moves) /\ Paths(back) /\ DOMAIN back = Range(moves)
  BY DEF AreOfPaths
<1>2. Carried(p, moves) = Append(f, Last(p)) /\ Carried(q, back) = Append(g, Last(q))
  BY <1>1, CarriedStep
<1>3. /\ Front(p) \in Seq(Segment) /\ Last(p) \in Segment /\ Append(Front(p), Last(p)) = p
      /\ Front(q) \in Seq(Segment) /\ Last(q) \in Segment /\ Append(Front(q), Last(q)) = q
  BY FrontIs, LastIs
<1>4. f \in Seq(Segment) /\ g \in Seq(Segment)
  BY <1>1, <1>3, CarriedIsPath
<1> HIDE DEF back, f, g
<1> DEFINE u == Front(p)
           v == Front(q)
           x == Last(p)
           y == Last(q)
<1> HIDE DEF u, v, x, y
<1>5. Append(f, x) = Append(v, y) <=> f = v /\ x = y
  <2>1. f \in Seq(Segment) /\ v \in Seq(Segment) /\ x \in Segment /\ y \in Segment
    BY <1>3, <1>4 DEF v, x, y
  <2> QED BY ONLY <2>1, AppendInjective
<1>6. Append(g, y) = Append(u, x) <=> g = u /\ y = x
  <2>1. g \in Seq(Segment) /\ u \in Seq(Segment) /\ x \in Segment /\ y \in Segment
    BY <1>3, <1>4 DEF u, x, y
  <2> QED BY ONLY <2>1, AppendInjective
<1>7. Append(u, x) = p /\ Append(v, y) = q
  BY <1>3 DEF u, v, x, y
<1> QED BY <1>2, <1>5, <1>6, <1>7 DEF Goes, back, f, g, u, v, x, y

(* Nothing above the work goes anywhere.                                   *)
LEMMA GoesNowhere ==
  ASSUME NEW moves
  PROVE  Carried(<<>>, moves) = <<>>
<1>1. \A m \in 1..Len(<<>>) : Head1(<<>>, m) \notin DOMAIN moves
  OBVIOUS
<1> QED BY <1>1, CarriedNowhere

(* Where no path is below another, what moves carry there they carry back. *)
NoneInside(S) == \A s, t \in S : \A n \in 1..Len(t) : Head1(t, n) = s => n = Len(t)

(* Then a path a move carries is carried back to what it was.              *)
LEMMA CarriedThereAndBack ==
  ASSUME NEW moves, NEW back, AreReverse(moves, back), Paths(moves), Paths(back),
         DOMAIN back \subseteq Seq(Segment) \ {<<>>}, NoneInside(DOMAIN back),
         NEW path \in Seq(Segment), Carried(path, moves) # path
  PROVE  Carried(Carried(path, moves), back) = path
<1>1. PICK n \in 1..Len(path) :
        /\ Head1(path, n) \in DOMAIN moves
        /\ \A m \in 1..Len(path) : Head1(path, m) \in DOMAIN moves => m <= n
  BY Nearest, CarriedNowhere
<1> DEFINE s == Head1(path, n)
           t == moves[s]
           b == Below(path, n)
           out == t \o b
           l == Len(t)
<1>2. Carried(path, moves) = out
  BY <1>1, CarriedBy
<1>3. /\ s \in Seq(Segment) /\ b \in Seq(Segment) /\ Len(s) = n
      /\ t \in DOMAIN back /\ t \in Seq(Segment) /\ t # <<>> /\ back[t] = s
  <2>1. n \in 0..Len(path)
    OBVIOUS
  <2> QED BY <1>1, <2>1, BelowIs DEF AreReverse
<1>4. s \o b = path
  <2>1. Len(path) \in Nat /\ 1 <= n /\ n <= Len(path)
    OBVIOUS
  <2>2. path = SubSeq(path, 1, n) \o SubSeq(path, n + 1, Len(path))
    OBVIOUS
  <2> QED BY <2>2 DEF Head1, Below
<1> HIDE DEF s, t, b
<1>5. /\ l \in Nat \ {0} /\ out \in Seq(Segment) /\ Len(out) = l + Len(b)
      /\ \A k \in 1..l + Len(b) : out[k] = IF k <= l THEN t[k] ELSE b[k - l]
  <2>1. l \in Nat \ {0}
    BY <1>3, EmptySeq, LenProperties
  <2> QED BY <1>3, <2>1, ConcatProperties
<1>6. Len(b) \in Nat /\ l \in 1..Len(out) /\ l \in 0..Len(out)
  BY <1>3, <1>5, LenProperties
<1> HIDE DEF out, l
<1>8. \A m \in 0..Len(out) :
        /\ Below(out, m) \in Seq(Segment) /\ Len(Below(out, m)) = Len(out) - m
        /\ \A k \in 1..Len(out) - m : Below(out, m)[k] = out[m + k]
        /\ Head1(out, m) \in Seq(Segment) /\ Len(Head1(out, m)) = m
        /\ \A k \in 1..m : Head1(out, m)[k] = out[k]
  BY <1>5, BelowIs
<1>9. Head1(out, l) = t
  <2> DEFINE h == Head1(out, l)
  <2>1. h \in Seq(Segment) /\ Len(h) = l /\ \A k \in 1..l : h[k] = out[k]
    BY <1>6, <1>8
  <2> HIDE DEF h
  <2>2. \A k \in 1..l : h[k] = t[k]
    BY <1>5, <1>6, <2>1
  <2>3. h = t
    BY <1>3, <2>1, <2>2, SeqEqual DEF l
  <2> QED BY <2>3 DEF h
<1>10. Below(out, l) = b
  <2> DEFINE h == Below(out, l)
  <2>0. /\ h \in Seq(Segment) /\ Len(h) = Len(out) - l
        /\ \A k \in 1..Len(out) - l : h[k] = out[l + k]
    BY <1>6, <1>8
  <2> HIDE DEF h
  <2>1. h \in Seq(Segment) /\ Len(h) = Len(b) /\ \A k \in 1..Len(b) : h[k] = out[l + k]
    <3>1. Len(out) - l = Len(b)
      BY <1>5, <1>6
    <3> QED BY <2>0, <3>1
  <2> HIDE DEF h
  <2>2. \A k \in 1..Len(b) : h[k] = b[k]
    BY <1>5, <1>6, <2>1
  <2>3. h = b
    BY <1>3, <2>1, <2>2, SeqEqual
  <2> QED BY <2>3 DEF h
<1>11. ASSUME NEW m \in 1..Len(out), Head1(out, m) \in DOMAIN back PROVE m <= l
  <2> SUFFICES ASSUME ~(m <= l) PROVE FALSE
    OBVIOUS
  <2> DEFINE u == Head1(out, m)
             h == Head1(u, l)
  <2>1. u \in Seq(Segment) /\ Len(u) = m /\ \A k \in 1..m : u[k] = out[k]
    <3>1. m \in 0..Len(out)
      BY <1>5, <1>6
    <3> QED BY <1>8, <3>1
  <2>2. u \in DOMAIN back
    BY <1>11
  <2> HIDE DEF u
  <2>3. h \in Seq(Segment) /\ Len(h) = l /\ \A k \in 1..l : h[k] = u[k]
    <3>1. l \in 0..Len(u)
      BY <1>5, <1>6, <2>1
    <3> QED BY <2>1, <3>1, BelowIs
  <2> HIDE DEF h
  <2>4. \A k \in 1..l : h[k] = t[k]
    BY <1>5, <1>6, <2>1, <2>3
  <2>5. h = t
    BY <1>3, <2>3, <2>4, SeqEqual DEF l
  <2>6. l \in 1..Len(u)
    BY <1>5, <1>6, <2>1
  <2>7. l = Len(u)
    BY <1>3, <2>2, <2>5, <2>6 DEF NoneInside, h
  <2> QED BY <1>5, <2>1, <2>7
<1>7. Carried(out, back) = back[t] \o b
  BY <1>3, <1>5, <1>6, <1>9, <1>10, <1>11, CarriedBy
<1> QED BY <1>2, <1>3, <1>4, <1>7 DEF out

(* What the comparison of a window makes of a provision both hold, and of  *)
(* one it strikes.                                                         *)
LEMMA WindowIsTrue ==
  ASSUME NEW old, NEW new, NEW moves, IsWindow(old, new, moves),
         NEW mate, mate = Mates(old, new, moves)
  PROVE  /\ \A i \in DOMAIN old \cap DOMAIN new : mate[i] = i
         /\ \A i \in DOMAIN old \ DOMAIN new : mate[i] # 0 => mate[i] \notin DOMAIN old
<1> DEFINE last == DOMAIN new
<1>1. /\ IsPrinting(old) /\ IsPrinting(new) /\ OneAPath(old) /\ OneAPath(new)
      /\ AboveKept(old, new) /\ AreMoves(moves, old, new)
  BY DEF IsWindow
<1>2. Moved(old, new) \subseteq last
  BY DEF Moved
<1> HIDE DEF last
<1>3. Tell(old, new, last, moves)
  BY <1>1, <1>2, FirstTell
<1>4. Compared(old, new, last, moves)
  BY <1>1, <1>3 DEF Compared
<1>5. IsTrue(old, new, mate)
  BY <1>4, DiffIsTrue
<1> QED BY <1>4, <1>5, ItselfIsMate DEF IsTrue

(* A child and its mate go to each other, if what holds them does.         *)
LEMMA MateGoesStep ==
  ASSUME NEW old, NEW new, NEW moves, IsWindow(old, new, moves),
         NEW mate, mate = Mates(old, new, moves), NEW a \in DOMAIN old \ {Root}, mate[a] # 0,
         Goes(old[old[a].above].path, new[mate[old[a].above]].path, moves)
  PROVE  Goes(old[a].path, new[mate[a]].path, moves)
<1> DEFINE h == old[a].above
           g == mate[h]
           b == mate[a]
           p == old[a].path
           q == new[b].path
           moved == Renumbered(old, new, moves, h, g)
           oldLeft == OldLeft(old, new, moves, h, g)
           newLeft == NewLeft(old, new, moves, h, g)
<1>1. /\ IsPrinting(old) /\ IsPrinting(new) /\ OneAPath(old) /\ OneAPath(new)
      /\ AboveKept(old, new) /\ AreMoves(moves, old, new)
  BY DEF IsWindow
<1>2. MovesKnown(old, new, moves) /\ AreOfPaths(moves)
  BY WindowKnows
<1>3. /\ h \in DOMAIN old /\ <<a, b>> \in Paired(old, new, moves, h, g)
      /\ b \in DOMAIN new /\ new[b].above = g /\ g \in DOMAIN new /\ b # Root
  BY <1>1, MatesArePaired
<1>4. /\ p \in Seq(Segment) /\ p # <<>> /\ old[h].path = Front(p)
      /\ q \in Seq(Segment) /\ q # <<>> /\ new[g].path = Front(q)
  BY <1>1, <1>3, AboveIs
<1>5. <<a, b>> \in moved \/ AlikeIn(old, new, oldLeft, newLeft, a, b)
  BY <1>3, PairedIs
<1>6. CASE <<a, b>> \in moved
  <2>1. p \in DOMAIN moves /\ moves[p] = q
    BY <1>6 DEF Renumbered
  <2> HIDE DEF p, q
  <2> QED BY <1>2, <1>4, <2>1, GoesByMove DEF p, q
<1>7. CASE AlikeIn(old, new, oldLeft, newLeft, a, b)
  <2>1. Last(p) = Last(q) /\ a \in oldLeft /\ b \in newLeft
    BY <1>7 DEF AlikeIn, Number
  <2>2. (p \in DOMAIN moves => a \in DOMAIN new) /\ (q \in Range(moves) => b \in DOMAIN old)
    BY <1>2, <1>3 DEF MovesKnown
  <2>3. p \in DOMAIN moves \/ q \in Range(moves) => a = b /\ p \in DOMAIN moves /\ moves[p] = q
    <3>1. a \in DOMAIN new => b = a
      BY WindowIsTrue
    <3>2. a \notin DOMAIN new => b \notin DOMAIN old
      BY WindowIsTrue
    <3> QED BY <1>2, <1>3, <2>2, <3>1, <3>2 DEF MovesKnown
  <2>4. ~(a = b /\ p \in DOMAIN moves /\ moves[p] = q)
    <3> SUFFICES ASSUME a = b, p \in DOMAIN moves, moves[p] = q PROVE FALSE
      OBVIOUS
    <3> DEFINE to == {c \in Children(old, h) : /\ old[c].path \in DOMAIN moves
                                               /\ moves[old[c].path] = q}
               at == {c \in Children(new, g) : new[c].path = q}
    <3>1. \A c \in to : c = a
      <4> SUFFICES ASSUME NEW c \in to PROVE c = a
        OBVIOUS
      <4>1. c \in DOMAIN old /\ old[c].path \in DOMAIN moves /\ moves[old[c].path] = q
        BY DEF Children
      <4>2. c \in DOMAIN new /\ q = new[c].path
        BY <1>2, <4>1 DEF MovesKnown
      <4> QED BY <1>1, <1>3, <4>2 DEF OneAPath
    <3>2. \A c \in at : c = b
      BY <1>1, <1>3 DEF OneAPath, Children
    <3>3. a \in to /\ b \in at
      BY <1>3 DEF Children
    <3>4. to = {a} /\ at = {a}
      <4> HIDE DEF to, at
      <4> QED BY <3>1, <3>2, <3>3
    <3>5. Place(to, a) = Place(at, a)
      <4> HIDE DEF to, at
      <4> QED BY <3>4, PlaceAlone
    <3>6. <<a, a>> \in moved
      <4>1. <<a, a>> \in Children(old, h) \X Children(new, g)
        BY <1>3 DEF Children
      <4> QED BY <3>3, <3>5, <4>1 DEF Renumbered
    <3>7. <<a, a>>[1] = a
      OBVIOUS
    <3>8. a \notin oldLeft
      BY <3>6, <3>7 DEF OldLeft, Ones
    <3> QED BY <2>1, <3>8
  <2>5. p \notin DOMAIN moves /\ q \notin Range(moves)
    BY <2>3, <2>4
  <2>6. Goes(Front(p), Front(q), moves)
    BY <1>4
  <2> HIDE DEF p, q
  <2> QED BY <1>2, <1>4, <2>1, <2>5, <2>6, GoesBelow DEF p, q
<1> QED BY <1>5, <1>6, <1>7

(* One that goes to another is paired with it, if what holds them is.      *)
LEMMA GoesMateStep ==
  ASSUME NEW old, NEW new, NEW moves, IsWindow(old, new, moves),
         NEW mate, mate = Mates(old, new, moves), NEW a \in DOMAIN old \ {Root},
         NEW b \in DOMAIN new \ {Root}, Goes(old[a].path, new[b].path, moves),
         Goes(old[old[a].above].path, new[new[b].above].path, moves)
           => mate[old[a].above] = new[b].above
  PROVE  mate[a] = b
<1> DEFINE h == old[a].above
           g == new[b].above
           p == old[a].path
           q == new[b].path
           moved == Renumbered(old, new, moves, h, g)
           oldLeft == OldLeft(old, new, moves, h, g)
           newLeft == NewLeft(old, new, moves, h, g)
<1>1. /\ IsPrinting(old) /\ IsPrinting(new) /\ OneAPath(old) /\ OneAPath(new)
      /\ AboveKept(old, new) /\ AreMoves(moves, old, new)
  BY DEF IsWindow
<1>2. MovesKnown(old, new, moves) /\ AreOfPaths(moves)
  BY WindowKnows
<1>3. /\ h \in DOMAIN old /\ p \in Seq(Segment) /\ p # <<>> /\ old[h].path = Front(p)
      /\ g \in DOMAIN new /\ q \in Seq(Segment) /\ q # <<>> /\ new[g].path = Front(q)
      /\ g \in Nat \ {0}
  BY <1>1, AboveIs
<1>4. CASE p \in DOMAIN moves \/ q \in Range(moves)
  <2>1. p \in DOMAIN moves /\ moves[p] = q
    <3> HIDE DEF p, q
    <3> QED BY <1>2, <1>3, <1>4, GoesByMove DEF p, q
  <2>2. a \in DOMAIN new /\ new[a].path = new[b].path
    BY <1>2, <2>1 DEF MovesKnown
  <2>3. a = b
    BY <1>1, <2>2 DEF OneAPath
  <2> QED BY <2>2, <2>3, WindowIsTrue
<1>5. CASE p \notin DOMAIN moves /\ q \notin Range(moves)
  <2>1. Goes(Front(p), Front(q), moves) /\ Last(p) = Last(q)
    <3> HIDE DEF p, q
    <3> QED BY <1>2, <1>3, <1>5, GoesBelow DEF p, q
  <2>2. mate[h] = g
    BY <1>3, <2>1
  <2>3. a \in oldLeft
    <3>1. ASSUME NEW m \in moved PROVE m[1] # a
      BY <1>5 DEF Renumbered
    <3> QED BY <3>1 DEF OldLeft, Ones, Children
  <2>4. b \in newLeft
    <3>1. ASSUME NEW m \in moved PROVE m[2] # b
      BY <1>5 DEF Renumbered, Range
    <3> QED BY <3>1 DEF NewLeft, Others, Children
  <2>5. \A i \in oldLeft : Number(old, i) = Number(old, a) => i = a
    <3> SUFFICES ASSUME NEW i \in oldLeft, Number(old, i) = Number(old, a) PROVE i = a
      OBVIOUS
    <3>1. i \in DOMAIN old /\ old[i].above = h
      BY DEF OldLeft, Children
    <3>2. i # Root
      <4>1. old[Root].above = 0 /\ h # 0
        <5>1. h \in Nat \ {0}
          BY <1>1, <1>3, AboveIs
        <5> QED BY <1>1, <5>1 DEF IsPrinting, Printing
      <4> QED BY <3>1, <4>1
    <3> QED BY <1>1, <3>1, <3>2, SameNumber
  <2>6. \A i \in newLeft : Number(new, i) = Number(new, b) => i = b
    <3> SUFFICES ASSUME NEW i \in newLeft, Number(new, i) = Number(new, b) PROVE i = b
      OBVIOUS
    <3>1. i \in DOMAIN new /\ new[i].above = g
      BY DEF NewLeft, Children
    <3>2. i # Root
      <4>1. new[Root].above = 0
        BY <1>1 DEF IsPrinting, Printing
      <4> QED BY <1>3, <3>1, <4>1
    <3> QED BY <1>1, <3>1, <3>2, SameNumber
  <2> HIDE DEF oldLeft, newLeft
  <2>7. ByNumber(old, oldLeft, a) = {a} /\ ByNumber(new, newLeft, b) = {b}
    BY <2>3, <2>4, <2>5, <2>6 DEF ByNumber
  <2>8. Place({a}, a) = 1 /\ Place({b}, b) = 1
    <3>1. a \in Nat /\ b \in Nat
      BY <1>1, AboveIs
    <3>2. {j \in {a} : j <= a} = {a} /\ {j \in {b} : j <= b} = {b}
      BY <3>1
    <3> QED BY <3>2, FS_Singleton DEF Place
  <2>9. AlikeIn(old, new, oldLeft, newLeft, a, b)
    BY <2>1, <2>3, <2>4, <2>7, <2>8 DEF AlikeIn, Number
  <2> DEFINE pairs == Paired(old, new, moves, h, g)
  <2>10. <<a, b>> \in pairs
    BY <2>9, PairedIs DEF oldLeft, newLeft
  <2>11. \A m \in pairs : m = <<m[1], m[2]>>
    <3>1. \A m \in pairs : m \in Children(old, h) \X Children(new, g)
      BY PairedAreChildren
    <3> HIDE DEF pairs
    <3> QED BY <3>1
  <2>12. \A c : <<a, c>> \in pairs => c = b
    BY <1>1, <2>10, PairedOnce
  <2>13. MateIn(pairs, a) = b
    <3> HIDE DEF pairs
    <3> QED BY <2>10, <2>11, <2>12, MateIsThe
  <2>14. mate[a] = MateIn(Paired(old, new, moves, h, mate[h]), a)
    <3>1. mate[h] # 0
      BY <1>3, <2>2
    <3> QED BY <1>1, <3>1, MatesAre
  <2> QED BY <2>2, <2>13, <2>14
<1> QED BY <1>4, <1>5

(* So mates are those that go to each other.                               *)
LEMMA MateGoes ==
  ASSUME NEW old, NEW new, NEW moves, IsWindow(old, new, moves),
         NEW mate, mate = Mates(old, new, moves), NEW i \in DOMAIN old
  PROVE  \A b \in DOMAIN new : mate[i] = b <=> Goes(old[i].path, new[b].path, moves)
<1> DEFINE Is(a) == \A b \in DOMAIN new : mate[a] = b <=> Goes(old[a].path, new[b].path, moves)
           wrong == {a \in DOMAIN old : ~Is(a)}
<1>1. /\ IsPrinting(old) /\ IsPrinting(new) /\ OneAPath(old) /\ OneAPath(new)
  BY DEF IsWindow
<1>2. wrong = {}
  <2> SUFFICES ASSUME wrong # {} PROVE FALSE
    OBVIOUS
  <2>1. PICK a \in wrong : \A x \in wrong : a <= x
    <3>1. wrong \in SUBSET Nat
      BY <1>1, AboveIs
    <3> HIDE DEF wrong
    <3> QED BY <3>1, LeastMember
  <2>2. a \in DOMAIN old /\ ~Is(a)
    <3> HIDE DEF Is
    <3> QED OBVIOUS
  <2>3. CASE a = Root
    <3>1. /\ mate[Root] = Root /\ old[a].path = <<>> /\ Root \in DOMAIN new
          /\ new[Root].path = <<>>
      BY <1>1, <2>3, MatesAre DEF IsPrinting, Printing
    <3>2. ASSUME NEW b \in DOMAIN new, Goes(<<>>, new[b].path, moves) PROVE b = Root
      <4>1. new[b].path = <<>>
        BY <3>2, GoesNowhere DEF Goes
      <4> QED BY <1>1, <3>1, <4>1 DEF OneAPath
    <3>3. Goes(<<>>, <<>>, moves)
      BY GoesNowhere DEF Goes
    <3> QED BY <2>2, <2>3, <3>1, <3>2, <3>3
  <2>4. CASE a # Root
    <3> DEFINE h == old[a].above
    <3>1. h \in DOMAIN old /\ h < a /\ h \in Nat /\ a \in Nat /\ old[a].path # <<>>
          /\ old[a].path \in Seq(Segment)
      BY <1>1, <2>2, <2>4, AboveIs
    <3>2. Is(h)
      <4>1. h \notin wrong
        <5> HIDE DEF wrong, h
        <5> QED BY <2>1, <3>1
      <4> HIDE DEF Is, h
      <4> QED BY <3>1, <4>1
    <3>3. ASSUME NEW b \in DOMAIN new, mate[a] = b PROVE Goes(old[a].path, new[b].path, moves)
      <4>1. mate[a] # 0
        <5>1. b \in Nat \ {0}
          BY <1>1, AboveIs
        <5> QED BY <3>3, <5>1
      <4>2. mate[h] \in DOMAIN new
        BY <1>1, <2>2, <2>4, <4>1, MatesArePaired
      <4>3. Goes(old[h].path, new[mate[h]].path, moves)
        BY <3>2, <4>2
      <4> QED BY <2>2, <2>4, <3>3, <4>1, <4>3, MateGoesStep
    <3>4. ASSUME NEW b \in DOMAIN new, Goes(old[a].path, new[b].path, moves) PROVE mate[a] = b
      <4>1. b # Root
        <5> SUFFICES ASSUME b = Root PROVE FALSE
          OBVIOUS
        <5>1. new[b].path = <<>>
          BY <1>1 DEF IsPrinting, Printing
        <5>2. old[a].path = <<>>
          BY <3>4, <5>1, GoesNowhere DEF Goes
        <5> QED BY <3>1, <5>2
      <4>2. new[b].above \in DOMAIN new
        BY <1>1, <4>1, AboveIs
      <4>3. Goes(old[h].path, new[new[b].above].path, moves) => mate[h] = new[b].above
        BY <3>2, <4>2
      <4> QED BY <2>2, <2>4, <3>4, <4>1, <4>3, GoesMateStep
    <3> QED BY <2>2, <3>3, <3>4
  <2> QED BY <2>3, <2>4
<1> QED BY <1>2

-----------------------------------------------------------------------------
(* The history of a path, in links that go round nowhere.                  *)

(* A walk that gets longer by a step at a time, and no longer than a       *)
(* number, comes to where it stops.                                        *)
Lengthens(C, stops, on, most) ==
  /\ \A h \in C : Len(h) \in 0..most
  /\ \A h \in C \ stops : on[h] \in C /\ Len(on[h]) = Len(h) + 1

(* It is one of them.                                                      *)
LEMMA ComesToAStop ==
  ASSUME NEW C, NEW stops, NEW on, NEW most \in Nat, Lengthens(C, stops, on, most), NEW f,
         \A h \in C : f[h] = IF h \in stops THEN h ELSE f[on[h]], NEW first \in C
  PROVE  \E h \in C \cap stops : f[first] = h
<1> DEFINE reached == {h \in C : f[h] = f[first]}
           T == {Len(h) + 1 : h \in reached}
<1>1. T \in SUBSET (1..most + 1) /\ T # {}
  <2>1. \A h \in reached : Len(h) \in 0..most
    BY DEF Lengthens
  <2>2. first \in reached
    OBVIOUS
  <2> HIDE DEF reached
  <2> QED BY <2>1, <2>2
<1>2. PICK m \in T : \A k \in T : k <= m
  <2> HIDE DEF T
  <2>1. most + 1 \in Nat
    OBVIOUS
  <2> QED BY <1>1, <2>1, GreatestMember
<1>3. PICK h \in reached : m = Len(h) + 1
  OBVIOUS
<1>4. h \in C /\ f[h] = f[first] /\ Len(h) \in Nat
  BY DEF Lengthens
<1>5. h \in stops
  <2> SUFFICES ASSUME h \notin stops PROVE FALSE
    OBVIOUS
  <2>1. on[h] \in C /\ Len(on[h]) = Len(h) + 1 /\ f[on[h]] = f[first]
    BY <1>4 DEF Lengthens
  <2>2. Len(on[h]) + 1 \in T
    BY <2>1
  <2> HIDE DEF T
  <2> QED BY <1>2, <1>3, <1>4, <2>1, <2>2
<1> QED BY <1>4, <1>5

(* Steps that are all different are no more than there are.                *)
LEMMA NoMoreThanSteps ==
  ASSUME NEW S, NEW steps \in Seq(S), NEW h \in Seq(Range(steps)), NEW k \in 0..Len(h),
         \A m, n \in k + 1..Len(h) : h[m] = h[n] => m = n
  PROVE  Len(h) <= k + Len(steps)
<1> DEFINE at == [n \in k + 1..Len(h) |-> CHOOSE x \in DOMAIN steps : steps[x] = h[n]]
<1>1. Len(h) \in Nat /\ Len(steps) \in Nat /\ DOMAIN steps = 1..Len(steps)
      /\ DOMAIN h = 1..Len(h) /\ k \in Nat /\ k <= Len(h)
  OBVIOUS
<1>2. ASSUME NEW n \in k + 1..Len(h)
      PROVE  at[n] \in 1..Len(steps) /\ steps[at[n]] = h[n]
  <2>1. n \in DOMAIN h
    BY <1>1
  <2>2. h[n] \in Range(steps)
    BY <1>1, <2>1
  <2>3. \E x \in DOMAIN steps : steps[x] = h[n]
    BY <2>2 DEF Range
  <2> QED BY <1>1, <2>3
<1>3. at \in Injection(k + 1..Len(h), 1..Len(steps))
  <2>1. at \in [k + 1..Len(h) -> 1..Len(steps)]
    BY <1>2
  <2>2. \A m, n \in k + 1..Len(h) : at[m] = at[n] => m = n
    <3> HIDE DEF at
    <3> QED BY <1>2
  <2> HIDE DEF at
  <2> QED BY <2>1, <2>2 DEF Injection, IsInjective
<1> HIDE DEF at
<1>4. /\ IsFiniteSet(1..Len(steps)) /\ Cardinality(1..Len(steps)) = Len(steps)
      /\ IsFiniteSet(k + 1..Len(h))
      /\ Cardinality(k + 1..Len(h)) = IF k + 1 > Len(h) THEN 0 ELSE Len(h) - (k + 1) + 1
  <2>1. IsFiniteSet(1..Len(steps)) /\ Cardinality(1..Len(steps)) =
          IF 1 > Len(steps) THEN 0 ELSE Len(steps) - 1 + 1
    <3>1. 1 \in Int /\ Len(steps) \in Int
      BY <1>1
    <3> QED BY <3>1, FS_Interval
  <2>2. /\ IsFiniteSet(k + 1..Len(h))
        /\ Cardinality(k + 1..Len(h)) = IF k + 1 > Len(h) THEN 0 ELSE Len(h) - (k + 1) + 1
    <3>1. k + 1 \in Int /\ Len(h) \in Int
      BY <1>1
    <3> QED BY <3>1, FS_Interval
  <2> QED BY <1>1, <2>1, <2>2
<1>5. Cardinality(k + 1..Len(h)) <= Cardinality(1..Len(steps))
  BY <1>3, <1>4, FS_Injection
<1> QED BY <1>1, <1>4, <1>5

(* A step put before others, and one put after them.                      *)
LEMMA PutBefore ==
  ASSUME NEW S, NEW h \in Seq(S), NEW next \in Seq(S), Len(next) = 1
  PROVE  /\ next \o h \in Seq(S) /\ Len(next \o h) = 1 + Len(h)
         /\ \A n \in 1..1 + Len(h) : (next \o h)[n] = IF n <= 1 THEN next[n] ELSE h[n - 1]
<1> DEFINE g == next \o h
           k == Len(next)
<1>1. /\ g \in Seq(S) /\ Len(g) = k + Len(h)
      /\ \A n \in 1..k + Len(h) : g[n] = IF n <= k THEN next[n] ELSE h[n - k]
  BY ConcatProperties
<1>2. k = 1
  OBVIOUS
<1> HIDE DEF g, k
<1>3. /\ g \in Seq(S) /\ Len(g) = 1 + Len(h)
      /\ \A n \in 1..1 + Len(h) : g[n] = IF n <= 1 THEN next[n] ELSE h[n - 1]
  BY ONLY <1>1, <1>2
<1> QED BY <1>3 DEF g

(* The same after the others.                                              *)
LEMMA PutAfter ==
  ASSUME NEW S, NEW h \in Seq(S), NEW next \in Seq(S), Len(next) = 1
  PROVE  /\ h \o next \in Seq(S) /\ Len(h \o next) = Len(h) + 1
         /\ \A n \in 1..Len(h) + 1 :
              (h \o next)[n] = IF n <= Len(h) THEN h[n] ELSE next[n - Len(h)]
BY ConcatProperties

(* The walk back: each step leads to where the next starts, the last to    *)
(* the path, and none starts where another does.                           *)
IsChain(path, steps, h) ==
  /\ h \in Seq(Range(steps))
  /\ h # <<>> => h[Len(h)].to = path
  /\ \A n \in 1..Len(h) - 1 : h[n].to = h[n + 1].from
  /\ \A n \in 1..Len(h) : h[n].from # path
  /\ \A m, n \in 1..Len(h) : h[m].from = h[n].from => m = n

(* A step further back is again such a chain, one longer.                  *)
LEMMA ChainGoesOn ==
  ASSUME NEW S, NEW steps \in Seq(S), NEW path, NEW h, IsChain(path, steps, h),
         ~IsEarliest(path, steps, h)
  PROVE  /\ IsChain(path, steps, Earlier(path, steps, h) \o h)
         /\ Len(Earlier(path, steps, h) \o h) = Len(h) + 1
<1> DEFINE at == IF h = <<>> THEN path ELSE h[1].from
           next == Earlier(path, steps, h)
           g == next \o h
<1>1. /\ h \in Seq(Range(steps)) /\ Len(h) \in Nat /\ DOMAIN h = 1..Len(h)
      /\ (h = <<>> <=> Len(h) = 0)
  BY EmptySeq DEF IsChain
<1>2. next # <<>> /\ next[1].from \notin {path} \cup {h[n].from : n \in DOMAIN h}
  BY DEF IsEarliest
<1>3. PICK x \in DOMAIN steps : steps[x].to = at /\ next = <<steps[x]>>
  <2>1. To(steps, at) \in SUBSET DOMAIN steps /\ next = FirstOf(steps, To(steps, at))
    BY DEF To, Earlier
  <2>2. To(steps, at) # {}
    BY <1>2, <2>1 DEF FirstOf
  <2> QED BY <2>1, <2>2, FirstOfIs DEF To
<1> DEFINE s == steps[x]
<1>4. s \in Range(steps) /\ next[1] = s /\ next \in Seq(Range(steps)) /\ Len(next) = 1
  BY <1>3 DEF Range
<1>5. s.to = at /\ s.from # path /\ \A n \in 1..Len(h) : s.from # h[n].from
  BY <1>1, <1>2, <1>3, <1>4
<1> HIDE DEF s, next
<1>6. /\ g \in Seq(Range(steps)) /\ Len(g) = 1 + Len(h)
      /\ \A n \in 1..1 + Len(h) : g[n] = IF n <= 1 THEN next[n] ELSE h[n - 1]
  BY <1>1, <1>4, PutBefore
<1> HIDE DEF g
<1>7. /\ g[1] = s /\ \A n \in 2..Len(g) : n - 1 \in 1..Len(h) /\ g[n] = h[n - 1]
      /\ Len(g) = Len(h) + 1 /\ \A n \in 1..Len(g) : n = 1 \/ n \in 2..Len(g)
  <2>1. 1 \in 1..1 + Len(h) /\ 1 <= 1
    BY <1>1
  <2>2. g[1] = s
    BY <1>4, <1>6, <2>1
  <2>3. ASSUME NEW n \in 2..Len(g) PROVE n - 1 \in 1..Len(h) /\ g[n] = h[n - 1]
    <3>1. n \in 1..1 + Len(h) /\ ~(n <= 1) /\ n - 1 \in 1..Len(h)
      BY <1>1, <1>6
    <3> QED BY <1>6, <3>1
  <2> QED BY <1>1, <1>6, <2>2, <2>3
<1>8. g[Len(g)].to = path
  <2>1. CASE h = <<>>
    BY <1>1, <1>5, <1>7, <2>1
  <2>2. CASE h # <<>>
    <3>1. Len(g) \in 2..Len(g) /\ Len(g) - 1 = Len(h)
      BY <1>1, <1>7, <2>2
    <3> QED BY <1>7, <2>2, <3>1 DEF IsChain
  <2> QED BY <2>1, <2>2
<1>9. ASSUME NEW n \in 1..Len(g) - 1 PROVE g[n].to = g[n + 1].from
  <2>1. n + 1 \in 2..Len(g) /\ (n + 1) - 1 = n /\ n \in 1..Len(g) /\ n \in 1..Len(h)
    BY <1>1, <1>7
  <2>2. g[n + 1] = h[n]
    BY <1>7, <2>1
  <2>3. CASE n = 1
    <3>1. h # <<>>
      BY <1>1, <2>1
    <3> QED BY <1>5, <1>7, <2>2, <2>3, <3>1
  <2>4. CASE n # 1
    <3>1. n \in 2..Len(g) /\ n - 1 \in 1..Len(h) - 1 /\ (n - 1) + 1 = n
      BY <1>1, <1>7, <2>1, <2>4
    <3>2. g[n] = h[n - 1]
      BY <1>7, <3>1
    <3>3. h[n - 1].to = h[(n - 1) + 1].from
      BY <3>1 DEF IsChain
    <3> QED BY <2>2, <3>1, <3>2, <3>3
  <2> QED BY <2>3, <2>4
<1>10. \A n \in 1..Len(g) : g[n].from # path
  <2>1. \A n \in 2..Len(g) : g[n].from # path
    BY <1>7 DEF IsChain
  <2> QED BY <1>5, <1>7, <2>1
<1>11. ASSUME NEW m \in 1..Len(g), NEW n \in 1..Len(g), g[m].from = g[n].from PROVE m = n
  <2>1. CASE m = 1 /\ n = 1
    BY <2>1
  <2>2. CASE m = 1 /\ n \in 2..Len(g)
    BY <1>5, <1>7, <1>11, <2>2
  <2>3. CASE n = 1 /\ m \in 2..Len(g)
    BY <1>5, <1>7, <1>11, <2>3
  <2>4. CASE m \in 2..Len(g) /\ n \in 2..Len(g)
    <3>1. m - 1 \in 1..Len(h) /\ n - 1 \in 1..Len(h) /\ h[m - 1].from = h[n - 1].from
      BY <1>7, <1>11, <2>4
    <3>2. m - 1 = n - 1
      BY <3>1 DEF IsChain
    <3> QED BY <3>2
  <2> QED BY <1>7, <2>1, <2>2, <2>3, <2>4
<1>12. IsChain(path, steps, g)
  BY <1>6, <1>8, <1>9, <1>10, <1>11 DEF IsChain
<1> QED BY <1>7, <1>12 DEF g, next

(* The walk on: what was walked back, the step from the path, and steps    *)
(* none of which leads where another does.                                 *)
GoesFrom(path, steps, past, h) ==
  /\ h \in Seq(Range(steps)) /\ Len(past) < Len(h)
  /\ \A n \in 1..Len(past) : h[n] = past[n]
  /\ h[Len(past) + 1] = Later(path, steps, past, past)[1]
  /\ \A m, n \in Len(past) + 1..Len(h) : h[m].to = h[n].to => m = n

(* A step further on is again such a walk, one longer.                     *)
LEMMA WalkGoesOn ==
  ASSUME NEW S, NEW steps \in Seq(S), NEW path, NEW past \in Seq(Range(steps)), NEW h,
         h = past \/ GoesFrom(path, steps, past, h), ~IsLatest(path, steps, past, h)
  PROVE  /\ GoesFrom(path, steps, past, h \o Later(path, steps, past, h))
         /\ Len(h \o Later(path, steps, past, h)) = Len(h) + 1
<1> DEFINE next == Later(path, steps, past, h)
           g == h \o next
           l == Len(past)
           from == IF h = past THEN path ELSE Last(h).to
<1>1. /\ h \in Seq(Range(steps)) /\ Len(h) \in Nat /\ l \in Nat /\ l <= Len(h)
      /\ \A n \in 1..l : h[n] = past[n]
      /\ h = past \/ l < Len(h)
      /\ \A m, n \in l + 1..Len(h) : h[m].to = h[n].to => m = n
  <2>1. CASE h = past
    BY <2>1
  <2>2. CASE GoesFrom(path, steps, past, h)
    BY <2>2 DEF GoesFrom
  <2> QED BY <2>1, <2>2
<1>2. /\ next # <<>> /\ \A n \in l + 1..Len(h) : next[1].to # h[n].to
  BY DEF IsLatest
<1>3. PICK x \in DOMAIN steps : next = <<steps[x]>>
  <2>1. From(steps, from) \in SUBSET DOMAIN steps /\ next = FirstOf(steps, From(steps, from))
    BY DEF From, Later
  <2>2. From(steps, from) # {}
    BY <1>2, <2>1 DEF FirstOf
  <2> QED BY <2>1, <2>2, FirstOfIs
<1> DEFINE s == steps[x]
<1>4. s \in Range(steps) /\ next[1] = s /\ next \in Seq(Range(steps)) /\ Len(next) = 1
  BY <1>3 DEF Range
<1>5. h = past => s = Later(path, steps, past, past)[1]
  BY <1>4
<1> HIDE DEF s, next
<1>6. /\ g \in Seq(Range(steps)) /\ Len(g) = Len(h) + 1
      /\ \A n \in 1..Len(h) + 1 : g[n] = IF n <= Len(h) THEN h[n] ELSE next[n - Len(h)]
  BY <1>1, <1>4, PutAfter
<1> HIDE DEF g
<1>7. (\A n \in 1..Len(h) : g[n] = h[n]) /\ g[Len(h) + 1] = s
  <2>1. ASSUME NEW n \in 1..Len(h) PROVE g[n] = h[n]
    <3>1. n \in 1..Len(h) + 1 /\ n <= Len(h)
      BY <1>1
    <3> QED BY <1>6, <3>1
  <2>2. Len(h) + 1 \in 1..Len(h) + 1 /\ ~(Len(h) + 1 <= Len(h)) /\ (Len(h) + 1) - Len(h) = 1
    BY <1>1
  <2> QED BY <1>4, <1>6, <2>1, <2>2
<1>8. \A n \in 1..l : g[n] = past[n]
  <2>1. \A n \in 1..l : n \in 1..Len(h)
    BY <1>1
  <2> QED BY <1>1, <1>7, <2>1
<1>9. g[l + 1] = Later(path, steps, past, past)[1]
  <2>1. CASE h = past
    BY <1>5, <1>7, <2>1
  <2>2. CASE h # past
    <3>1. l + 1 \in 1..Len(h) /\ GoesFrom(path, steps, past, h)
      BY <1>1, <2>2
    <3> QED BY <1>7, <3>1 DEF GoesFrom
  <2> QED BY <2>1, <2>2
<1>10. ASSUME NEW m \in l + 1..Len(g), NEW n \in l + 1..Len(g), g[m].to = g[n].to PROVE m = n
  <2>1. \A k \in l + 1..Len(g) : k = Len(h) + 1 \/ (k \in l + 1..Len(h) /\ k \in 1..Len(h))
    BY <1>1, <1>6
  <2>2. \A k \in l + 1..Len(h) : k \in 1..Len(h) /\ g[k] = h[k] /\ s.to # h[k].to
    BY <1>1, <1>2, <1>4, <1>7
  <2> QED BY <1>1, <1>7, <1>10, <2>1, <2>2
<1>11. GoesFrom(path, steps, past, g)
  BY <1>1, <1>6, <1>8, <1>9, <1>10 DEF GoesFrom
<1> QED BY <1>6, <1>11 DEF g, next

(* No steps of a sequence lead round to where they start from.             *)
NoRing(steps) ==
  \A ring \in SUBSET DOMAIN steps :
    ring # {} => {steps[n].from : n \in ring} # {steps[n].to : n \in ring}

(* A walk back comes to a chain that is the earliest.                      *)
LEMMA ChainEnds ==
  ASSUME NEW S, NEW steps \in Seq(S), NEW path, NEW back,
         GoesBack(path, steps, back)
  PROVE  IsChain(path, steps, back[<<>>]) /\ IsEarliest(path, steps, back[<<>>])
<1> DEFINE C == {h \in Seq(Range(steps)) : IsChain(path, steps, h)}
           stops == {h \in Seq(Range(steps)) : IsEarliest(path, steps, h)}
           on == [h \in Seq(Range(steps)) |-> Earlier(path, steps, h) \o h]
           most == Len(steps)
<1>1. <<>> \in C
  <2>1. <<>> \in Seq(Range(steps)) /\ Len(<<>>) = 0
    OBVIOUS
  <2>2. IsChain(path, steps, <<>>)
    BY <2>1 DEF IsChain
  <2> QED BY <2>1, <2>2
<1>2. ASSUME NEW h \in C PROVE Len(h) \in 0..most
  <2>1. h \in Seq(Range(steps)) /\ Len(h) \in Nat /\ most \in Nat
    OBVIOUS
  <2>2. \A m, n \in 0 + 1..Len(h) : h[m] = h[n] => m = n
    BY DEF IsChain
  <2>3. 0 \in 0..Len(h)
    BY <2>1
  <2>4. Len(h) <= 0 + Len(steps)
    BY <2>1, <2>2, <2>3, NoMoreThanSteps
  <2> QED BY <2>1, <2>4
<1>3. ASSUME NEW h \in C \ stops PROVE on[h] \in C /\ Len(on[h]) = Len(h) + 1
  <2>1. h \in Seq(Range(steps)) /\ IsChain(path, steps, h) /\ ~IsEarliest(path, steps, h)
    OBVIOUS
  <2>2. /\ IsChain(path, steps, Earlier(path, steps, h) \o h)
        /\ Len(Earlier(path, steps, h) \o h) = Len(h) + 1
    BY <2>1, ChainGoesOn
  <2>3. Earlier(path, steps, h) \o h \in Seq(Range(steps))
    BY <2>2 DEF IsChain
  <2> QED BY <2>1, <2>2, <2>3
<1>4. ASSUME NEW h \in C PROVE back[h] = IF h \in stops THEN h ELSE back[on[h]]
  BY DEF GoesBack
<1>5. most \in Nat /\ Lengthens(C, stops, on, most)
  <2>1. most \in Nat
    OBVIOUS
  <2> HIDE DEF C, stops, on, most
  <2> QED BY <1>2, <1>3, <2>1 DEF Lengthens
<1>6. \E h \in C \cap stops : back[<<>>] = h
  <2> HIDE DEF C, stops, on, most
  <2> QED BY <1>1, <1>4, <1>5, ComesToAStop
<1> QED BY <1>6

(* The walk on from it comes to a walk that is the latest, where it starts *)
(* at all.                                                                 *)
LEMMA WalkOnEnds ==
  ASSUME NEW S, NEW steps \in Seq(S), NEW path, NEW past \in Seq(Range(steps)), NEW forth,
         GoesForth(path, steps, past, forth),
         ~IsLatest(path, steps, past, past)
  PROVE  GoesFrom(path, steps, past, forth[past])
<1> DEFINE C == {h \in Seq(Range(steps)) : GoesFrom(path, steps, past, h)}
           stops == {h \in Seq(Range(steps)) : IsLatest(path, steps, past, h)}
           on == [h \in Seq(Range(steps)) |-> h \o Later(path, steps, past, h)]
           most == Len(past) + Len(steps)
           first == past \o Later(path, steps, past, past)
<1>1. first \in C /\ forth[past] = forth[first]
  <2>1. GoesFrom(path, steps, past, first)
    BY WalkGoesOn
  <2>2. first \in Seq(Range(steps))
    BY <2>1 DEF GoesFrom
  <2> QED BY <2>1, <2>2 DEF GoesForth
<1>2. ASSUME NEW h \in C PROVE Len(h) \in 0..most
  <2>1. /\ h \in Seq(Range(steps)) /\ Len(h) \in Nat /\ Len(past) \in Nat /\ Len(steps) \in Nat
        /\ Len(past) < Len(h)
    BY DEF GoesFrom
  <2>2. \A m, n \in Len(past) + 1..Len(h) : h[m] = h[n] => m = n
    BY DEF GoesFrom
  <2>3. Len(past) \in 0..Len(h)
    BY <2>1
  <2>4. Len(h) <= Len(past) + Len(steps)
    BY <2>1, <2>2, <2>3, NoMoreThanSteps
  <2> QED BY <2>1, <2>4
<1>3. ASSUME NEW h \in C \ stops PROVE on[h] \in C /\ Len(on[h]) = Len(h) + 1
  <2>1. /\ h \in Seq(Range(steps)) /\ GoesFrom(path, steps, past, h)
        /\ ~IsLatest(path, steps, past, h)
    OBVIOUS
  <2>2. /\ GoesFrom(path, steps, past, h \o Later(path, steps, past, h))
        /\ Len(h \o Later(path, steps, past, h)) = Len(h) + 1
    BY <2>1, WalkGoesOn
  <2>3. h \o Later(path, steps, past, h) \in Seq(Range(steps))
    BY <2>2 DEF GoesFrom
  <2> QED BY <2>1, <2>2, <2>3
<1>4. ASSUME NEW h \in C PROVE forth[h] = IF h \in stops THEN h ELSE forth[on[h]]
  BY DEF GoesForth
<1>5. most \in Nat /\ Lengthens(C, stops, on, most)
  <2>1. most \in Nat
    OBVIOUS
  <2> HIDE DEF C, stops, on, most
  <2> QED BY <1>2, <1>3, <2>1 DEF Lengthens
<1>6. \E h \in C \cap stops : forth[first] = h
  <2> HIDE DEF C, stops, on, most, first
  <2> QED BY <1>1, <1>4, <1>5, ComesToAStop
<1> QED BY <1>1, <1>6

(* Where no steps go round, the earliest chain has the step to the path,   *)
(* if there is one.                                                        *)
LEMMA ChainHasTo ==
  ASSUME NEW S, NEW steps \in Seq(S), NEW path, NoRing(steps), To(steps, path) # {},
         NEW past, IsChain(path, steps, past), IsEarliest(path, steps, past)
  PROVE  \E x \in Range(past) : x.to = path
<1>1. past \in Seq(Range(steps)) /\ Len(past) \in Nat /\ DOMAIN past = 1..Len(past)
  BY DEF IsChain
<1>2. past # <<>>
  <2> SUFFICES ASSUME past = <<>> PROVE FALSE
    OBVIOUS
  <2>1. To(steps, path) \in SUBSET DOMAIN steps /\ Earlier(path, steps, past) = FirstOf(steps, To(steps, path))
    BY DEF To, Earlier
  <2>2. PICK n \in To(steps, path) : Earlier(path, steps, past) = <<steps[n]>>
    BY <2>1, FirstOfIs
  <2>3. DOMAIN past = {} /\ Earlier(path, steps, past) # <<>>
    BY <2>2
  <2>4. steps[n].from = path /\ steps[n].to = path /\ n \in DOMAIN steps
    BY <2>2, <2>3 DEF IsEarliest, To
  <2>5. {n} \in SUBSET DOMAIN steps /\ {n} # {}
        /\ {steps[k].from : k \in {n}} = {steps[k].to : k \in {n}}
    BY <2>4
  <2> QED BY <2>5 DEF NoRing
<1>3. Len(past) \in DOMAIN past /\ past[Len(past)].to = path
  BY <1>1, <1>2, EmptySeq DEF IsChain
<1> QED BY <1>3 DEF Range

(* and the walk on from it starts, if there is a step from the path.       *)
LEMMA WalkStarts ==
  ASSUME NEW S, NEW steps \in Seq(S), NEW path, NoRing(steps), From(steps, path) # {},
         NEW past, IsChain(path, steps, past)
  PROVE  ~IsLatest(path, steps, past, past) /\ Later(path, steps, past, past)[1].from = path
<1>1. past \in Seq(Range(steps)) /\ Len(past) \in Nat /\ DOMAIN past = 1..Len(past)
  BY DEF IsChain
<1>2. PICK x \in From(steps, path) : Later(path, steps, past, past) = <<steps[x]>>
  <2>1. /\ From(steps, path) \in SUBSET DOMAIN steps
        /\ Later(path, steps, past, past) = FirstOf(steps, From(steps, path))
    BY DEF From, Later
  <2> QED BY <2>1, FirstOfIs
<1> DEFINE s == steps[x]
<1>3. /\ Later(path, steps, past, past) # <<>> /\ Later(path, steps, past, past)[1] = s
      /\ s.from = path /\ x \in DOMAIN steps
  BY <1>2 DEF From
<1>4. s.to # path
  <2> SUFFICES ASSUME s.to = path PROVE FALSE
    OBVIOUS
  <2>1. {x} \in SUBSET DOMAIN steps /\ {x} # {}
        /\ {steps[k].from : k \in {x}} = {steps[k].to : k \in {x}}
    BY <1>3
  <2> QED BY <2>1 DEF NoRing
<1>5. ASSUME NEW j \in 1..Len(past), s.to = past[j].from PROVE FALSE
  <2> DEFINE ring == {x} \cup {y \in DOMAIN steps : \E n \in j..Len(past) : steps[y] = past[n]}
  <2>1. \A n \in j..Len(past) : n \in 1..Len(past) /\ \E y \in DOMAIN steps : steps[y] = past[n]
    <3> SUFFICES ASSUME NEW n \in j..Len(past)
                 PROVE  n \in 1..Len(past) /\ \E y \in DOMAIN steps : steps[y] = past[n]
      OBVIOUS
    <3>1. n \in 1..Len(past)
      BY <1>1
    <3>2. past[n] \in Range(steps)
      BY <1>1, <3>1
    <3> QED BY <3>1, <3>2 DEF Range
  <2>2. {steps[y].from : y \in ring} = {s.from} \cup {past[n].from : n \in j..Len(past)}
    BY <2>1
  <2>3. {steps[y].to : y \in ring} = {s.to} \cup {past[n].to : n \in j..Len(past)}
    BY <2>1
  <2>4. past[Len(past)].to = path
    BY <1>1, <1>5, EmptySeq DEF IsChain
  <2>5. \A n \in j..Len(past) - 1 : past[n].to = past[n + 1].from
    BY <1>1 DEF IsChain
  <2>6. {s.from} \cup {past[n].from : n \in j..Len(past)}
          \subseteq {s.to} \cup {past[n].to : n \in j..Len(past)}
    <3>1. s.from \in {past[n].to : n \in j..Len(past)}
      <4>1. Len(past) \in j..Len(past)
        BY <1>1
      <4> QED BY <1>3, <2>4, <4>1
    <3>2. ASSUME NEW n \in j..Len(past)
          PROVE  past[n].from \in {s.to} \cup {past[k].to : k \in j..Len(past)}
      <4>1. CASE n = j
        BY <1>5, <4>1
      <4>2. CASE n # j
        <5>1. n - 1 \in j..Len(past) - 1 /\ n - 1 \in j..Len(past) /\ (n - 1) + 1 = n
          BY <1>1, <4>2
        <5>2. past[n].from = past[n - 1].to
          BY <2>5, <5>1
        <5> QED BY <5>1, <5>2
      <4> QED BY <4>1, <4>2
    <3> QED BY <3>1, <3>2
  <2>7. {s.to} \cup {past[n].to : n \in j..Len(past)}
          \subseteq {s.from} \cup {past[n].from : n \in j..Len(past)}
    <3>1. s.to \in {past[n].from : n \in j..Len(past)}
      <4>1. j \in j..Len(past)
        BY <1>1
      <4> QED BY <1>5, <4>1
    <3>2. ASSUME NEW n \in j..Len(past)
          PROVE  past[n].to \in {s.from} \cup {past[k].from : k \in j..Len(past)}
      <4>1. CASE n = Len(past)
        BY <1>3, <2>4, <4>1
      <4>2. CASE n # Len(past)
        <5> DEFINE l == Len(past)
        <5>4. l \in Nat /\ j \in Nat
          BY <1>1
        <5>5. n \in j..l /\ n # l
          BY <4>2
        <5>0. l \in Nat /\ j \in Nat /\ n \in j..l /\ n # l
          BY <5>4, <5>5
        <5> HIDE DEF l
        <5>3. n \in j..l - 1 /\ n + 1 \in j..l
          BY ONLY <5>0
        <5>1. n \in j..Len(past) - 1 /\ n + 1 \in j..Len(past)
          BY <5>3 DEF l
        <5>2. past[n].to = past[n + 1].from
          BY <2>5, <5>1
        <5> QED BY <5>1, <5>2
      <4> QED BY <4>1, <4>2
    <3> QED BY <3>1, <3>2
  <2>8. ring \in SUBSET DOMAIN steps /\ ring # {}
    BY <1>3
  <2>9. {steps[y].from : y \in ring} = {steps[y].to : y \in ring}
    BY <2>2, <2>3, <2>6, <2>7
  <2> HIDE DEF ring
  <2> QED BY <2>8, <2>9 DEF NoRing
<1>6. Len(past) + 1..Len(past) = {}
  BY <1>1
<1>7. s.to \notin {path} \cup {past[n].from : n \in DOMAIN past}
                       \cup {past[n].to : n \in Len(past) + 1..Len(past)}
  BY <1>1, <1>4, <1>5, <1>6
<1> HIDE DEF s
<1> QED BY <1>3, <1>7 DEF IsLatest

(* So a history tells of a path, wherever a step does, where no steps go   *)
(* round.                                                                  *)
LEMMA HistoryTells ==
  ASSUME NEW S, NEW steps \in Seq(S), NEW path, NoRing(steps)
  PROVE  /\ History(path, steps) \in Seq(Range(steps))
         /\ To(steps, path) # {} => \E x \in Range(History(path, steps)) : x.to = path
         /\ From(steps, path) # {} => \E x \in Range(History(path, steps)) : x.from = path
<1>1. PICK back, forth : /\ GoesBack(path, steps, back)
                         /\ GoesForth(path, steps, back[<<>>], forth)
                         /\ History(path, steps) = forth[back[<<>>]]
  BY HistoryIs
<1> DEFINE past == back[<<>>]
<1>2. IsChain(path, steps, past) /\ IsEarliest(path, steps, past)
  BY <1>1, ChainEnds
<1>3. past \in Seq(Range(steps))
  BY <1>2 DEF IsChain
<1> HIDE DEF past
<1>4. GoesForth(path, steps, past, forth) /\ History(path, steps) = forth[past]
  BY <1>1 DEF past
<1>5. To(steps, path) # {} => \E x \in Range(past) : x.to = path
  BY <1>2, ChainHasTo
<1>6. CASE IsLatest(path, steps, past, past)
  <2>1. History(path, steps) = past
    BY <1>3, <1>4, <1>6 DEF GoesForth
  <2>2. From(steps, path) = {}
    BY <1>2, <1>6, WalkStarts
  <2> QED BY <1>3, <1>5, <2>1, <2>2
<1>7. CASE ~IsLatest(path, steps, past, past)
  <2> DEFINE h == History(path, steps)
  <2>1. GoesFrom(path, steps, past, h)
    BY <1>3, <1>4, <1>7, WalkOnEnds
  <2> HIDE DEF h
  <2>2. /\ h \in Seq(Range(steps)) /\ Len(h) \in Nat /\ DOMAIN h = 1..Len(h)
        /\ Len(past) \in Nat /\ DOMAIN past = 1..Len(past) /\ Len(past) < Len(h)
        /\ \A n \in 1..Len(past) : h[n] = past[n]
        /\ h[Len(past) + 1] = Later(path, steps, past, past)[1]
    BY <1>3, <2>1 DEF GoesFrom
  <2>3. Range(past) \subseteq Range(h)
    <3>1. \A n \in DOMAIN past : n \in DOMAIN h /\ past[n] = h[n]
      BY <2>2
    <3> QED BY <3>1 DEF Range
  <2>4. From(steps, path) # {} => \E x \in Range(h) : x.from = path
    <3>1. Len(past) + 1 \in DOMAIN h
      BY <2>2
    <3>2. h[Len(past) + 1] \in Range(h)
      BY <3>1 DEF Range
    <3>3. From(steps, path) # {} => Later(path, steps, past, past)[1].from = path
      BY <1>2, WalkStarts
    <3> QED BY <2>2, <3>2, <3>3
  <2>5. h \in Seq(Range(steps)) /\ (To(steps, path) # {} => \E x \in Range(h) : x.to = path)
    BY <1>5, <2>2, <2>3
  <2> QED BY <2>4, <2>5 DEF h
<1> QED BY <1>6, <1>7

-----------------------------------------------------------------------------
(* What the links of one window say of a path.                             *)

(* A walk of a number of hops, each from where the last one ended, exists, *)
CanHop(P, start, next) == start \in P /\ next \in [P -> P]

AreHops(k, P, start, next, f) ==
  f \in [0..k -> P] /\ f[0] = start /\ \A n \in 1..k : f[n] = next[f[n - 1]]

(* There always are such hops.                                             *)
LEMMA HopsExist ==
  ASSUME NEW k \in Nat, NEW P, NEW start, NEW next, CanHop(P, start, next)
  PROVE  \E f : AreHops(k, P, start, next, f)
<1> DEFINE D == 0..k
           stops == {0}
           begin == [n \in {0} |-> start]
           up == [n \in D |-> n - 1]
           on == [n \in D |-> next]
<1>1. D \in SUBSET Nat /\ stops \in SUBSET D /\ \A n \in D \ stops : up[n] \in D /\ up[n] < n
  OBVIOUS
<1>2. begin \in [stops -> P] /\ on \in [D -> [P -> P]]
  <2>1. start \in P /\ next \in [P -> P]
    BY DEF CanHop
  <2> QED BY <2>1, Zenon
<1>3. CanTell(D, P, stops, begin, up, on)
  <2> HIDE DEF D, stops, begin, up, on
  <2> QED BY <1>1, <1>2 DEF CanTell, Descends
<1>4. PICK f : Told(D, P, stops, begin, up, on, f)
  <2> HIDE DEF D, stops, begin, up, on
  <2> QED BY <1>3, Downwards
<1>5. f \in [0..k -> P] /\ f[0] = start
  BY <1>4 DEF Told
<1>6. ASSUME NEW n \in 1..k PROVE f[n] = next[f[n - 1]]
  <2>1. n \in D \ stops /\ up[n] = n - 1 /\ on[n] = next
    OBVIOUS
  <2> HIDE DEF D, stops, begin, up, on
  <2> QED BY <1>4, <2>1 DEF Told
<1> QED BY <1>5, <1>6 DEF AreHops

(* and one that finds no second hop ends with its first.                   *)
HopsOnce(k, f, start, first) ==
  /\ f[0] = start
  /\ \A n \in 1..k : f[n - 1] \in {start, first} => f[n] = first

(* It ends there, if there is room for a hop.                              *)
LEMMA OneHop ==
  ASSUME NEW k \in Nat, NEW f, NEW start, NEW first, HopsOnce(k, f, start, first)
  PROVE  f[k] = IF k = 0 THEN start ELSE first
<1> DEFINE wrong == {n \in 1..k : f[n] # first}
<1>1. wrong = {}
  <2> SUFFICES ASSUME wrong # {} PROVE FALSE
    OBVIOUS
  <2>1. wrong \in SUBSET Nat
    OBVIOUS
  <2> HIDE DEF wrong
  <2>2. PICK n \in wrong : \A m \in wrong : n <= m
    BY <2>1, LeastMember
  <2>3. n \in 1..k /\ f[n] # first
    BY DEF wrong
  <2>4. CASE n = 1
    BY <2>3, <2>4 DEF HopsOnce
  <2>5. CASE n # 1
    <3>1. n - 1 \in 1..k /\ ~(n <= n - 1)
      BY <2>3, <2>5
    <3>2. f[n - 1] = first
      BY <2>2, <3>1 DEF wrong
    <3> QED BY <2>3, <3>2 DEF HopsOnce
  <2> QED BY <2>4, <2>5
<1> QED BY <1>1 DEF HopsOnce

(* All of a list's steps are of the first window.                          *)
OfOneWindow(list) == \A n \in DOMAIN list : list[n].window = <<1, 2>>

(* Onwards in one window: the first step of the history from the path.     *)
LEMMA OnwardsIs ==
  ASSUME NEW S, NEW h \in Seq(S), OfOneWindow(h), NEW path
  PROVE  Onwards(path, <<1, 2>>, h) = IF From(h, path) = {} THEN path
                                      ELSE FirstOf(h, From(h, path))[1].to
<1> DEFINE w == <<1, 2>>
           start == [path |-> path, date |-> w[1]]
           fits(v) == {m \in DOMAIN h : /\ h[m].from = v.path
                                        /\ h[m].window[1] >= v.date
                                        /\ h[m].window[2] <= w[2]}
           hop(v) == FirstOf(h, fits(v))
           after(v) == IF hop(v) = <<>> THEN v
                       ELSE [path |-> hop(v)[1].to, date |-> hop(v)[1].window[2]]
           rec(f) == f = [n \in 0..Len(h) |-> IF n = 0 THEN start ELSE after(f[n - 1])]
           walk == CHOOSE f : rec(f)
           P == {start} \cup {[path |-> x.to, date |-> x.window[2]] : x \in Range(h)}
<1>1. Onwards(path, w, h) = walk[Len(h)].path
  BY Zenon DEF Onwards, FirstWhere, FirstOf
<1>2. Len(h) \in Nat /\ DOMAIN h = 1..Len(h)
  OBVIOUS
<1>3. ASSUME NEW v PROVE hop(v) = <<>> \/ \E m \in fits(v) : hop(v) = <<h[m]>>
  <2>1. fits(v) \in SUBSET DOMAIN h
    OBVIOUS
  <2> HIDE DEF fits
  <2>2. fits(v) = {} => hop(v) = <<>>
    BY DEF FirstOf
  <2> QED BY <2>1, <2>2, FirstOfIs
<1>4. ASSUME NEW v \in P PROVE after(v) \in P
  <2>1. CASE hop(v) = <<>>
    BY <2>1
  <2>2. CASE hop(v) # <<>>
    <3>1. PICK m \in fits(v) : hop(v) = <<h[m]>>
      BY <1>3, <2>2
    <3>2. h[m] \in Range(h)
      BY DEF Range
    <3> HIDE DEF hop
    <3> QED BY <2>2, <3>1, <3>2
  <2> QED BY <2>1, <2>2
<1>5. rec(walk)
  <2> DEFINE next == [v \in P |-> after(v)]
  <2>1. next \in [P -> P]
    <3> HIDE DEF P, after
    <3> QED BY <1>4
  <2>2. start \in P
    OBVIOUS
  <2>3. PICK f : /\ f \in [0..Len(h) -> P] /\ f[0] = start
                 /\ \A n \in 1..Len(h) : f[n] = next[f[n - 1]]
    <3> DEFINE k == Len(h)
    <3>1. k \in Nat
      BY <1>2
    <3> HIDE DEF P, next, start, k
    <3>2. CanHop(P, start, next)
      BY <2>1, <2>2 DEF CanHop
    <3>3. \E f : AreHops(k, P, start, next, f)
      BY <3>1, <3>2, HopsExist
    <3> QED BY <3>3 DEF k, AreHops
  <2>4. rec(f)
    <3> HIDE DEF P, after, start
    <3>1. ASSUME NEW n \in 0..Len(h) PROVE f[n] = IF n = 0 THEN start ELSE after(f[n - 1])
      <4>1. CASE n = 0
        BY <2>3, <4>1
      <4>2. CASE n # 0
        <5>1. n \in 1..Len(h) /\ n - 1 \in 0..Len(h)
          BY <1>2, <4>2
        <5> QED BY <2>3, <4>2, <5>1
      <4> QED BY <4>1, <4>2
    <3> QED BY <2>3, <3>1
  <2> HIDE DEF rec
  <2> QED BY <2>4
<1> DEFINE from == From(h, path)
           x == FirstOf(h, from)[1]
           first == IF from = {} THEN start ELSE [path |-> x.to, date |-> 2]
<1>6. after(start) = first
  <2>1. fits(start) = from
    BY DEF From, OfOneWindow
  <2>2. hop(start) = FirstOf(h, from)
    BY <2>1
  <2>3. CASE from = {}
    BY <2>2, <2>3 DEF FirstOf
  <2>4. CASE from # {}
    <3>1. from \in SUBSET DOMAIN h
      BY DEF From
    <3>2. PICK m \in from : FirstOf(h, from) = <<h[m]>>
      <4> HIDE DEF from
      <4> QED BY <2>4, <3>1, FirstOfIs
    <3>3. h[m].window = <<1, 2>>
      BY <3>1 DEF OfOneWindow
    <3> HIDE DEF hop, from
    <3>4. hop(start) = <<h[m]>> /\ FirstOf(h, from) = <<h[m]>>
      BY <2>2, <3>2
    <3>5. hop(start)[1] = h[m] /\ x = h[m] /\ hop(start) # <<>> /\ h[m].window[2] = 2
      BY <3>3, <3>4
    <3> HIDE DEF start, x
    <3> QED BY <2>4, <3>5
  <2> QED BY <2>3, <2>4
<1>7. after(first) = first
  <2>1. CASE from = {}
    BY <1>6, <2>1
  <2>2. CASE from # {}
    <3>1. fits(first) = {}
      BY <2>2 DEF OfOneWindow
    <3>2. hop(first) = <<>>
      BY <3>1 DEF FirstOf
    <3> HIDE DEF hop
    <3> QED BY <3>2
  <2> QED BY <2>1, <2>2
<1> HIDE DEF after, walk
<1>8. /\ walk[0] = start
      /\ \A n \in 1..Len(h) : walk[n] = after(walk[n - 1])
  <2> HIDE DEF start
  <2>1. ASSUME NEW n \in 1..Len(h) PROVE walk[n] = after(walk[n - 1])
    <3>1. n \in 0..Len(h) /\ n # 0
      BY <1>2
    <3> QED BY <1>5, <3>1
  <2>2. 0 \in 0..Len(h)
    BY <1>2
  <2> QED BY <1>5, <2>1, <2>2
<1>9. walk[Len(h)] = IF Len(h) = 0 THEN start ELSE first
  <2> DEFINE k == Len(h)
  <2>1. k \in Nat
    BY <1>2
  <2> HIDE DEF start, first, k
  <2>2. HopsOnce(k, walk, start, first)
    BY <1>6, <1>7, <1>8 DEF HopsOnce, k
  <2>3. walk[k] = IF k = 0 THEN start ELSE first
    BY <2>1, <2>2, OneHop
  <2> QED BY <2>3 DEF k
<1>10. CASE Len(h) = 0
  <2>1. from = {}
    BY <1>2, <1>10 DEF From
  <2> QED BY <1>1, <1>9, <1>10, <2>1
<1>11. CASE Len(h) # 0
  <2> HIDE DEF from
  <2>1. first.path = IF from = {} THEN path ELSE x.to
    OBVIOUS
  <2> QED BY <1>1, <1>9, <1>11, <2>1 DEF from
<1> QED BY <1>10, <1>11

(* Backwards in one window: the first step of the history to the path.     *)
LEMMA BackwardsIs ==
  ASSUME NEW S, NEW h \in Seq(S), OfOneWindow(h), NEW path
  PROVE  Backwards(path, <<1, 2>>, h) = IF To(h, path) = {} THEN path
                                        ELSE FirstOf(h, To(h, path))[1].from
<1> DEFINE w == <<1, 2>>
           start == [path |-> path, date |-> w[2]]
           fits(v) == {m \in DOMAIN h : /\ h[m].to = v.path
                                        /\ h[m].window[2] <= v.date
                                        /\ h[m].window[1] >= w[1]}
           hop(v) == FirstOf(h, fits(v))
           after(v) == IF hop(v) = <<>> THEN v
                       ELSE [path |-> hop(v)[1].from, date |-> hop(v)[1].window[1]]
           rec(f) == f = [n \in 0..Len(h) |-> IF n = 0 THEN start ELSE after(f[n - 1])]
           walk == CHOOSE f : rec(f)
           P == {start} \cup {[path |-> x.from, date |-> x.window[1]] : x \in Range(h)}
<1>1. Backwards(path, w, h) = walk[Len(h)].path
  BY Zenon DEF Backwards, FirstWhere, FirstOf
<1>2. Len(h) \in Nat /\ DOMAIN h = 1..Len(h)
  OBVIOUS
<1>3. ASSUME NEW v PROVE hop(v) = <<>> \/ \E m \in fits(v) : hop(v) = <<h[m]>>
  <2>1. fits(v) \in SUBSET DOMAIN h
    OBVIOUS
  <2> HIDE DEF fits
  <2>2. fits(v) = {} => hop(v) = <<>>
    BY DEF FirstOf
  <2> QED BY <2>1, <2>2, FirstOfIs
<1>4. ASSUME NEW v \in P PROVE after(v) \in P
  <2>1. CASE hop(v) = <<>>
    BY <2>1
  <2>2. CASE hop(v) # <<>>
    <3>1. PICK m \in fits(v) : hop(v) = <<h[m]>>
      BY <1>3, <2>2
    <3>2. h[m] \in Range(h)
      BY DEF Range
    <3> HIDE DEF hop
    <3> QED BY <2>2, <3>1, <3>2
  <2> QED BY <2>1, <2>2
<1>5. rec(walk)
  <2> DEFINE next == [v \in P |-> after(v)]
  <2>1. next \in [P -> P]
    <3> HIDE DEF P, after
    <3> QED BY <1>4
  <2>2. start \in P
    OBVIOUS
  <2>3. PICK f : /\ f \in [0..Len(h) -> P] /\ f[0] = start
                 /\ \A n \in 1..Len(h) : f[n] = next[f[n - 1]]
    <3> DEFINE k == Len(h)
    <3>1. k \in Nat
      BY <1>2
    <3> HIDE DEF P, next, start, k
    <3>2. CanHop(P, start, next)
      BY <2>1, <2>2 DEF CanHop
    <3>3. \E f : AreHops(k, P, start, next, f)
      BY <3>1, <3>2, HopsExist
    <3> QED BY <3>3 DEF k, AreHops
  <2>4. rec(f)
    <3> HIDE DEF P, after, start
    <3>1. ASSUME NEW n \in 0..Len(h) PROVE f[n] = IF n = 0 THEN start ELSE after(f[n - 1])
      <4>1. CASE n = 0
        BY <2>3, <4>1
      <4>2. CASE n # 0
        <5>1. n \in 1..Len(h) /\ n - 1 \in 0..Len(h)
          BY <1>2, <4>2
        <5> QED BY <2>3, <4>2, <5>1
      <4> QED BY <4>1, <4>2
    <3> QED BY <2>3, <3>1
  <2> HIDE DEF rec
  <2> QED BY <2>4
<1> DEFINE to == To(h, path)
           x == FirstOf(h, to)[1]
           first == IF to = {} THEN start ELSE [path |-> x.from, date |-> 1]
<1>6. after(start) = first
  <2>1. fits(start) = to
    BY DEF To, OfOneWindow
  <2>2. hop(start) = FirstOf(h, to)
    BY <2>1
  <2>3. CASE to = {}
    BY <2>2, <2>3 DEF FirstOf
  <2>4. CASE to # {}
    <3>1. to \in SUBSET DOMAIN h
      BY DEF To
    <3>2. PICK m \in to : FirstOf(h, to) = <<h[m]>>
      <4> HIDE DEF to
      <4> QED BY <2>4, <3>1, FirstOfIs
    <3>3. h[m].window = <<1, 2>>
      BY <3>1 DEF OfOneWindow
    <3> HIDE DEF hop, to
    <3>4. hop(start) = <<h[m]>> /\ FirstOf(h, to) = <<h[m]>>
      BY <2>2, <3>2
    <3>5. hop(start)[1] = h[m] /\ x = h[m] /\ hop(start) # <<>> /\ h[m].window[1] = 1
      BY <3>3, <3>4
    <3> HIDE DEF start, x
    <3> QED BY <2>4, <3>5
  <2> QED BY <2>3, <2>4
<1>7. after(first) = first
  <2>1. CASE to = {}
    BY <1>6, <2>1
  <2>2. CASE to # {}
    <3>1. fits(first) = {}
      BY <2>2 DEF OfOneWindow
    <3>2. hop(first) = <<>>
      BY <3>1 DEF FirstOf
    <3> HIDE DEF hop
    <3> QED BY <3>2
  <2> QED BY <2>1, <2>2
<1> HIDE DEF after, walk
<1>8. /\ walk[0] = start
      /\ \A n \in 1..Len(h) : walk[n] = after(walk[n - 1])
  <2> HIDE DEF start
  <2>1. ASSUME NEW n \in 1..Len(h) PROVE walk[n] = after(walk[n - 1])
    <3>1. n \in 0..Len(h) /\ n # 0
      BY <1>2
    <3> QED BY <1>5, <3>1
  <2>2. 0 \in 0..Len(h)
    BY <1>2
  <2> QED BY <1>5, <2>1, <2>2
<1>9. walk[Len(h)] = IF Len(h) = 0 THEN start ELSE first
  <2> DEFINE k == Len(h)
  <2>1. k \in Nat
    BY <1>2
  <2> HIDE DEF start, first, k
  <2>2. HopsOnce(k, walk, start, first)
    BY <1>6, <1>7, <1>8 DEF HopsOnce, k
  <2>3. walk[k] = IF k = 0 THEN start ELSE first
    BY <2>1, <2>2, OneHop
  <2> QED BY <2>3 DEF k
<1>10. CASE Len(h) = 0
  <2>1. to = {}
    BY <1>2, <1>10 DEF To
  <2> QED BY <1>1, <1>9, <1>10, <2>1
<1>11. CASE Len(h) # 0
  <2> HIDE DEF to
  <2>1. first.path = IF to = {} THEN path ELSE x.from
    OBVIOUS
  <2> QED BY <1>1, <1>9, <1>11, <2>1 DEF to
<1> QED BY <1>10, <1>11

(* The steps of a list say of each path what a function does.              *)
Says(steps, known) ==
  /\ OfOneWindow(steps) /\ NoRing(steps)
  /\ DOMAIN known = {steps[n].from : n \in DOMAIN steps}
  /\ \A n \in DOMAIN steps : known[steps[n].from] = steps[n].to

SaysBack(steps, back) ==
  /\ OfOneWindow(steps) /\ NoRing(steps)
  /\ DOMAIN back = {steps[n].to : n \in DOMAIN steps}
  /\ \A n \in DOMAIN steps : back[steps[n].to] = steps[n].from

(* No step of it stays where it is.                                        *)
LEMMA StepsMove ==
  ASSUME NEW steps, NoRing(steps), NEW n \in DOMAIN steps
  PROVE  steps[n].from # steps[n].to
<1> SUFFICES ASSUME steps[n].from = steps[n].to PROVE FALSE
  OBVIOUS
<1>1. {n} \in SUBSET DOMAIN steps /\ {n} # {}
      /\ {steps[k].from : k \in {n}} = {steps[k].to : k \in {n}}
  OBVIOUS
<1> QED BY <1>1 DEF NoRing

(* What the walk of a path's history says of it, onwards                   *)
LEMMA HistorySaysOnwards ==
  ASSUME NEW S, NEW steps \in Seq(S), NEW known, Says(steps, known), NEW p
  PROVE  /\ Onwards(p, <<1, 2>>, History(p, steps)) = IF p \in DOMAIN known THEN known[p] ELSE p
         /\ p \in DOMAIN known => known[p] # p
<1> DEFINE h == History(p, steps)
<1>1. /\ h \in Seq(Range(steps))
      /\ From(steps, p) # {} => \E x \in Range(h) : x.from = p
  BY HistoryTells DEF Says
<1> HIDE DEF h
<1>2. \A m \in DOMAIN h : \E n \in DOMAIN steps : h[m] = steps[n]
  <2> SUFFICES ASSUME NEW m \in DOMAIN h PROVE \E n \in DOMAIN steps : h[m] = steps[n]
    OBVIOUS
  <2>1. h[m] \in Range(steps)
    BY <1>1
  <2> QED BY <2>1 DEF Range
<1>3. OfOneWindow(h)
  BY <1>2 DEF Says, OfOneWindow
<1>4. Onwards(p, <<1, 2>>, h) = IF From(h, p) = {} THEN p ELSE FirstOf(h, From(h, p))[1].to
  BY <1>1, <1>3, OnwardsIs
<1>5. p \in DOMAIN known <=> From(steps, p) # {}
  BY DEF Says, From
<1>6. From(h, p) # {} => From(steps, p) # {}
  BY <1>2 DEF From
<1>7. From(steps, p) # {} => From(h, p) # {}
  BY <1>1 DEF From, Range
<1>8. ASSUME From(h, p) # {} PROVE FirstOf(h, From(h, p))[1].to = known[p]
  <2>1. From(h, p) \in SUBSET DOMAIN h
    BY DEF From
  <2>2. PICK m \in From(h, p) : FirstOf(h, From(h, p)) = <<h[m]>>
    BY <1>1, <1>8, <2>1, FirstOfIs
  <2>3. m \in DOMAIN h /\ h[m].from = p
    BY DEF From
  <2>4. PICK n \in DOMAIN steps : h[m] = steps[n]
    BY <1>2, <2>3
  <2> QED BY <2>2, <2>3, <2>4 DEF Says
<1>9. p \in DOMAIN known => known[p] # p
  <2> SUFFICES ASSUME p \in DOMAIN known PROVE known[p] # p
    OBVIOUS
  <2>1. PICK n \in DOMAIN steps : steps[n].from = p
    BY DEF Says
  <2> QED BY <2>1, StepsMove DEF Says
<1> QED BY <1>4, <1>5, <1>6, <1>7, <1>8, <1>9 DEF h

(* and backwards.                                                          *)
LEMMA HistorySaysBackwards ==
  ASSUME NEW S, NEW steps \in Seq(S), NEW back, SaysBack(steps, back), NEW p
  PROVE  /\ Backwards(p, <<1, 2>>, History(p, steps)) = IF p \in DOMAIN back THEN back[p] ELSE p
         /\ p \in DOMAIN back => back[p] # p
<1> DEFINE h == History(p, steps)
<1>1. /\ h \in Seq(Range(steps))
      /\ To(steps, p) # {} => \E x \in Range(h) : x.to = p
  BY HistoryTells DEF SaysBack
<1> HIDE DEF h
<1>2. \A m \in DOMAIN h : \E n \in DOMAIN steps : h[m] = steps[n]
  <2> SUFFICES ASSUME NEW m \in DOMAIN h PROVE \E n \in DOMAIN steps : h[m] = steps[n]
    OBVIOUS
  <2>1. h[m] \in Range(steps)
    BY <1>1
  <2> QED BY <2>1 DEF Range
<1>3. OfOneWindow(h)
  BY <1>2 DEF SaysBack, OfOneWindow
<1>4. Backwards(p, <<1, 2>>, h) = IF To(h, p) = {} THEN p ELSE FirstOf(h, To(h, p))[1].from
  BY <1>1, <1>3, BackwardsIs
<1>5. p \in DOMAIN back <=> To(steps, p) # {}
  BY DEF SaysBack, To
<1>6. To(h, p) # {} => To(steps, p) # {}
  BY <1>2 DEF To
<1>7. To(steps, p) # {} => To(h, p) # {}
  BY <1>1 DEF To, Range
<1>8. ASSUME To(h, p) # {} PROVE FirstOf(h, To(h, p))[1].from = back[p]
  <2>1. To(h, p) \in SUBSET DOMAIN h
    BY DEF To
  <2>2. PICK m \in To(h, p) : FirstOf(h, To(h, p)) = <<h[m]>>
    BY <1>1, <1>8, <2>1, FirstOfIs
  <2>3. m \in DOMAIN h /\ h[m].to = p
    BY DEF To
  <2>4. PICK n \in DOMAIN steps : h[m] = steps[n]
    BY <1>2, <2>3
  <2> QED BY <2>2, <2>3, <2>4 DEF SaysBack
<1>9. p \in DOMAIN back => back[p] # p
  <2> SUFFICES ASSUME p \in DOMAIN back PROVE back[p] # p
    OBVIOUS
  <2>1. PICK n \in DOMAIN steps : steps[n].to = p
    BY DEF SaysBack
  <2> QED BY <2>1, StepsMove DEF SaysBack
<1> QED BY <1>4, <1>5, <1>6, <1>7, <1>8, <1>9 DEF h

(* So what the links say of a path, by its nearest container that moved,   *)
(* is where the function carries it.                                       *)
LEMMA OutIsCarried ==
  ASSUME NEW S, NEW steps \in Seq(S), NEW known, Says(steps, known), NEW path \in Seq(Segment)
  PROVE  Out(path, <<1, 2>>, steps) = Carried(path, known)
<1> DEFINE ends(n) == Onwards(Head1(path, n), <<1, 2>>, History(Head1(path, n), steps))
           moved == {n \in 1..Len(path) : ends(n) # Head1(path, n)}
           nearest == CHOOSE n \in moved : \A m \in moved : m <= n
<1>1. Out(path, <<1, 2>>, steps)
        = IF moved = {} THEN path ELSE ends(nearest) \o Below(path, nearest)
  BY Zenon DEF Out, MovedBy
<1>2. ASSUME NEW n \in 1..Len(path)
      PROVE  /\ n \in moved <=> Head1(path, n) \in DOMAIN known
             /\ n \in moved => ends(n) = known[Head1(path, n)]
  <2> DEFINE p == Head1(path, n)
  <2>1. ends(n) = Onwards(p, <<1, 2>>, History(p, steps))
    OBVIOUS
  <2> HIDE DEF p, ends
  <2>2. /\ Onwards(p, <<1, 2>>, History(p, steps)) = IF p \in DOMAIN known THEN known[p] ELSE p
        /\ p \in DOMAIN known => known[p] # p
    BY HistorySaysOnwards
  <2>3. p \in DOMAIN known \/ p \notin DOMAIN known
    OBVIOUS
  <2> QED BY <2>1, <2>2, <2>3 DEF p
<1>3. moved \in SUBSET (1..Len(path))
  OBVIOUS
<1> HIDE DEF ends, moved
<1>4. CASE moved = {}
  <2>1. \A m \in 1..Len(path) : Head1(path, m) \notin DOMAIN known
    BY <1>2, <1>4
  <2> QED BY <1>1, <1>4, <2>1, CarriedNowhere
<1>5. CASE moved # {}
  <2>1. nearest \in moved /\ \A m \in moved : m <= nearest
    <3>1. 1..Len(path) \in SUBSET Nat /\ Len(path) \in Nat
      OBVIOUS
    <3>2. \E n \in moved : \A m \in moved : m <= n
      BY <1>3, <1>5, <3>1, GreatestMember
    <3> QED BY <3>2
  <2> HIDE DEF nearest
  <2>2. Carried(path, known) = known[Head1(path, nearest)] \o Below(path, nearest)
    BY <1>2, <1>3, <2>1, CarriedBy
  <2> QED BY <1>1, <1>2, <1>3, <1>5, <2>1, <2>2
<1> QED BY <1>4, <1>5

(* And where it came from is where the function read backwards carries it. *)
LEMMA IntoIsCarried ==
  ASSUME NEW S, NEW steps \in Seq(S), NEW back, SaysBack(steps, back), NEW path \in Seq(Segment)
  PROVE  Into(path, <<1, 2>>, steps) = Carried(path, back)
<1> DEFINE ends(n) == Backwards(Head1(path, n), <<1, 2>>, History(Head1(path, n), steps))
           moved == {n \in 1..Len(path) : ends(n) # Head1(path, n)}
           nearest == CHOOSE n \in moved : \A m \in moved : m <= n
<1>1. Into(path, <<1, 2>>, steps)
        = IF moved = {} THEN path ELSE ends(nearest) \o Below(path, nearest)
  BY Zenon DEF Into, MovedBy
<1>2. ASSUME NEW n \in 1..Len(path)
      PROVE  /\ n \in moved <=> Head1(path, n) \in DOMAIN back
             /\ n \in moved => ends(n) = back[Head1(path, n)]
  <2> DEFINE p == Head1(path, n)
  <2>1. ends(n) = Backwards(p, <<1, 2>>, History(p, steps))
    OBVIOUS
  <2> HIDE DEF p, ends
  <2>2. /\ Backwards(p, <<1, 2>>, History(p, steps)) = IF p \in DOMAIN back THEN back[p] ELSE p
        /\ p \in DOMAIN back => back[p] # p
    BY HistorySaysBackwards
  <2>3. p \in DOMAIN back \/ p \notin DOMAIN back
    OBVIOUS
  <2> QED BY <2>1, <2>2, <2>3 DEF p
<1>3. moved \in SUBSET (1..Len(path))
  OBVIOUS
<1> HIDE DEF ends, moved
<1>4. CASE moved = {}
  <2>1. \A m \in 1..Len(path) : Head1(path, m) \notin DOMAIN back
    BY <1>2, <1>4
  <2> QED BY <1>1, <1>4, <2>1, CarriedNowhere
<1>5. CASE moved # {}
  <2>1. nearest \in moved /\ \A m \in moved : m <= nearest
    <3>1. 1..Len(path) \in SUBSET Nat /\ Len(path) \in Nat
      OBVIOUS
    <3>2. \E n \in moved : \A m \in moved : m <= n
      BY <1>3, <1>5, <3>1, GreatestMember
    <3> QED BY <3>2
  <2> HIDE DEF nearest
  <2>2. Carried(path, back) = back[Head1(path, nearest)] \o Below(path, nearest)
    BY <1>2, <1>3, <2>1, CarriedBy
  <2> QED BY <1>1, <1>2, <1>3, <1>5, <2>1, <2>2
<1> QED BY <1>4, <1>5

-----------------------------------------------------------------------------
(* The report of a path and the diff.                                      *)

(* A provision alone at its path comes first there.                        *)
LEMMA Alone ==
  ASSUME NEW i \in Nat
  PROVE  Place({i}, i) = 1 /\ Nth({i}, 1) = {i}
<1>1. {j \in {i} : j <= i} = {i}
  OBVIOUS
<1>2. Cardinality({i}) = 1
  BY FS_Singleton
<1>3. Place({i}, i) = 1
  BY <1>1, <1>2 DEF Place
<1> QED BY <1>3 DEF Nth

(* In a printing where each path is one provision's, it is.                *)
LEMMA OneThere ==
  ASSUME NEW doc, IsPrinting(doc), OneAPath(doc), NEW path, NEW i \in At(doc, path)
  PROVE  At(doc, path) = {i} /\ i \in DOMAIN doc /\ i \in Nat \ {0} /\ doc[i].path = path
<1>1. i \in DOMAIN doc /\ doc[i].path = path
  BY DEF At
<1>2. i \in Nat \ {0}
  BY <1>1, AboveIs
<1>3. At(doc, path) = {i}
  BY <1>1 DEF At, OneAPath
<1> QED BY <1>1, <1>2, <1>3

(* What a window says of one path: where it is carried, what is carried    *)
(* there, and which provisions there are compared.                         *)
IsSaid(old, new, mate, moves, path, out, into) ==
  /\ IsPrinting(old) /\ IsPrinting(new) /\ OneAPath(old) /\ OneAPath(new)
  /\ path \in Seq(Segment) \ {<<>>}
  /\ \A a \in DOMAIN old : mate[a] \in DOMAIN new \cup {0}
  /\ \A a \in DOMAIN old : \A b \in DOMAIN new :
       mate[a] = b <=> Goes(old[a].path, new[b].path, moves)
  /\ \A q : Goes(path, q, moves) => q = out
  /\ \A q : Goes(q, path, moves) => q = into
  /\ out # path => Goes(path, out, moves)
  /\ into # path => Goes(into, path, moves)
  /\ out = path /\ into = path => Goes(path, path, moves)

(* A window's moves say so, where no move is inside another's container.   *)
LEMMA WindowSays ==
  ASSUME NEW old, NEW new, NEW moves, IsWindow(old, new, moves), NEW mate,
         mate = Mates(old, new, moves), NoneInside(DOMAIN moves), NoneInside(Range(moves)),
         NEW path \in Seq(Segment) \ {<<>>}
  PROVE  IsSaid(old, new, mate, moves, path, Carried(path, moves), Carried(path, BackOf(moves)))
<1> DEFINE back == BackOf(moves)
           out == Carried(path, moves)
           into == Carried(path, back)
<1>1. /\ IsPrinting(old) /\ IsPrinting(new) /\ OneAPath(old) /\ OneAPath(new)
  BY DEF IsWindow
<1>2. /\ Paths(moves) /\ Paths(back) /\ AreReverse(moves, back) /\ AreReverse(back, moves)
      /\ DOMAIN moves \subseteq Seq(Segment) \ {<<>>} /\ DOMAIN back = Range(moves)
      /\ DOMAIN back \subseteq Seq(Segment) \ {<<>>}
  BY WindowKnows, ReadBackTwice DEF AreOfPaths
<1>3. \A a \in DOMAIN old : mate[a] \in DOMAIN new \cup {0}
  <2>1. mate \in [DOMAIN old -> DOMAIN new \cup {0}]
    BY <1>1, MatesAre
  <2> QED BY <2>1
<1>4. \A a \in DOMAIN old : \A b \in DOMAIN new :
        mate[a] = b <=> Goes(old[a].path, new[b].path, moves)
  BY MateGoes
<1>5. out # path => Carried(out, back) = path
  BY <1>2, CarriedThereAndBack
<1>6. into # path => Carried(into, moves) = path
  BY <1>2, CarriedThereAndBack
<1> QED BY <1>1, <1>3, <1>4, <1>5, <1>6 DEF IsSaid, Goes

(* What a diff says of a path.                                             *)
Listed(old, new, mate) ==
  {<<a, mate[a]>> : a \in DOMAIN old} \cup {<<0, b>> : b \in DOMAIN new \ Range(mate)}

ListedAt(old, new, mate, path) ==
  {p \in Listed(old, new, mate) : \/ p[1] # 0 /\ old[p[1]].path = path
                                  \/ p[2] # 0 /\ new[p[2]].path = path}

ListedThere(old, new, mate, path) ==
  {<<a, mate[a]>> : a \in At(old, path)}
  \cup {<<a, mate[a]>> : a \in {a \in DOMAIN old : mate[a] \in At(new, path)}}
  \cup {<<0, b>> : b \in {b \in At(new, path) : \A a \in DOMAIN old : mate[a] # b}}

(* They are of what was there, of what became what is there, and of what   *)
(* is added there.                                                         *)
LEMMA ListedAtIs ==
  ASSUME NEW old, NEW new, NEW path, IsPrinting(old), IsPrinting(new),
         NEW mate \in [DOMAIN old -> DOMAIN new \cup {0}]
  PROVE  ListedAt(old, new, mate, path) = ListedThere(old, new, mate, path)
<1>1. /\ \A a \in DOMAIN old : a # 0
      /\ \A b \in DOMAIN new : b # 0
  BY AboveIs
<1>2. \A b : b \in Range(mate) <=> \E a \in DOMAIN old : mate[a] = b
  BY DEF Range
<1> DEFINE here == {<<a, mate[a]>> : a \in At(old, path)}
           there == {<<a, mate[a]>> : a \in {a \in DOMAIN old : mate[a] \in At(new, path)}}
           added == {<<0, b>> : b \in {b \in At(new, path) : \A a \in DOMAIN old : mate[a] # b}}
<1>3. ASSUME NEW p \in ListedAt(old, new, mate, path) PROVE p \in here \cup there \cup added
  <2>1. CASE \E a \in DOMAIN old : p = <<a, mate[a]>>
    <3>1. PICK a \in DOMAIN old : p = <<a, mate[a]>>
      BY <2>1
    <3>2. CASE old[a].path = path
      BY <3>1, <3>2 DEF At
    <3>3. CASE old[a].path # path
      <4>1. mate[a] # 0 /\ new[mate[a]].path = path
        BY <3>1, <3>3 DEF ListedAt
      <4>2. mate[a] \in At(new, path)
        BY <4>1 DEF At
      <4> QED BY <3>1, <4>2
    <3> QED BY <3>2, <3>3
  <2>2. CASE \E b \in DOMAIN new \ Range(mate) : p = <<0, b>>
    <3>1. PICK b \in DOMAIN new \ Range(mate) : p = <<0, b>>
      BY <2>2
    <3>2. b \in At(new, path)
      BY <3>1 DEF ListedAt, At
    <3> QED BY <1>2, <3>1, <3>2
  <2> QED BY <2>1, <2>2 DEF ListedAt, Listed
<1>4. ASSUME NEW p \in here \cup there \cup added PROVE p \in ListedAt(old, new, mate, path)
  <2>1. CASE p \in here
    <3>1. PICK a \in At(old, path) : p = <<a, mate[a]>>
      BY <2>1
    <3>2. a \in DOMAIN old /\ old[a].path = path /\ a # 0
      BY <1>1 DEF At
    <3> QED BY <3>1, <3>2 DEF ListedAt, Listed
  <2>2. CASE p \in there
    <3>1. PICK a \in DOMAIN old : p = <<a, mate[a]>> /\ mate[a] \in At(new, path)
      BY <2>2
    <3>2. p = <<a, mate[a]>> /\ mate[a] # 0 /\ new[mate[a]].path = path
      BY <1>1, <3>1 DEF At
    <3> QED BY <3>2 DEF ListedAt, Listed
  <2>3. CASE p \in added
    <3>1. PICK b \in At(new, path) : p = <<0, b>> /\ \A a \in DOMAIN old : mate[a] # b
      BY <2>3
    <3>2. b \in DOMAIN new \ Range(mate) /\ new[b].path = path /\ b # 0
      BY <1>1, <1>2, <3>1 DEF At
    <3> QED BY <3>1, <3>2 DEF ListedAt, Listed
  <2> QED BY <2>1, <2>2, <2>3
<1>5. ListedThere(old, new, mate, path) = here \cup there \cup added
  BY DEF ListedThere
<1> HIDE DEF here, there, added
<1> QED BY <1>3, <1>4, <1>5

(* What stands for a provision at the path it went to, or came from.       *)
TheOne(S) == IF S = {} THEN 0 ELSE CHOOSE i \in S : TRUE

Went(old, new, path, out, a) ==
  IF out = path THEN {} ELSE Nth(At(new, out), Place(At(old, path), a))

Came(old, new, path, into, b) ==
  IF into = path THEN {} ELSE Nth(At(old, into), Place(At(new, path), b))

(* Where it went, there is what the diff compares it with, or nothing.     *)
LEMMA WentIs ==
  ASSUME NEW old, NEW new, NEW mate, NEW moves, NEW path, NEW out, NEW into,
         IsSaid(old, new, mate, moves, path, out, into), ~(out = path /\ into = path),
         NEW a \in At(old, path)
  PROVE  TheOne(Went(old, new, path, out, a)) = mate[a]
<1>1. /\ IsPrinting(old) /\ IsPrinting(new) /\ OneAPath(old) /\ OneAPath(new)
      /\ mate[a] \in DOMAIN new \cup {0}
      /\ \A b \in DOMAIN new : mate[a] = b <=> Goes(path, new[b].path, moves)
  BY DEF IsSaid, At
<1>2. At(old, path) = {a} /\ a \in Nat
  BY <1>1, OneThere
<1>3. ASSUME mate[a] # 0 PROVE mate[a] \in At(new, out) /\ out # path
  <2>1. mate[a] \in DOMAIN new /\ Goes(path, new[mate[a]].path, moves)
    BY <1>1, <1>3
  <2>2. new[mate[a]].path = out
    BY <2>1 DEF IsSaid
  <2>3. out = path => into = path
    BY <2>1, <2>2 DEF IsSaid
  <2> QED BY <2>1, <2>2, <2>3 DEF At
<1>4. CASE out = path
  BY <1>3, <1>4 DEF Went, TheOne
<1>5. CASE out # path /\ At(new, out) = {}
  <2>1. Went(old, new, path, out, a) = {}
    BY <1>5 DEF Went, Nth
  <2> QED BY <1>3, <1>5, <2>1 DEF TheOne
<1>6. CASE out # path /\ At(new, out) # {}
  <2>1. PICK b \in At(new, out) : TRUE
    BY <1>6
  <2>2. At(new, out) = {b} /\ b \in DOMAIN new /\ b \in Nat /\ new[b].path = out
    BY <1>1, OneThere
  <2>3. mate[a] = b
    BY <1>1, <1>6, <2>2 DEF IsSaid
  <2>4. Went(old, new, path, out, a) = {b}
    BY <1>2, <1>6, <2>2, Alone DEF Went
  <2> QED BY <2>3, <2>4 DEF TheOne
<1> QED BY <1>4, <1>5, <1>6

(* Where it came from, there is what the diff compares with it, or nothing. *)
LEMMA CameIs ==
  ASSUME NEW old, NEW new, NEW mate, NEW moves, NEW path, NEW out, NEW into,
         IsSaid(old, new, mate, moves, path, out, into), ~(out = path /\ into = path),
         NEW b \in At(new, path)
  PROVE  /\ \A a \in DOMAIN old : mate[a] = b => TheOne(Came(old, new, path, into, b)) = a
         /\ (\A a \in DOMAIN old : mate[a] # b) => TheOne(Came(old, new, path, into, b)) = 0
<1>1. /\ IsPrinting(old) /\ IsPrinting(new) /\ OneAPath(old) /\ OneAPath(new)
      /\ \A a \in DOMAIN old : mate[a] = b <=> Goes(old[a].path, path, moves)
  BY DEF IsSaid, At
<1>2. At(new, path) = {b} /\ b \in Nat
  BY <1>1, OneThere
<1>3. ASSUME NEW a \in DOMAIN old, mate[a] = b
      PROVE  TheOne(Came(old, new, path, into, b)) = a
  <2>1. Goes(old[a].path, path, moves)
    BY <1>1, <1>3
  <2>2. old[a].path = into
    BY <2>1 DEF IsSaid
  <2>3. into = path => out = path
    BY <2>1, <2>2 DEF IsSaid
  <2>4. a \in At(old, into)
    BY <2>2 DEF At
  <2>5. At(old, into) = {a} /\ a \in Nat
    BY <1>1, <2>4, OneThere
  <2>6. Came(old, new, path, into, b) = {a}
    BY <1>2, <2>3, <2>5, Alone DEF Came
  <2> QED BY <2>6 DEF TheOne
<1>4. ASSUME \A a \in DOMAIN old : mate[a] # b
      PROVE  TheOne(Came(old, new, path, into, b)) = 0
  <2>1. CASE into = path
    BY <2>1 DEF Came, TheOne
  <2>2. CASE into # path
    <3>1. \A a : a \notin At(old, into)
      BY <1>1, <1>4, <2>2 DEF IsSaid, At
    <3>2. Came(old, new, path, into, b) = {}
      BY <2>2, <3>1 DEF Came, Nth
    <3> QED BY <3>2 DEF TheOne
  <2> QED BY <2>1, <2>2
<1> QED BY <1>3, <1>4

(* Across moves, the report of a path is what the diff lists of it.        *)
LEMMA AcrossIs ==
  ASSUME NEW old, NEW new, NEW mate \in [DOMAIN old -> DOMAIN new \cup {0}], NEW moves,
         NEW path, NEW out, NEW into,
         IsSaid(old, new, mate, moves, path, out, into), ~(out = path /\ into = path)
  PROVE  AcrossMoves(old, new, path, out, into) = ListedAt(old, new, mate, path)
<1>1. AcrossMoves(old, new, path, out, into)
        = {<<a, TheOne(Went(old, new, path, out, a))>> : a \in At(old, path)}
          \cup {<<TheOne(Came(old, new, path, into, b)), b>> : b \in At(new, path)}
  BY Zenon DEF AcrossMoves, TheOne, Went, Came
<1>2. ListedAt(old, new, mate, path)
        = {<<a, mate[a]>> : a \in At(old, path)}
          \cup {<<a, mate[a]>> : a \in {a \in DOMAIN old : mate[a] \in At(new, path)}}
          \cup {<<0, b>> : b \in {b \in At(new, path) : \A a \in DOMAIN old : mate[a] # b}}
  <2>1. IsPrinting(old) /\ IsPrinting(new)
    BY DEF IsSaid
  <2>2. ListedAt(old, new, mate, path) = ListedThere(old, new, mate, path)
    BY <2>1, ListedAtIs
  <2> QED BY <2>2 DEF ListedThere
<1>3. \A a \in At(old, path) : TheOne(Went(old, new, path, out, a)) = mate[a]
  BY WentIs
<1> DEFINE from(b) == TheOne(Came(old, new, path, into, b))
<1>4. \A b \in At(new, path) :
        /\ \A a \in DOMAIN old : mate[a] = b => from(b) = a
        /\ (\A a \in DOMAIN old : mate[a] # b) => from(b) = 0
  BY CameIs
<1> HIDE DEF from
<1>5. {<<a, TheOne(Went(old, new, path, out, a))>> : a \in At(old, path)}
        = {<<a, mate[a]>> : a \in At(old, path)}
  BY <1>3
<1>6. {<<from(b), b>> : b \in At(new, path)}
        = {<<a, mate[a]>> : a \in {a \in DOMAIN old : mate[a] \in At(new, path)}}
          \cup {<<0, b>> : b \in {b \in At(new, path) : \A a \in DOMAIN old : mate[a] # b}}
  <2>1. ASSUME NEW b \in At(new, path)
        PROVE  <<from(b), b>> \in
                 {<<a, mate[a]>> : a \in {a \in DOMAIN old : mate[a] \in At(new, path)}}
                 \cup {<<0, c>> : c \in {c \in At(new, path) : \A a \in DOMAIN old : mate[a] # c}}
    BY <1>4
  <2>2. ASSUME NEW a \in DOMAIN old, mate[a] \in At(new, path)
        PROVE  <<a, mate[a]>> = <<from(mate[a]), mate[a]>>
    BY <1>4, <2>2
  <2>3. ASSUME NEW b \in At(new, path), \A a \in DOMAIN old : mate[a] # b
        PROVE  <<0, b>> = <<from(b), b>>
    BY <1>4, <2>3
  <2> QED BY <2>1, <2>2, <2>3
<1> QED BY <1>1, <1>2, <1>5, <1>6 DEF from

(* and so it is where nothing moves.                                       *)
LEMMA InPlaceIs ==
  ASSUME NEW old, NEW new, NEW mate \in [DOMAIN old -> DOMAIN new \cup {0}], NEW moves,
         NEW path, IsSaid(old, new, mate, moves, path, path, path)
  PROVE  InPlace(old, new, path) = ListedAt(old, new, mate, path)
<1> DEFINE kin(doc, i) == {j \in At(doc, path) : doc[j].above = doc[i].above}
           parents(doc) == At(doc, Front(path))
           pairs == {m \in At(old, path) \X At(new, path) :
                       /\ Place(parents(old), old[m[1]].above)
                            = Place(parents(new), new[m[2]].above)
                       /\ Place(kin(old, m[1]), m[1]) = Place(kin(new, m[2]), m[2])}
<1>1. InPlace(old, new, path)
        = pairs \cup {<<a, 0>> : a \in At(old, path) \ {m[1] : m \in pairs}}
                \cup {<<0, b>> : b \in At(new, path) \ {m[2] : m \in pairs}}
  BY Zenon DEF InPlace
<1>2. /\ IsPrinting(old) /\ IsPrinting(new) /\ OneAPath(old) /\ OneAPath(new)
      /\ path \in Seq(Segment) /\ path # <<>> /\ Goes(path, path, moves)
  BY DEF IsSaid
<1>3. ASSUME NEW doc, IsPrinting(doc), OneAPath(doc), NEW i \in At(doc, path)
      PROVE  Place(parents(doc), doc[i].above) = 1 /\ Place(kin(doc, i), i) = 1
  <2>1. At(doc, path) = {i} /\ i \in DOMAIN doc /\ i \in Nat /\ doc[i].path = path
    BY <1>3, OneThere
  <2>2. i # Root
    BY <1>2, <1>3, <2>1, AboveIs
  <2>3. doc[i].above \in DOMAIN doc /\ doc[doc[i].above].path = Front(path)
    BY <1>3, <2>1, <2>2 DEF IsPrinting, Printing
  <2>4. doc[i].above \in At(doc, Front(path))
    BY <2>3 DEF At
  <2>5. At(doc, Front(path)) = {doc[i].above} /\ doc[i].above \in Nat
    BY <1>3, <2>4, OneThere
  <2>6. kin(doc, i) = {i}
    BY <2>1
  <2> QED BY <2>1, <2>5, <2>6, Alone
<1>4. pairs = At(old, path) \X At(new, path)
  <2>1. \A a \in At(old, path) :
          Place(parents(old), old[a].above) = 1 /\ Place(kin(old, a), a) = 1
    BY <1>2, <1>3
  <2>2. \A b \in At(new, path) :
          Place(parents(new), new[b].above) = 1 /\ Place(kin(new, b), b) = 1
    BY <1>2, <1>3
  <2> HIDE DEF parents, kin
  <2> QED BY <2>1, <2>2
<1> HIDE DEF pairs
<1>5. ListedAt(old, new, mate, path)
        = {<<a, mate[a]>> : a \in At(old, path)}
          \cup {<<a, mate[a]>> : a \in {a \in DOMAIN old : mate[a] \in At(new, path)}}
          \cup {<<0, b>> : b \in {b \in At(new, path) : \A a \in DOMAIN old : mate[a] # b}}
  <2>1. ListedAt(old, new, mate, path) = ListedThere(old, new, mate, path)
    BY <1>2, ListedAtIs
  <2> QED BY <2>1 DEF ListedThere
<1>6. ASSUME NEW a \in At(old, path), NEW b \in At(new, path) PROVE mate[a] = b
  BY <1>2 DEF IsSaid, At
<1>7. ASSUME NEW a \in At(old, path), mate[a] # 0 PROVE mate[a] \in At(new, path)
  <2>1. mate[a] \in DOMAIN new /\ Goes(path, new[mate[a]].path, moves)
    BY <1>7 DEF IsSaid, At
  <2> QED BY <2>1 DEF IsSaid, At
<1>8. ASSUME NEW a \in DOMAIN old, mate[a] \in At(new, path) PROVE a \in At(old, path)
  <2>1. Goes(old[a].path, path, moves)
    BY <1>8 DEF IsSaid, At
  <2> QED BY <2>1 DEF IsSaid, At
<1>9. \A b \in At(new, path) : \A a \in At(old, path) : At(old, path) = {a} /\ At(new, path) = {b}
  BY <1>2, OneThere
<1>10. CASE At(old, path) = {}
  <2>1. \A b \in At(new, path) : \A a \in DOMAIN old : mate[a] # b
    BY <1>8, <1>10
  <2> QED BY <1>1, <1>4, <1>5, <1>10, <2>1
<1>11. CASE At(old, path) # {} /\ At(new, path) = {}
  <2>1. \A a \in At(old, path) : mate[a] = 0
    BY <1>7, <1>11
  <2> QED BY <1>1, <1>4, <1>5, <1>11, <2>1
<1>12. CASE At(old, path) # {} /\ At(new, path) # {}
  <2>1. PICK a \in At(old, path), b \in At(new, path) : TRUE
    BY <1>12
  <2>2. At(old, path) = {a} /\ At(new, path) = {b} /\ mate[a] = b /\ a \in DOMAIN old
    BY <1>6, <1>9 DEF At
  <2>3. pairs = {<<a, b>>} /\ {m[1] : m \in pairs} = {a} /\ {m[2] : m \in pairs} = {b}
    <3>1. pairs = {<<a, b>>}
      BY <1>4, <2>2
    <3> QED BY <3>1
  <2>4. InPlace(old, new, path) = {<<a, b>>}
    BY <1>1, <2>2, <2>3
  <2>5. {c \in DOMAIN old : mate[c] \in At(new, path)} = {a}
    BY <1>8, <2>2
  <2>6. {c \in At(new, path) : \A d \in DOMAIN old : mate[d] # c} = {}
    BY <2>2
  <2> QED BY <1>5, <2>2, <2>4, <2>5, <2>6
<1> QED BY <1>10, <1>11, <1>12

(* A part of a path from its start is a prefix of it.                      *)
LEMMA HeadIsPrefix ==
  ASSUME NEW t \in Seq(Segment), NEW n \in 1..Len(t), n # Len(t)
  PROVE  IsStrictPrefix(Head1(t, n), t)
<1> DEFINE s == Head1(t, n)
<1>1. Len(t) \in Nat /\ n \in Nat /\ n <= Len(t)
  OBVIOUS
<1>2. s \in Seq(Segment) /\ Len(s) = n /\ \A k \in 1..n : s[k] = t[k]
  BY <1>1 DEF Head1
<1> HIDE DEF s
<1>3. SubSeq(s, 1, Len(s)) = SubSeq(t, 1, Len(s))
  <2>1. /\ SubSeq(s, 1, n) \in Seq(Segment) /\ SubSeq(t, 1, n) \in Seq(Segment)
        /\ Len(SubSeq(s, 1, n)) = n /\ Len(SubSeq(t, 1, n)) = n
    BY <1>1, <1>2
  <2>2. \A k \in 1..n : SubSeq(s, 1, n)[k] = s[k] /\ SubSeq(t, 1, n)[k] = t[k]
    BY <1>1, <1>2
  <2> QED BY <1>2, <2>1, <2>2, SeqEqual
<1>4. s # t
  BY <1>2
<1> QED BY <1>1, <1>2, <1>3, <1>4 DEF IsStrictPrefix, IsPrefix, s

(* No two of a set of paths are one inside the other: none is below        *)
(* another.                                                                *)
LEMMA ApartIsNoneInside ==
  ASSUME NEW T \in SUBSET Seq(Segment), \A s, t \in T : ~IsStrictPrefix(s, t)
  PROVE  NoneInside(T)
BY HeadIsPrefix DEF NoneInside

(* The links of two printings say what their moves are.                    *)
LEMMA LinksSay ==
  ASSUME PrintingsInv, Last1 = 2, MovesApart, OneAPath(printings[1]), OneAPath(printings[2])
  PROVE  /\ IsWindow(printings[1], printings[2], Moves(1))
         /\ Says(links, Moves(1)) /\ SaysBack(links, BackOf(Moves(1)))
         /\ NoneInside(DOMAIN Moves(1)) /\ NoneInside(Range(Moves(1)))
         /\ links \in Seq(Step)
<1> DEFINE known == Moves(1)
           back == BackOf(known)
<1>1. IsWindow(printings[1], printings[2], known)
  <2>1. 1 \in 1..Last1 /\ 2 \in 1..Last1 /\ 1 \in 1..Last1 - 1 /\ 1 + 1 = 2
    OBVIOUS
  <2>2. IsPrinting(printings[1]) /\ IsPrinting(printings[2]) /\ AboveKept(printings[1], printings[2])
    BY <2>1 DEF PrintingsInv, DraftsKeep, IsDraft, Follows
  <2>3. AreMoves(known, printings[1], printings[2])
    BY <2>1, AreTheMoves
  <2> QED BY <2>2, <2>3 DEF IsWindow
<1>2. links \in Seq(Step) /\ DOMAIN links = 1..Len(links)
  BY DEF PrintingsInv
<1>3. OfOneWindow(links)
  <2> SUFFICES ASSUME NEW n \in DOMAIN links PROVE links[n].window = <<1, 2>>
    BY DEF OfOneWindow
  <2>1. NamesOne(links[n], printings)
    BY <1>2 DEF PrintingsInv
  <2>2. Len(printings) = 2
    BY DEF Last1
  <2>3. PICK i \in Moved(printings[1], printings[1 + 1]) : links[n] = StepOf(printings, 1, i)
    BY <2>1, <2>2 DEF NamesOne
  <2> QED BY <2>3 DEF StepOf
<1>4. NoRing(links)
  BY Zenon DEF MovesApart, NoRing
<1>5. /\ \A m, n \in DOMAIN links : links[m].from = links[n].from => m = n
      /\ \A m, n \in DOMAIN links : ~IsStrictPrefix(links[m].from, links[n].from)
      /\ \A m, n \in DOMAIN links : ~IsStrictPrefix(links[m].to, links[n].to)
  <2>1. \A m \in DOMAIN links : /\ ~IsStrictPrefix(links[m].from, links[m].from)
                                /\ ~IsStrictPrefix(links[m].to, links[m].to)
    BY DEF IsStrictPrefix
  <2> QED BY <2>1 DEF MovesApart
<1> DEFINE steps == {s \in Range(links) : s.window[1] = 1}
<1>6. steps = Range(links) /\ \A s : s \in Range(links) <=> \E n \in DOMAIN links : s = links[n]
  BY <1>3 DEF Range, OfOneWindow
<1>7. known = [path \in {s.from : s \in steps} |-> (CHOOSE s \in steps : s.from = path).to]
  BY Zenon DEF Moves
<1> HIDE DEF known, steps
<1>8. DOMAIN known = {links[n].from : n \in DOMAIN links}
  BY <1>6, <1>7
<1>9. ASSUME NEW n \in DOMAIN links PROVE known[links[n].from] = links[n].to
  <2>1. links[n] \in steps
    BY <1>6
  <2>2. \A s \in steps : s.from = links[n].from => s = links[n]
    BY <1>5, <1>6
  <2>3. (CHOOSE s \in steps : s.from = links[n].from) = links[n]
    BY <2>1, <2>2
  <2> QED BY <1>7, <2>1, <2>3
<1>10. Says(links, known)
  BY <1>3, <1>4, <1>8, <1>9 DEF Says
<1>11. Range(known) = {links[n].to : n \in DOMAIN links}
  BY <1>8, <1>9 DEF Range
<1>12. AreOfPaths(known)
  BY <1>1, WindowKnows
<1>13. SaysBack(links, back)
  <2>1. DOMAIN back = Range(known) /\ AreReverse(known, back)
    BY <1>12 DEF AreOfPaths
  <2> HIDE DEF back
  <2>2. \A n \in DOMAIN links : back[links[n].to] = links[n].from
    BY <1>8, <1>9, <2>1 DEF AreReverse
  <2> QED BY <1>3, <1>4, <1>11, <2>1, <2>2 DEF SaysBack
<1>14. NoneInside(DOMAIN known) /\ NoneInside(Range(known))
  <2>1. DOMAIN known \in SUBSET Seq(Segment) /\ Range(known) \in SUBSET Seq(Segment)
    BY <1>12 DEF AreOfPaths
  <2>2. \A s, t \in DOMAIN known : ~IsStrictPrefix(s, t)
    BY <1>5, <1>8
  <2>3. \A s, t \in Range(known) : ~IsStrictPrefix(s, t)
    BY <1>5, <1>11
  <2> QED BY <2>1, <2>2, <2>3, ApartIsNoneInside
<1> QED BY <1>1, <1>2, <1>10, <1>13, <1>14 DEF known

(* The command `path` reports of each path what a diff of the two lists.   *)
LEMMA PathAgrees ==
  ASSUME PrintingsInv, Last1 = 2, MovesApart, OneAPath(printings[1]), OneAPath(printings[2]),
         NEW mate, mate = Mates(printings[1], printings[2], Moves(1)),
         NEW path \in Seq(Segment) \ {<<>>}
  PROVE  AtPath(printings[1], printings[2], path, <<1, 2>>, links)
           = ListedAt(printings[1], printings[2], mate, path)
<1> DEFINE old == printings[1]
           new == printings[2]
           known == Moves(1)
           out == Carried(path, known)
           into == Carried(path, BackOf(known))
<1>1. /\ IsWindow(old, new, known) /\ Says(links, known) /\ SaysBack(links, BackOf(known))
      /\ NoneInside(DOMAIN known) /\ NoneInside(Range(known)) /\ links \in Seq(Step)
  BY LinksSay
<1>2. mate \in [DOMAIN old -> DOMAIN new \cup {0}]
  BY <1>1, MatesAre DEF IsWindow
<1>3. IsSaid(old, new, mate, known, path, out, into)
  BY <1>1, WindowSays
<1>4. Out(path, <<1, 2>>, links) = out /\ Into(path, <<1, 2>>, links) = into
  BY <1>1, OutIsCarried, IntoIsCarried
<1>5. AtPath(old, new, path, <<1, 2>>, links)
        = IF out = path /\ into = path THEN InPlace(old, new, path)
          ELSE AcrossMoves(old, new, path, out, into)
  BY <1>4, Zenon DEF AtPath
<1> HIDE DEF old, new, known, out, into
<1>6. CASE out = path /\ into = path
  BY <1>2, <1>3, <1>5, <1>6, InPlaceIs DEF old, new
<1>7. CASE ~(out = path /\ into = path)
  BY <1>2, <1>3, <1>5, <1>7, AcrossIs DEF old, new
<1> QED BY <1>6, <1>7

(* So the two commands agree in every state amendments lead to.            *)
LEMMA InvPathAgrees == ASSUME PrintingsInv PROVE PathAgreesWithDiff
<1> SUFFICES ASSUME Last1 = 2, MovesApart, OneAPath(printings[1]), OneAPath(printings[2])
             PROVE  Agree(<<1, 2>>)
  BY DEF PathAgreesWithDiff
<1>1. <<1, 2>>[1] = 1 /\ <<1, 2>>[2] = 2
  OBVIOUS
<1>2. Over(1, 2) = {Moves(1)}
  <2>1. 1 \in Nat /\ 2 \in Nat /\ 1 < 2 /\ 1 + 1 = 2
    OBVIOUS
  <2> QED BY <2>1, OverIs
<1> DEFINE old == printings[1]
           new == printings[2]
           mate == Mates(old, new, Moves(1))
           paths == {old[a].path : a \in DOMAIN old \ {Root}}
                    \cup {new[b].path : b \in DOMAIN new \ {Root}}
<1>3. ASSUME NEW path \in paths PROVE path \in Seq(Segment) \ {<<>>}
  <2>1. IsPrinting(old) /\ IsPrinting(new)
    BY LinksSay DEF IsWindow
  <2> QED BY <2>1, AboveIs
<1>4. \A path \in paths : AtPath(old, new, path, <<1, 2>>, links) = ListedAt(old, new, mate, path)
  BY <1>3, PathAgrees
<1>5. ASSUME NEW known \in Over(1, 2), NEW path \in paths
      PROVE  AtPath(old, new, path, <<1, 2>>, links)
               = {p \in Listed(old, new, Mates(old, new, known)) :
                    \/ p[1] # 0 /\ old[p[1]].path = path
                    \/ p[2] # 0 /\ new[p[2]].path = path}
  <2>1. known = Moves(1)
    BY <1>2
  <2> QED BY <1>4, <2>1 DEF ListedAt
<1>6. Agree(<<1, 2>>) <=>
        \A known \in Over(1, 2) : \A path \in paths :
          AtPath(old, new, path, <<1, 2>>, links)
            = {p \in Listed(old, new, Mates(old, new, known)) :
                 \/ p[1] # 0 /\ old[p[1]].path = path
                 \/ p[2] # 0 /\ new[p[2]].path = path}
  BY <1>1 DEF Agree, Listed
<1> QED BY <1>5, <1>6

(* What `path` reports of any path of two printings is what `diff` lists   *)
(* there, whatever was amended between them, where one move explains each  *)
(* number and no numbers go round in a ring.                               *)
THEOREM PathAgreesWithDiffAlways == Spec => []PathAgreesWithDiff
BY InvAlways, InvPathAgrees, PTL
=============================================================================
