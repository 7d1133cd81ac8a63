--------------------------- MODULE OpinionsProofs ---------------------------
(***************************************************************************)
(* What Opinions promises for every set of cases and printings, in         *)
(* whatever order they come and wherever a command is killed.              *)
(***************************************************************************)
EXTENDS Opinions, FiniteSetTheorems, TLAPS

-----------------------------------------------------------------------------
(* Induction in the form the proofs below use it: a set of numbers has a   *)
(* least member, and a finite one a greatest.                              *)
LEMMA LeastMember ==
  ASSUME NEW T \in SUBSET Nat, T # {}
  PROVE  \E m \in T : \A k \in T : m <= k
<1> DEFINE R == {ss \in Nat \X Nat : ss[1] < ss[2]}
<1>1. IsWellFoundedOn(R, Nat)
  BY NatLessThanWellFounded DEF OpToRel
<1>2. PICK m \in T : \A k \in T : ~ (<<k, m>> \in R)
  <2> HIDE DEF R
  <2> QED BY <1>1, WFMin
<1>3. ASSUME NEW k \in T PROVE m <= k
  <2>1. k \in Nat /\ m \in Nat
    OBVIOUS
  <2>2. ~ (<<k, m>> \in R)
    BY <1>2
  <2>3. ~ (k < m)
    BY <2>1, <2>2
  <2> QED BY <2>1, <2>3
<1> QED BY <1>3

LEMMA GreatestBelow ==
  ASSUME NEW T \in SUBSET Nat, T # {}, NEW n \in Nat, \A k \in T : k <= n
  PROVE  \E m \in T : \A k \in T : k <= m
<1> DEFINE U == {n - k : k \in T}
<1>1. U \in SUBSET Nat /\ U # {}
  <2>1. \A k \in T : k \in Nat /\ k <= n
    OBVIOUS
  <2>2. \A k \in T : n - k \in Nat
    BY <2>1
  <2> QED BY <2>2
<1>2. PICK u \in U : \A v \in U : u <= v
  <2> HIDE DEF U
  <2> QED BY <1>1, LeastMember
<1>3. PICK m \in T : u = n - m
  BY <1>2
<1>4. ASSUME NEW k \in T PROVE k <= m
  <2>1. n - k \in U
    OBVIOUS
  <2>2. n - m <= n - k
    BY <1>2, <1>3, <2>1
  <2> QED BY <2>2
<1> QED BY <1>4

LEMMA GreatestMember ==
  ASSUME NEW T \in SUBSET Nat, T # {}, IsFiniteSet(T)
  PROVE  \E m \in T : \A k \in T : k <= m
<1> DEFINE Bounded == {n \in Nat : \A U \in SUBSET T : Cardinality(U) = n =>
                          \E b \in Nat : \A k \in U : k <= b}
           Open == Nat \ Bounded
<1>1. Open = {}
  <2>1. SUFFICES ASSUME Open # {} PROVE FALSE
    OBVIOUS
  <2>2. PICK n \in Open : \A m \in Open : n <= m
    <3>1. Open \in SUBSET Nat
      OBVIOUS
    <3> HIDE DEF Open
    <3> QED BY <2>1, <3>1, LeastMember
  <2>3. PICK U \in SUBSET T : Cardinality(U) = n /\ ~ \E b \in Nat : \A k \in U : k <= b
    BY <2>2
  <2>4. IsFiniteSet(U)
    BY FS_Subset
  <2>5. PICK x \in U : TRUE
    BY <2>3
  <2>6. /\ IsFiniteSet(U \ {x}) /\ Cardinality(U \ {x}) = n - 1
        /\ n \in Nat /\ n # 0
    BY <2>2, <2>3, <2>4, <2>5, FS_RemoveElement, FS_EmptySet
  <2>7. n - 1 \in Nat /\ n - 1 \notin Open
    BY <2>2, <2>6
  <2>8. PICK b \in Nat : \A k \in U \ {x} : k <= b
    BY <2>6, <2>7
  <2>9. x \in Nat
    BY <2>5
  <2>10. \A k \in U : k <= x + b
    BY <2>8, <2>9
  <2> QED
    BY <2>3, <2>8, <2>9, <2>10
<1>2. PICK b \in Nat : \A k \in T : k <= b
  <2>1. Cardinality(T) \in Nat
    BY FS_CardinalityType
  <2> QED BY <1>1, <2>1
<1> QED BY <1>2, GreatestBelow

LEMMA FiniteImage ==
  ASSUME NEW S, IsFiniteSet(S), NEW f, DOMAIN f = S
  PROVE  IsFiniteSet({f[x] : x \in S})
<1> DEFINE T == {f[x] : x \in S}
           g == [x \in S |-> f[x]]
<1>1. g \in Surjection(S, T)
  BY DEF Surjection
<1> HIDE DEF T, g
<1> QED BY <1>1, FS_Surjection DEF T

LEMMA LatestIs ==
  ASSUME NEW T \in SUBSET Nat, T # {}, IsFiniteSet(T)
  PROVE  /\ Max(T) \in T /\ \A k \in T : k <= Max(T)
         /\ Min(T) \in T /\ \A k \in T : Min(T) <= k
<1>1. PICK m \in T : \A k \in T : m >= k
  BY GreatestMember
<1>2. PICK n \in T : \A k \in T : n <= k
  BY LeastMember
<1>3. Max(T) \in T /\ \A k \in T : Max(T) >= k
  BY <1>1 DEF Max
<1>4. Min(T) \in T /\ \A k \in T : Min(T) =< k
  BY <1>2 DEF Min
<1> QED BY <1>3, <1>4

(* The members of a finite set, one after another, are its members.        *)
LEMMA SetToSeqIs ==
  ASSUME NEW S, IsFiniteSet(S)
  PROVE  SetToSeq(S) \in Seq(S) /\ Range(SetToSeq(S)) = S
<1> DEFINE n == Cardinality(S)
<1>1. n \in Nat /\ ExistsBijection(1..n, S)
  BY FS_CardinalityType
<1>2. PICK f \in [1..n -> S] : IsInjective(f)
  BY <1>1 DEF ExistsBijection, Bijection, Injection, IsInjective
<1>3. SetToSeq(S) \in [1..n -> S] /\ IsInjective(SetToSeq(S))
  BY <1>2 DEF SetToSeq
<1> DEFINE g == SetToSeq(S)
<1>4. g \in Injection(1..n, S)
  BY <1>3 DEF Injection, IsInjective
<1>5. IsFiniteSet(1..n) /\ Cardinality(1..n) = n
  BY <1>1, FS_Interval
<1>6. g \in Surjection(1..n, S)
  <2> HIDE DEF g
  <2> QED BY <1>4, <1>5, FS_Injection
<1> HIDE DEF g
<1>7. Range(g) = S
  BY <1>6 DEF Surjection, Range
<1>8. g \in Seq(S)
  BY <1>1, <1>3 DEF g
<1> QED BY <1>7, <1>8 DEF g

(* What the sequences laid end to end hold.                                *)
LEMMA FlattenSeqIs ==
  ASSUME NEW S, NEW seqs \in Seq(Seq(S))
  PROVE  /\ FlattenSeq(seqs) \in Seq(S)
         /\ Range(FlattenSeq(seqs)) = UNION {Range(seqs[i]) : i \in DOMAIN seqs}
<1>1. CASE Len(seqs) = 0
  <2>1. FlattenSeq(seqs) = seqs /\ seqs = <<>>
    BY <1>1 DEF FlattenSeq
  <2> QED BY <2>1 DEF Range
<1>2. CASE Len(seqs) # 0
  <2> DEFINE N == Len(seqs)
             eqn(f, i) == f[i] = IF i = 1 THEN seqs[i] ELSE f[i - 1] \o seqs[i]
             rec(f) == f = [i \in 1..N |-> IF i = 1 THEN seqs[i] ELSE f[i - 1] \o seqs[i]]
             upto(n) == \E f \in [1..n -> Seq(S)] : \A i \in 1..n : eqn(f, i)
             flatten == CHOOSE f : rec(f)
             open == {n \in Nat : n <= N /\ ~upto(n)}
  <2>1. N \in Nat \ {0} /\ DOMAIN seqs = 1..N /\ \A i \in 1..N : seqs[i] \in Seq(S)
    BY <1>2
  <2>2. open = {}
    <3>1. SUFFICES ASSUME open # {} PROVE FALSE
      OBVIOUS
    <3>2. PICK n \in open : \A m \in open : n <= m
      <4>1. open \in SUBSET Nat
        OBVIOUS
      <4> HIDE DEF open
      <4> QED BY <3>1, <4>1, LeastMember
    <3>3. n # 0
      <4> DEFINE e == [i \in 1..0 |-> <<>>]
      <4>1. e \in [1..0 -> Seq(S)] /\ 1..0 = {}
        OBVIOUS
      <4> HIDE DEF e
      <4>2. \A i \in 1..0 : eqn(e, i)
        BY <4>1
      <4>3. upto(0)
        BY <4>1, <4>2
      <4> HIDE DEF upto
      <4> QED BY <3>2, <4>3
    <3>4. n \in 1..N /\ n - 1 \in Nat /\ n - 1 <= N /\ n - 1 \notin open
      <4> HIDE DEF upto, N
      <4> QED BY <2>1, <3>2, <3>3
    <3>5. PICK f \in [1..(n - 1) -> Seq(S)] : \A i \in 1..(n - 1) : eqn(f, i)
      <4>1. upto(n - 1)
        <5> HIDE DEF upto
        <5> QED BY <3>4
      <4> QED BY <4>1
    <3> DEFINE last == IF n = 1 THEN seqs[n] ELSE f[n - 1] \o seqs[n]
               g == [i \in 1..n |-> IF i = n THEN last ELSE f[i]]
    <3>6. last \in Seq(S)
      BY <2>1, <3>4, <3>5
    <3> HIDE DEF last
    <3>7. g \in [1..n -> Seq(S)]
      BY <3>4, <3>5, <3>6
    <3>8. \A i \in 1..(n - 1) : g[i] = f[i]
      BY <3>4
    <3>9. g[n] = last
      BY <3>4
    <3> HIDE DEF g
    <3>10. \A i \in 1..n : eqn(g, i)
      <4>1. ASSUME NEW i \in 1..(n - 1) PROVE eqn(g, i)
        <5>1. i # 1 => i - 1 \in 1..(n - 1)
          BY <3>4
        <5> QED BY <3>5, <3>8, <5>1
      <4>2. eqn(g, n)
        <5>1. n # 1 => n - 1 \in 1..(n - 1)
          BY <3>4
        <5> QED BY <3>8, <3>9, <5>1 DEF last
      <4> QED BY <3>4, <4>1, <4>2
    <3> QED BY <3>2, <3>7, <3>10
  <2>3. PICK f \in [1..N -> Seq(S)] : \A i \in 1..N : eqn(f, i)
    <3>1. upto(N)
      <4> HIDE DEF upto, N
      <4> QED BY <2>1, <2>2
    <3> QED BY <3>1
  <2>4. rec(f)
    BY <2>3
  <2>5. rec(flatten)
    <3> HIDE DEF rec
    <3> QED BY <2>4
  <2>6. \A i \in 1..N : eqn(flatten, i)
    <3> HIDE DEF flatten
    <3> QED BY <2>5
  <2>7. FlattenSeq(seqs) = flatten[N]
    BY <1>2 DEF FlattenSeq
  <2> HIDE DEF flatten
  <2> DEFINE told(n) == /\ flatten[n] \in Seq(S)
                        /\ Range(flatten[n]) = UNION {Range(seqs[i]) : i \in 1..n}
             wrong == {n \in 1..N : ~told(n)}
  <2>8. wrong = {}
    <3>1. SUFFICES ASSUME wrong # {} PROVE FALSE
      OBVIOUS
    <3>2. PICK n \in wrong : \A m \in wrong : n <= m
      <4>1. wrong \in SUBSET Nat
        OBVIOUS
      <4> HIDE DEF wrong
      <4> QED BY <3>1, <4>1, LeastMember
    <3>3. CASE n = 1
      <4>1. flatten[1] = seqs[1] /\ seqs[1] \in Seq(S)
        <5>1. 1 \in 1..N
          BY <2>1
        <5>2. eqn(flatten, 1)
          <6> HIDE DEF eqn
          <6> QED BY <2>6, <5>1
        <5> QED BY <2>1, <5>1, <5>2
      <4>2. UNION {Range(seqs[i]) : i \in 1..1} = Range(seqs[1])
        OBVIOUS
      <4> QED BY <3>2, <3>3, <4>1, <4>2
    <3>4. CASE n # 1
      <4>1. n \in 1..N /\ n - 1 \in 1..N /\ n - 1 \notin wrong
        <5> HIDE DEF told, N
        <5> QED BY <2>1, <3>2, <3>4
      <4>2. told(n - 1) /\ flatten[n] = flatten[n - 1] \o seqs[n] /\ seqs[n] \in Seq(S)
        BY <2>1, <2>6, <3>4, <4>1
      <4>3. 1..n = (1..(n - 1)) \cup {n}
        BY <2>1, <4>1
      <4>4. ASSUME NEW s \in Seq(S), NEW t \in Seq(S) PROVE Range(s \o t) = Range(s) \cup Range(t)
        <5>1. /\ \A x \in Range(s) \cup Range(t) : x \in Range(s \o t)
          <6>1. \A i \in DOMAIN s : i \in DOMAIN (s \o t) /\ (s \o t)[i] = s[i]
            OBVIOUS
          <6>2. \A i \in DOMAIN t : Len(s) + i \in DOMAIN (s \o t) /\ (s \o t)[Len(s) + i] = t[i]
            OBVIOUS
          <6> QED BY <6>1, <6>2 DEF Range
        <5>2. \A i \in DOMAIN (s \o t) :
                \/ i \in DOMAIN s /\ (s \o t)[i] = s[i]
                \/ i - Len(s) \in DOMAIN t /\ (s \o t)[i] = t[i - Len(s)]
          OBVIOUS
        <5> QED BY <5>1, <5>2 DEF Range
      <4>5. Range(flatten[n]) = Range(flatten[n - 1]) \cup Range(seqs[n])
        BY <4>2, <4>4
      <4>6. flatten[n] \in Seq(S)
        BY <4>2
      <4>7. UNION {Range(seqs[i]) : i \in 1..n}
              = (UNION {Range(seqs[i]) : i \in 1..(n - 1)}) \cup Range(seqs[n])
        BY <4>3
      <4> QED BY <3>2, <4>2, <4>5, <4>6, <4>7
    <3> QED BY <3>3, <3>4
  <2>9. told(N)
    <3>1. N \in 1..N /\ N \notin wrong
      <4> HIDE DEF wrong
      <4> QED BY <2>1, <2>8
    <3> HIDE DEF told, N
    <3> QED BY <3>1
  <2> QED BY <2>1, <2>7, <2>9
<1> QED BY <1>1, <1>2
-----------------------------------------------------------------------------
(* Where designations lead.                                                *)

LEMMA ListIs ==
  ASSUME NEW S, NEW s \in Seq(S)
  PROVE  IsList(s)
<1>1. Len(s) \in Nat /\ DOMAIN s = 1..Len(s) /\ \A i \in 1..Len(s) : s[i] \in Range(s)
  BY DEF Range
<1>2. s = [i \in 1..Len(s) |-> s[i]]
  OBVIOUS
<1> HIDE DEF Range
<1>3. [i \in 1..Len(s) |-> s[i]] \in Seq(Range(s))
  BY <1>1
<1> QED BY <1>2, <1>3 DEF IsList

LEMMA JoinedLists ==
  ASSUME NEW s, IsList(s), NEW t, IsList(t)
  PROVE  /\ IsList(s \o t) /\ Len(s \o t) = Len(s) + Len(t)
         /\ \A i \in 1..Len(s) : (s \o t)[i] = s[i]
         /\ \A i \in 1..Len(t) : (s \o t)[Len(s) + i] = t[i]
<1> DEFINE A == Range(s) \cup Range(t)
<1>1. s \in Seq(A) /\ t \in Seq(A)
  BY DEF IsList
<1> HIDE DEF A
<1>2. s \o t \in Seq(A)
  BY <1>1
<1>3. IsList(s \o t)
  BY <1>2, ListIs
<1>4. /\ Len(s \o t) = Len(s) + Len(t)
      /\ \A i \in 1..Len(s) : (s \o t)[i] = s[i]
      /\ \A i \in 1..Len(t) : (s \o t)[Len(s) + i] = t[i]
  BY <1>1
<1> QED BY <1>3, <1>4

LEMMA PartOfList ==
  ASSUME NEW s, IsList(s), NEW m \in 1..(Len(s) + 1), NEW n \in (m - 1)..Len(s)
  PROVE  IsList(SubSeq(s, m, n)) /\ Len(SubSeq(s, m, n)) = n + 1 - m
<1>1. s \in Seq(Range(s)) /\ Len(s) \in Nat
  BY DEF IsList
<1>2. SubSeq(s, m, n) \in Seq(Range(s)) /\ Len(SubSeq(s, m, n)) = n + 1 - m
  BY <1>1
<1> QED BY <1>2, ListIs

(* Walked goes down as far as each designation leads to a provision.       *)
LEMMA WalkedIs ==
  ASSUME NEW tree, NEW path, IsPath(path), NEW below, IsList(below)
  PROVE  \E n \in 0..Len(below) :
           /\ Walked(tree, path, below)
                = [path |-> path \o SubSeq(below, 1, n),
                   unresolved |-> SubSeq(below, n + 1, Len(below))]
           /\ \A j \in 1..n : path \o SubSeq(below, 1, j) \in DOMAIN tree
           /\ n < Len(below) => path \o SubSeq(below, 1, n + 1) \notin DOMAIN tree
<1> DEFINE at(k) == path \o SubSeq(below, 1, k)
           T == {k \in 0..Len(below) : k < Len(below) => at(k + 1) \notin DOMAIN tree}
           ends(k) == /\ at(k) \in DOMAIN tree \cup {path}
                      /\ k < Len(below) => at(k + 1) \notin DOMAIN tree
                      /\ \A j \in 1..k : at(j) \in DOMAIN tree
<1>1. Len(below) \in Nat
  BY DEF IsList
<1>2. at(0) = path
  BY DEF IsPath, IsList
<1> HIDE DEF at
<1>3. T \in SUBSET Nat /\ Len(below) \in T
  BY <1>1
<1>4. PICK n \in T : \A k \in T : n <= k
  <2> HIDE DEF T
  <2> QED BY <1>3, LeastMember
<1>5. ASSUME NEW j \in 1..n PROVE at(j) \in DOMAIN tree
  <2>1. j - 1 \in 0..Len(below) /\ j - 1 < n /\ j - 1 < Len(below)
    BY <1>1, <1>4
  <2>2. j - 1 \notin T
    <3>1. n \in Nat /\ j - 1 \in Nat /\ ~(n <= j - 1)
      BY <1>4, <2>1
    <3> HIDE DEF T
    <3> QED BY <1>4, <3>1
  <2>3. at((j - 1) + 1) \in DOMAIN tree
    BY <2>1, <2>2
  <2> QED BY <2>3
<1>6. ends(n)
  <2>1. n # 0 => at(n) \in DOMAIN tree
    BY <1>4, <1>5
  <2> QED BY <1>2, <1>4, <1>5, <2>1
<1> DEFINE chosen == CHOOSE k \in 0..Len(below) : ends(k)
<1>7. chosen \in 0..Len(below) /\ ends(chosen)
  <2> HIDE DEF ends
  <2> QED BY <1>4, <1>6
<1>8. Walked(tree, path, below)
        = [path |-> at(chosen), unresolved |-> SubSeq(below, chosen + 1, Len(below))]
  BY DEF Walked, at
<1> HIDE DEF chosen
<1> QED BY <1>7, <1>8 DEF at

LEMMA WalkedPath ==
  ASSUME NEW tree, NEW path, IsPath(path), NEW below, IsList(below)
  PROVE  /\ IsPath(Walked(tree, path, below).path)
         /\ IsList(Walked(tree, path, below).unresolved)
         /\ Walked(tree, path, below).path[1] = path[1]
         /\ Whole(Walked(tree, path, below)) =>
              /\ Walked(tree, path, below).path = path \o below
              /\ \A j \in 1..Len(below) : path \o SubSeq(below, 1, j) \in DOMAIN tree
<1>1. PICK n \in 0..Len(below) :
        /\ Walked(tree, path, below)
             = [path |-> path \o SubSeq(below, 1, n),
                unresolved |-> SubSeq(below, n + 1, Len(below))]
        /\ \A j \in 1..n : path \o SubSeq(below, 1, j) \in DOMAIN tree
  BY WalkedIs
<1>2. /\ IsList(path) /\ Len(path) \in Nat \ {0} /\ Len(below) \in Nat
      /\ n + 1 \in 1..(Len(below) + 1) /\ Len(below) \in n..Len(below)
  BY DEF IsPath, IsList
<1> DEFINE part == SubSeq(below, 1, n)
           rest == SubSeq(below, n + 1, Len(below))
<1>3. /\ IsList(part) /\ Len(part) = n
      /\ IsList(rest) /\ Len(rest) = Len(below) - n
  BY <1>2, PartOfList
<1>4. rest = <<>> => n = Len(below) /\ part = below
  <2>1. rest = <<>> => Len(rest) = 0
    <3> HIDE DEF rest
    <3> QED OBVIOUS
  <2>3. rest = <<>> => n = Len(below)
    <3> HIDE DEF rest
    <3> QED BY <1>2, <1>3, <2>1
  <2>2. SubSeq(below, 1, Len(below)) = below
    BY DEF IsList
  <2> QED BY <2>3, <2>2
<1> HIDE DEF part, rest
<1>5. /\ IsList(path \o part) /\ Len(path \o part) = Len(path) + n
      /\ (path \o part)[1] = path[1]
  <2>1. /\ IsList(path \o part) /\ Len(path \o part) = Len(path) + Len(part)
        /\ \A i \in 1..Len(path) : (path \o part)[i] = path[i]
    BY <1>2, <1>3, JoinedLists
  <2>2. 1 \in 1..Len(path)
    BY <1>2
  <2> QED BY <1>3, <2>1, <2>2
<1>6. Walked(tree, path, below) = [path |-> path \o part, unresolved |-> rest]
  BY <1>1 DEF part, rest
<1>7. path \o part # <<>>
  BY <1>2, <1>5
<1>8. IsPath(path \o part)
  BY <1>5, <1>7 DEF IsPath
<1>9. /\ Walked(tree, path, below).path = path \o part
      /\ Walked(tree, path, below).unresolved = rest
  BY <1>6
<1>10. Whole(Walked(tree, path, below)) => n = Len(below) /\ part = below
  BY <1>4, <1>9 DEF Whole
<1> QED
  BY <1>1, <1>3, <1>5, <1>8, <1>9, <1>10

(* A range and its second end share some of the designations, not all.     *)
LEMMA AlikeAtIs ==
  ASSUME NEW from, IsPath(from), NEW to
  PROVE  AlikeAt(from, to) \in 0..(Len(from) - 1)
<1> DEFINE at == {n \in DOMAIN from : Style[from[n]] = Style[to[1]]}
<1>1. /\ Len(from) \in Nat /\ DOMAIN from = 1..Len(from)
      /\ from # <<>> /\ Len(from) # 0
  BY DEF IsPath, IsList
<1>2. CASE at = {}
  BY <1>1, <1>2 DEF AlikeAt
<1>3. CASE at # {}
  <2>1. at \in SUBSET Nat /\ \A n \in at : n <= Len(from)
    BY <1>1
  <2> HIDE DEF at
  <2>2. \E n \in at : \A m \in at : m <= n
    BY <1>1, <1>3, <2>1, GreatestBelow
  <2> DEFINE n == CHOOSE n \in at : \A m \in at : m <= n
  <2>3. n \in at
    BY <2>2
  <2>4. AlikeAt(from, to) = n - 1
    BY <1>3 DEF AlikeAt, at
  <2> HIDE DEF n
  <2> QED BY <1>1, <2>3, <2>4 DEF at
<1> QED BY <1>2, <1>3

LEMMA AlsoSharedIs ==
  ASSUME NEW from, IsPath(from), NEW to, IsPath(to), NEW shared \in 0..(Len(from) - 1)
  PROVE  /\ AlsoShared(from, to, shared) \in 0..(Len(to) - 1)
         /\ shared + AlsoShared(from, to, shared) < Len(from)
<1> DEFINE ends(n) == \/ shared + n + 1 = Len(from) \/ n + 1 = Len(to)
                      \/ from[shared + n + 1] # to[n + 1]
           T == {n \in 0..Len(to) : ends(n) /\ shared + n < Len(from) /\ n < Len(to)}
           is(n) == /\ shared + n < Len(from) /\ n < Len(to)
                    /\ \A k \in 1..n : from[shared + k] = to[k]
                    /\ ends(n)
<1>1. Len(from) \in Nat \ {0} /\ Len(to) \in Nat \ {0}
  BY DEF IsPath, IsList
<1>2. T \in SUBSET Nat /\ T # {}
  <2>1. CASE Len(from) - shared <= Len(to)
    <3>1. Len(from) - shared - 1 \in T
      BY <1>1, <2>1
    <3> QED BY <3>1
  <2>2. CASE Len(to) <= Len(from) - shared
    <3>1. Len(to) - 1 \in T
      BY <1>1, <2>2
    <3> QED BY <3>1
  <2> QED BY <1>1, <2>1, <2>2
<1>3. PICK n \in T : \A k \in T : n <= k
  <2> HIDE DEF T
  <2> QED BY <1>2, LeastMember
<1>4. ASSUME NEW k \in 1..n PROVE from[shared + k] = to[k]
  <2>1. k - 1 \in 0..Len(to) /\ k - 1 \in Nat /\ n \in Nat /\ ~(n <= k - 1)
        /\ shared + (k - 1) < Len(from) /\ k - 1 < Len(to)
    BY <1>1, <1>3
  <2>2. k - 1 \notin T
    <3> HIDE DEF T
    <3> QED BY <1>3, <2>1
  <2>3. ~ends(k - 1)
    BY <2>1, <2>2
  <2> QED BY <1>1, <2>3
<1>5. n \in 0..Len(to) /\ is(n)
  BY <1>3, <1>4
<1>6. AlsoShared(from, to, shared) = CHOOSE m \in 0..Len(to) : is(m)
  BY DEF AlsoShared
<1>7. /\ AlsoShared(from, to, shared) \in 0..Len(to)
      /\ is(AlsoShared(from, to, shared))
  <2> HIDE DEF is
  <2> QED BY <1>5, <1>6
<1> QED BY <1>1, <1>7

LEMMA CountedIsFinite ==
  ASSUME NEW series, IsList(series), NEW x, NEW y
  PROVE  IsFiniteSet(In(series, x, y))
<1> DEFINE C == Counted(series, x, y)
           f == [n \in C |-> series[n]]
<1>1. C \subseteq 1..Len(series) /\ Len(series) \in Nat
  BY DEF Counted, IsList
<1>2. IsFiniteSet(C)
  <2>1. IsFiniteSet(1..Len(series))
    BY <1>1, FS_Interval
  <2> HIDE DEF C
  <2> QED BY <1>1, <2>1, FS_Subset
<1> HIDE DEF C
<1>3. {f[n] : n \in C} = {series[n] : n \in C}
  OBVIOUS
<1>4. DOMAIN f = C
  OBVIOUS
<1> HIDE DEF f
<1>5. IsFiniteSet({f[n] : n \in C})
  BY <1>2, <1>4, FiniteImage
<1> QED BY <1>3, <1>5 DEF In, C

LEMMA MembersAreFinite ==
  ASSUME NEW x, NEW y, NEW roman
  PROVE  IsFiniteSet(MembersBetween(x, y, roman))
<1>1. ASSUME NEW T, IsFiniteSet(T), \A s \in T : IsList(s)
      PROVE  IsFiniteSet(UNION {In(s, x, y) : s \in T})
  <2> DEFINE f == [s \in T |-> In(s, x, y)]
  <2>1. DOMAIN f = T /\ {f[s] : s \in T} = {In(s, x, y) : s \in T}
    OBVIOUS
  <2> HIDE DEF f
  <2>2. IsFiniteSet({f[s] : s \in T})
    BY <1>1, <2>1, FiniteImage
  <2>3. \A U \in {In(s, x, y) : s \in T} : IsFiniteSet(U)
    BY <1>1, CountedIsFinite
  <2> QED BY <2>1, <2>2, <2>3, FS_UNION
<1> DEFINE letters == UNION {In(s, x, y) : s \in Letters}
           numerals == UNION {In(s, x, y) : s \in Numerals}
<1>2. IsFiniteSet(letters) /\ IsFiniteSet(numerals) /\ IsFiniteSet(In(Numbers, x, y))
  BY <1>1, SeriesAssumption, CountedIsFinite
<1> HIDE DEF letters, numerals
<1>3. IsFiniteSet(letters \cup numerals)
  BY <1>2, FS_Union
<1> QED BY <1>2, <1>3 DEF MembersBetween, letters, numerals

(* Written words lead to paths, and to finitely many.                      *)
ArePaths(reached) == IsFiniteSet(reached) /\ \A r \in reached : IsPath(r.path)

LEMMA ReachRangeIs ==
  ASSUME NEW tree, NEW path, IsPath(path), NEW from, IsPath(from), NEW to, IsPath(to)
  PROVE  ArePaths(ReachRange(tree, path, from, to))
<1> DEFINE alike == AlikeAt(from, to)
           also == AlsoShared(from, to, alike)
           shared == alike + also
           parent == Walked(tree, path, SubSeq(from, 1, shared))
           first == from[shared + 1]
           roman == /\ Len(parent.path) + 1 >= ClauseDepth
                    /\ Append(parent.path, first) \in DOMAIN tree
           members == IF /\ parent.unresolved = <<>>
                         /\ Len(from) = shared + 1 /\ Len(to) = also + 1
                      THEN MembersBetween(first, to[also + 1], roman) ELSE {}
           above == [path |-> parent.path,
                     unresolved |-> parent.unresolved \o SubSeq(from, shared + 1, Len(from))
                                      \o SubSeq(to, also + 1, Len(to))]
           below == {Walked(tree, parent.path, <<m>>) : m \in members}
<1>1. IsList(SubSeq(from, 1, shared))
  <2>1. alike \in 0..(Len(from) - 1)
    BY AlikeAtIs
  <2> HIDE DEF alike
  <2>2. also \in Nat /\ shared < Len(from)
    <3>1. Len(to) \in Nat
      BY DEF IsPath, IsList
    <3> QED BY <2>1, <3>1, AlsoSharedIs
  <2>3. IsList(from) /\ Len(from) \in Nat
    BY DEF IsPath, IsList
  <2> HIDE DEF also
  <2>4. 1 \in 1..(Len(from) + 1) /\ shared \in (1 - 1)..Len(from)
    BY <2>1, <2>2, <2>3
  <2> HIDE DEF shared
  <2> QED BY <2>3, <2>4, PartOfList
<1>2. IsPath(parent.path)
  <2> HIDE DEF shared
  <2> QED BY <1>1, WalkedPath
<1>3. IsFiniteSet(members)
  <2> HIDE DEF parent, first, roman, shared, also
  <2> QED BY MembersAreFinite, FS_EmptySet
<1>4. ReachRange(tree, path, from, to) = IF members = {} THEN {above} ELSE below
  BY DEF ReachRange
<1>5. ArePaths({above})
  <2>1. above.path = parent.path
    <3> HIDE DEF parent, shared, also
    <3> QED OBVIOUS
  <2> HIDE DEF above, parent
  <2>2. IsFiniteSet({above})
    BY FS_Singleton
  <2>3. \A r \in {above} : IsPath(r.path)
    BY <1>2, <2>1
  <2> QED BY <2>2, <2>3 DEF ArePaths
<1>6. ArePaths(below)
  <2> HIDE DEF members, parent
  <2> DEFINE f == [m \in members |-> Walked(tree, parent.path, <<m>>)]
  <2>1. DOMAIN f = members /\ {f[m] : m \in members} = below
    OBVIOUS
  <2> HIDE DEF f
  <2>2. IsFiniteSet({f[m] : m \in members})
    BY <1>3, <2>1, FiniteImage
  <2>3. \A m \in members : IsList(<<m>>)
    <3>1. \A m \in members : <<m>> \in Seq(members)
      OBVIOUS
    <3> QED BY <3>1, ListIs
  <2>4. \A m \in members : IsPath(Walked(tree, parent.path, <<m>>).path)
    BY <1>2, <2>3, WalkedPath
  <2> QED BY <2>1, <2>2, <2>4 DEF ArePaths
<1> HIDE DEF members, above, below
<1> QED BY <1>4, <1>5, <1>6

LEMMA ReachIs ==
  ASSUME NEW tree, NEW path, IsPath(path), NEW written, IsToken(written), written.t = "section"
  PROVE  ArePaths(Reach(tree, path, written))
<1>1. /\ IsList(written.below) /\ IsList(written.to)
      /\ written.to # <<>> => written.below # <<>>
  BY DEF IsToken
<1>2. CASE written.to = <<>>
  <2>1. IsPath(Walked(tree, path, written.below).path)
    BY <1>1, WalkedPath
  <2>2. Reach(tree, path, written) = {Walked(tree, path, written.below)}
    BY <1>2 DEF Reach
  <2>3. IsFiniteSet({Walked(tree, path, written.below)})
    BY FS_Singleton
  <2> QED BY <2>1, <2>2, <2>3 DEF ArePaths
<1>3. CASE written.to # <<>>
  BY <1>1, <1>3, ReachRangeIs DEF Reach, IsPath
<1> QED BY <1>2, <1>3

LEMMA OnePath ==
  ASSUME NEW x
  PROVE  IsPath(<<x>>)
<1>1. <<x>> \in Seq({x}) /\ <<x>> # <<>>
  OBVIOUS
<1> QED BY <1>1, ListIs DEF IsPath

LEMMA ResolvedIs ==
  ASSUME NEW tree, NEW written, IsToken(written), written.t = "section"
  PROVE  ArePaths(Resolved(tree, written))
<1> DEFINE at == SectionOf(written.sec)
           ends == RangeEnds(written) \cap DOMAIN tree
           reached == {[path |-> end, unresolved |-> <<>>] : end \in ends}
<1>1. IsPath(at)
  BY OnePath DEF SectionOf
<1>2. ArePaths({})
  BY FS_EmptySet DEF ArePaths
<1>3. ArePaths(Reach(tree, at, written))
  <2> HIDE DEF at
  <2> QED BY <1>1, ReachIs
<1>4. IsFiniteSet(ends) /\ \A end \in ends : IsPath(end)
  <2> DEFINE f == [i \in DOMAIN written.sec |-> SectionOf(<<written.sec[i]>>)]
  <2>1. IsFiniteSet(DOMAIN written.sec)
    <3>1. Len(written.sec) \in Nat /\ DOMAIN written.sec = 1..Len(written.sec)
      BY DEF IsToken, IsList
    <3> QED BY <3>1, FS_Interval
  <2>2. /\ DOMAIN f = DOMAIN written.sec
        /\ \A end \in RangeEnds(written) : \E i \in DOMAIN written.sec : end = f[i]
    BY DEF RangeEnds, Range
  <2>3. \A i \in DOMAIN written.sec : IsPath(f[i])
    BY OnePath DEF SectionOf
  <2> HIDE DEF f
  <2>4. IsFiniteSet({f[i] : i \in DOMAIN written.sec})
    BY <2>1, <2>2, FiniteImage
  <2>5. ends \subseteq {f[i] : i \in DOMAIN written.sec}
    BY <2>2
  <2> HIDE DEF ends
  <2>6. IsFiniteSet(ends)
    BY <2>4, <2>5, FS_Subset
  <2> QED BY <2>3, <2>5, <2>6
<1>5. ArePaths(reached)
  <2> HIDE DEF ends
  <2> DEFINE g == [end \in ends |-> [path |-> end, unresolved |-> <<>>]]
  <2>1. DOMAIN g = ends /\ {g[end] : end \in ends} = reached
    OBVIOUS
  <2> HIDE DEF g
  <2>2. IsFiniteSet({g[end] : end \in ends})
    BY <1>4, <2>1, FiniteImage
  <2>3. \A r \in reached : IsPath(r.path)
    BY <1>4
  <2> QED BY <2>1, <2>2, <2>3 DEF ArePaths
<1>6. \/ Resolved(tree, written) = {}
      \/ Resolved(tree, written) = Reach(tree, at, written)
      \/ Resolved(tree, written) = reached
  BY DEF Resolved
<1> HIDE DEF at, reached
<1> QED BY <1>2, <1>3, <1>5, <1>6

-----------------------------------------------------------------------------
(* What a text is read as.                                                 *)

IsText(words) == IsList(words) /\ \A i \in DOMAIN words : IsToken(words[i])

\* The sections a citation was read with are sections, and finitely many.
IsRead(c) ==
  /\ IsFiniteSet(DOMAIN c.sections)
  /\ \A k \in DOMAIN c.sections : IsToken(c.sections[k]) /\ c.sections[k].t = "section"

AreRead(citations) == IsFiniteSet(citations) /\ \A c \in citations : IsRead(c)

LEMMA ListEndIs ==
  ASSUME NEW words, IsList(words), NEW at, Is(words, at, "section")
  PROVE  /\ ListEnd(words, at) \in {at + 2 * k : k \in 0..Len(words)}
         /\ \A k \in 0..Len(words) : at + 2 * k <= ListEnd(words, at) => Is(words, at + 2 * k, "section")
<1> DEFINE T == {k \in 0..Len(words) : ~Further(words, at + 2 * k)}
           ends(n) == /\ ~ Further(words, n)
                      /\ \A k \in 0..Len(words) : at + 2 * k < n => Further(words, at + 2 * k)
           found == {at + 2 * k : k \in 0..Len(words)}
<1>1. Len(words) \in Nat /\ DOMAIN words = 1..Len(words) /\ at \in 1..Len(words)
  BY DEF IsList, Is
<1>2. T \in SUBSET Nat /\ Len(words) \in T
  BY <1>1 DEF Further, Is
<1>3. PICK n \in T : \A k \in T : n <= k
  <2> HIDE DEF T
  <2> QED BY <1>2, LeastMember
<1>4. ASSUME NEW k \in 0..Len(words), k < n PROVE Further(words, at + 2 * k)
  <2>1. k \notin T
    <3>1. k \in Nat /\ n \in Nat /\ ~(n <= k)
      BY <1>1, <1>3, <1>4
    <3> HIDE DEF T
    <3> QED BY <1>3, <3>1
  <2> QED BY <2>1
<1>5. at + 2 * n \in found /\ ends(at + 2 * n)
  <2>1. \A k \in 0..Len(words) : at + 2 * k < at + 2 * n => k < n
    BY <1>1, <1>3
  <2> QED BY <1>3, <1>4, <2>1
<1> DEFINE end == ListEnd(words, at)
<1>6. end = CHOOSE m \in found : ends(m)
  BY DEF ListEnd
<1>7. end \in found /\ ends(end)
  <2> HIDE DEF ends, found, end
  <2> QED BY <1>5, <1>6
<1>8. ASSUME NEW k \in 0..Len(words), at + 2 * k <= end
      PROVE  Is(words, at + 2 * k, "section")
  <2>1. CASE k = 0
    BY <1>1, <2>1
  <2>2. CASE k # 0
    <3>1. /\ k - 1 \in 0..Len(words) /\ at + 2 * (k - 1) < end
          /\ at + 2 * (k - 1) + 2 = at + 2 * k
      <4>1. PICK j \in 0..Len(words) : end = at + 2 * j
        BY <1>7
      <4> HIDE DEF end
      <4> QED BY <1>1, <1>8, <2>2, <4>1
    <3>2. Further(words, at + 2 * (k - 1))
      <4> HIDE DEF end
      <4> QED BY <1>7, <3>1
    <3> QED BY <3>1, <3>2 DEF Further
  <2> QED BY <2>1, <2>2
<1> QED BY <1>7, <1>8

LEMMA SectionsReadIs ==
  ASSUME NEW words, IsText(words), NEW at, Is(words, at, "section"),
         NEW end \in {at, ListEnd(words, at)}
  PROVE  IsRead([sections |-> SectionsRead(words, at, end)])
<1> DEFINE sections == SectionsRead(words, at, end)
<1>1. IsList(words) /\ Len(words) \in Nat /\ at \in 1..Len(words)
  BY DEF IsText, IsList, Is
<1>2. PICK j \in 0..Len(words) :
        /\ end = at + 2 * j
        /\ \A k \in 0..j : Is(words, at + 2 * k, "section")
  <2>1. CASE end = at
    BY <1>1, <2>1
  <2>2. CASE end = ListEnd(words, at)
    <3>1. /\ end \in {at + 2 * k : k \in 0..Len(words)}
          /\ \A k \in 0..Len(words) : at + 2 * k <= end => Is(words, at + 2 * k, "section")
      BY <1>1, <2>2, ListEndIs
    <3>2. PICK j \in 0..Len(words) : end = at + 2 * j
      BY <3>1
    <3>3. \A k \in 0..j : k \in 0..Len(words) /\ at + 2 * k <= at + 2 * j
      BY <1>1
    <3>4. \A k \in 0..j : Is(words, at + 2 * k, "section")
      BY <3>1, <3>2, <3>3
    <3> QED BY <3>2, <3>4
  <2> QED BY <2>1, <2>2
<1>3. (end - at) \div 2 + 1 = j + 1
  BY <1>1, <1>2
<1>4. sections = [k \in 1..(j + 1) |-> words[at + 2 * (k - 1)]]
  BY <1>3 DEF SectionsRead
<1>5. \A k \in 1..(j + 1) : Is(words, at + 2 * (k - 1), "section")
  <2>1. \A k \in 1..(j + 1) : k - 1 \in 0..j
    BY <1>1
  <2> QED BY <1>2, <2>1
<1>6. IsFiniteSet(1..(j + 1))
  BY FS_Interval
<1> HIDE DEF sections
<1>7. DOMAIN sections = 1..(j + 1) /\ \A k \in 1..(j + 1) : sections[k] = words[at + 2 * (k - 1)]
  BY <1>4
<1> QED BY <1>5, <1>6, <1>7 DEF IsRead, IsText, Is, sections

LEMMA TokenIs ==
  ASSUME NEW token, IsToken(token)
  PROVE  /\ \A taken : IsToken(WithoutMark(token, taken))
         /\ token.t = "section" =>
              /\ IsToken([token EXCEPT !.to = <<>>])
              /\ [token EXCEPT !.to = <<>>].t = "section"
<1>1. CASE token.t # "section"
  BY <1>1 DEF WithoutMark
<1>2. CASE token.t = "section"
  <2> DEFINE sec == token.sec
             below == token.below
             to == token.to
             form == token.form
             label == token.label
  <2>1. /\ token = Section(sec, below, to, form, label)
        /\ IsList(sec) /\ IsList(below) /\ IsList(to)
        /\ to # <<>> => below # <<>>
    BY <1>2 DEF IsToken
  <2>2. ASSUME NEW sharper
        PROVE  /\ [token EXCEPT !.form = sharper] = Section(sec, below, to, sharper, label)
               /\ IsToken(Section(sec, below, to, sharper, label))
    <3> HIDE DEF sec, below, to, form, label
    <3> QED BY <2>1 DEF Section, IsToken
  <2>3. \A taken : IsToken(WithoutMark(token, taken))
    <3> HIDE DEF sec, below, to, form, label
    <3> QED BY <1>2, <2>2 DEF WithoutMark
  <2>4. /\ [token EXCEPT !.to = <<>>] = Section(sec, below, <<>>, form, label)
        /\ IsToken(Section(sec, below, <<>>, form, label))
    <3>1. IsList(<<>>)
      BY DEF IsList
    <3> HIDE DEF sec, below, to, form, label
    <3> QED BY <2>1, <3>1 DEF Section, IsToken
  <2>5. Section(sec, below, <<>>, form, label).t = "section"
    BY DEF Section
  <2> QED BY <2>3, <2>4, <2>5
<1> QED BY <1>1, <1>2

LEMMA CitationsRead ==
  ASSUME NEW words, IsText(words)
  PROVE  AreRead(ReadCitations(words))
<1> DEFINE begun == {i \in DOMAIN words : IsCitation(words, i)}
           f == [i \in begun |-> ReadCitation(words, i)]
<1>1. IsFiniteSet(begun)
  <2>1. Len(words) \in Nat /\ DOMAIN words = 1..Len(words)
    BY DEF IsText, IsList
  <2>2. IsFiniteSet(DOMAIN words)
    BY <2>1, FS_Interval
  <2> QED BY <2>2, FS_Subset
<1>2. DOMAIN f = begun /\ {f[i] : i \in begun} = ReadCitations(words)
  BY DEF ReadCitations
<1>3. IsFiniteSet(ReadCitations(words))
  <2> HIDE DEF f, begun
  <2> QED BY <1>1, <1>2, FiniteImage
<1>4. ASSUME NEW i \in begun PROVE IsRead(ReadCitation(words, i))
  <2> DEFINE at == FirstSection(words, i)
             short == at = i + 2 /\ words[at].to # <<>>
             end == IF short THEN at ELSE ListEnd(words, at)
             sections == IF short THEN <<[words[at] EXCEPT !.to = <<>>]>>
                         ELSE SectionsRead(words, at, end)
  <2>1. Is(words, at, "section")
    BY <1>4 DEF IsCitation
  <2>2. ReadCitation(words, i).sections = sections
    BY DEF ReadCitation
  <2>3. CASE ~short
    <3>1. end = ListEnd(words, at) /\ sections = SectionsRead(words, at, end)
      BY <2>3
    <3> HIDE DEF at, short, end, sections
    <3>2. IsRead([sections |-> SectionsRead(words, at, end)])
      BY <2>1, <3>1, SectionsReadIs
    <3> QED BY <2>2, <3>1, <3>2 DEF IsRead
  <2>4. CASE short
    <3> DEFINE one == [words[at] EXCEPT !.to = <<>>]
    <3>1. sections = <<one>>
      BY <2>4
    <3>2. IsToken(one) /\ one.t = "section"
      <4> HIDE DEF at
      <4> QED BY <2>1, TokenIs DEF IsText, Is
    <3>3. IsFiniteSet(1..1)
      BY 1..1 = {1}, FS_Singleton
    <3> HIDE DEF sections, one
    <3>4. DOMAIN sections = 1..1 /\ sections[1] = one
      BY <3>1
    <3> QED BY <2>2, <3>2, <3>3, <3>4 DEF IsRead
  <2> QED BY <2>3, <2>4
<1>5. \A c \in ReadCitations(words) : IsRead(c)
  BY <1>4 DEF ReadCitations
<1> QED BY <1>3, <1>5 DEF AreRead

LEMMA BareIsRead ==
  ASSUME NEW words, IsText(words), NEW i, NEW at, Is(words, at, "section"), NEW default
  PROVE  IsRead(BareReference(words, i, at, default))
<1> DEFINE end == IF words[at - 1].plural THEN ListEnd(words, at) ELSE at
<1>1. BareReference(words, i, at, default).sections = SectionsRead(words, at, end)
  BY DEF BareReference
<1>2. end \in {at, ListEnd(words, at)}
  OBVIOUS
<1> HIDE DEF end
<1>3. IsRead([sections |-> SectionsRead(words, at, end)])
  BY <1>2, SectionsReadIs
<1> QED BY <1>1, <1>3 DEF IsRead

LEMMA BareAreRead ==
  ASSUME NEW words, IsText(words), NEW default, NEW read
  PROVE  AreRead(FindBare(words, default, read))
<1>1. IsFiniteSet(DOMAIN words)
  <2>1. Len(words) \in Nat /\ DOMAIN words = 1..Len(words)
    BY DEF IsText, IsList
  <2> QED BY <2>1, FS_Interval
<1>2. ASSUME NEW begun \in SUBSET DOMAIN words, NEW n \in {1, 2}, NEW seen,
             \A i \in begun : Reads(words, i, i + n, seen)
      PROVE  AreRead({c \in {BareReference(words, i, i + n, default) : i \in begun} : NoRegulation(c)})
  <2> DEFINE f == [i \in begun |-> BareReference(words, i, i + n, default)]
             all == {BareReference(words, i, i + n, default) : i \in begun}
  <2>1. IsFiniteSet(begun)
    BY <1>1, FS_Subset
  <2>2. DOMAIN f = begun /\ {f[i] : i \in begun} = all
    OBVIOUS
  <2>3. IsFiniteSet(all)
    <3> HIDE DEF f, all
    <3> QED BY <2>1, <2>2, FiniteImage
  <2>4. \A i \in begun : IsRead(BareReference(words, i, i + n, default))
    BY <1>2, BareIsRead DEF Reads
  <2>5. \A c \in all : IsRead(c)
    BY <2>4
  <2> HIDE DEF all
  <2>6. IsFiniteSet({c \in all : NoRegulation(c)})
    BY <2>3, FS_Subset
  <2> QED BY <2>5, <2>6 DEF AreRead, all
<1>3. ASSUME NEW seen PROVE AreRead(NamedReferences(words, default, seen))
  <2> DEFINE begun == {j \in DOMAIN words : Is(words, j, "irc") /\ Reads(words, j, j + 2, seen)}
  <2>1. begun \in SUBSET DOMAIN words /\ \A i \in begun : Reads(words, i, i + 2, seen)
    OBVIOUS
  <2>2. NamedReferences(words, default, seen)
          = {c \in {BareReference(words, i, i + 2, default) : i \in begun} : NoRegulation(c)}
    BY DEF NamedReferences
  <2> HIDE DEF begun
  <2> QED BY <1>2, <2>1, <2>2
<1>4. ASSUME NEW seen PROVE AreRead(BareReferences(words, default, seen))
  <2> DEFINE begun == {j \in DOMAIN words :
                         /\ Is(words, j, "marker") /\ words[j].word
                         /\ Reads(words, j, j + 1, seen)
                         /\ ~ NamesAnotherLaw(words, j, j + 1)}
  <2>1. begun \in SUBSET DOMAIN words /\ \A i \in begun : Reads(words, i, i + 1, seen)
    OBVIOUS
  <2>2. BareReferences(words, default, seen)
          = {c \in {BareReference(words, i, i + 1, default) : i \in begun} : NoRegulation(c)}
    BY DEF BareReferences
  <2> HIDE DEF begun
  <2> QED BY <1>2, <2>1, <2>2
<1> DEFINE named == NamedReferences(words, default, read)
           bare == BareReferences(words, default, read \cup named)
<1>5. FindBare(words, default, read) \in {named, named \cup bare}
  BY DEF FindBare
<1>6. AreRead(named) /\ AreRead(bare)
  BY <1>3, <1>4
<1> HIDE DEF named, bare
<1>7. AreRead(named \cup bare)
  BY <1>6, FS_Union DEF AreRead
<1> QED BY <1>5, <1>6, <1>7

LEMMA TextIsRead ==
  ASSUME NEW words, IsText(words), NEW default
  PROVE  AreRead(ReadText(words, default))
<1> DEFINE read == ReadCitations(words)
           bare == FindBare(words, default, read)
<1>1. ReadText(words, default) \in {read, read \cup bare}
  BY DEF ReadText
<1>2. AreRead(read) /\ AreRead(bare)
  BY CitationsRead, BareAreRead
<1> HIDE DEF read, bare
<1>3. AreRead(read \cup bare)
  BY <1>2, FS_Union DEF AreRead
<1> QED BY <1>1, <1>2, <1>3

ArePassages(passages) == IsList(passages) /\ \A k \in DOMAIN passages : IsText(passages[k].words)

LEMMA JoinedIsText ==
  ASSUME NEW passages, ArePassages(passages)
  PROVE  IsText(Joined(passages))
<1> DEFINE S == UNION {Range(passages[k].words) : k \in DOMAIN passages}
           seqs == [k \in DOMAIN passages |-> passages[k].words]
<1>1. Len(passages) \in Nat /\ DOMAIN passages = 1..Len(passages)
  BY DEF ArePassages, IsList
<1>2. \A k \in DOMAIN passages : passages[k].words \in Seq(S)
  <2>1. ASSUME NEW k \in DOMAIN passages PROVE passages[k].words \in Seq(S)
    <3> DEFINE words == passages[k].words
    <3>1. words \in Seq(Range(words))
      BY DEF ArePassages, IsText, IsList
    <3>2. Range(words) \subseteq S
      OBVIOUS
    <3> HIDE DEF words, S
    <3> QED BY <3>1, <3>2 DEF words
  <2> QED BY <2>1
<1>3. \A x \in S : IsToken(x)
  <2>1. \A k \in DOMAIN passages : \A x \in Range(passages[k].words) : IsToken(x)
    BY DEF ArePassages, IsText, Range
  <2> QED BY <2>1
<1> HIDE DEF S
<1>4. seqs \in Seq(Seq(S))
  BY <1>1, <1>2
<1>5. Joined(passages) = FlattenSeq(seqs)
  BY DEF Joined
<1> HIDE DEF seqs
<1>6. Joined(passages) \in Seq(S)
  BY <1>4, <1>5, FlattenSeqIs
<1>7. \A i \in DOMAIN Joined(passages) : Joined(passages)[i] \in S
  BY <1>6
<1> QED BY <1>3, <1>6, <1>7, ListIs DEF IsText

LEMMA WithoutMarksIsText ==
  ASSUME NEW words, IsText(words), NEW labels
  PROVE  IsText(WithoutFootnoteMarks(words, labels))
<1> DEFINE clean == WithoutFootnoteMarks(words, labels)
           taken(i) == MarkStands(words, i) /\ words[i].label \in labels
           S == {WithoutMark(words[i], taken(i)) : i \in DOMAIN words}
<1>1. Len(words) \in Nat /\ DOMAIN words = 1..Len(words)
  BY DEF IsText, IsList
<1>2. clean = [i \in DOMAIN words |-> WithoutMark(words[i], taken(i))]
  BY DEF WithoutFootnoteMarks
<1>3. \A i \in DOMAIN words : IsToken(WithoutMark(words[i], taken(i)))
  BY TokenIs DEF IsText
<1> HIDE DEF clean, taken
<1>4. clean \in Seq(S)
  BY <1>1, <1>2
<1>5. \A i \in DOMAIN clean : IsToken(clean[i])
  BY <1>2, <1>3
<1>6. IsList(clean)
  BY <1>4, ListIs
<1> QED BY <1>5, <1>6 DEF IsText, clean

LEMMA PassagesAreRead ==
  ASSUME NEW passages, ArePassages(passages), NEW default
  PROVE  /\ DOMAIN CitationsByPassage(passages, default) = DOMAIN passages
         /\ \A k \in DOMAIN passages : AreRead(CitationsByPassage(passages, default)[k])
<1> DEFINE read == ReadText(WithoutFootnoteMarks(Joined(passages), Labels(passages)), default)
<1>1. AreRead(read)
  BY JoinedIsText, WithoutMarksIsText, TextIsRead
<1>2. CitationsByPassage(passages, default)
        = [k \in DOMAIN passages |-> {c \in read : PassageOf(passages, c.start) = k}]
  BY DEF CitationsByPassage
<1> HIDE DEF read
<1>3. ASSUME NEW k \in DOMAIN passages
      PROVE  AreRead({c \in read : PassageOf(passages, c.start) = k})
  <2> DEFINE part == {c \in read : PassageOf(passages, c.start) = k}
  <2>1. IsFiniteSet(part)
    BY <1>1, FS_Subset DEF AreRead
  <2> QED BY <1>1, <2>1 DEF AreRead
<1> QED BY <1>2, <1>3

(* Each passage of a case, with the citations that begin in it.            *)
LEMMA CaseIsRead ==
  ASSUME NEW c \in Case, NEW said \in Texts[c]
  PROVE  /\ IsFiniteSet(PassagesIn(c, said))
         /\ \A p \in PassagesIn(c, said) : p[1][1] = c /\ AreRead(p[2])
<1> DEFINE writings == said.writings
           default == DefaultOfCase([w \in DOMAIN writings |-> Joined(writings[w])])
           read(w) == CitationsByPassage(writings[w], default)
           of(w) == {<< <<c, w, k>>, read(w)[k] >> : k \in DOMAIN writings[w]}
<1>1. /\ IsList(writings)
      /\ \A w \in DOMAIN writings : ArePassages(writings[w])
  BY TextsAssumption DEF ArePassages, IsText
<1>2. PassagesIn(c, said) = UNION {of(w) : w \in DOMAIN writings}
  BY DEF PassagesIn
<1> HIDE DEF writings, default
<1>3. ASSUME NEW w \in DOMAIN writings
      PROVE  IsFiniteSet(of(w)) /\ \A p \in of(w) : p[1][1] = c /\ AreRead(p[2])
  <2>1. \A k \in DOMAIN writings[w] : AreRead(read(w)[k])
    BY <1>1, PassagesAreRead
  <2>2. Len(writings[w]) \in Nat /\ DOMAIN writings[w] = 1..Len(writings[w])
    BY <1>1 DEF ArePassages, IsList
  <2>3. IsFiniteSet(DOMAIN writings[w])
    BY <2>2, FS_Interval
  <2> HIDE DEF read
  <2> DEFINE f == [k \in DOMAIN writings[w] |-> << <<c, w, k>>, read(w)[k] >>]
  <2>4. DOMAIN f = DOMAIN writings[w] /\ {f[k] : k \in DOMAIN writings[w]} = of(w)
    OBVIOUS
  <2> HIDE DEF f
  <2>5. IsFiniteSet(of(w))
    <3> HIDE DEF of
    <3> QED BY <2>3, <2>4, FiniteImage
  <2> QED BY <2>1, <2>5
<1>4. IsFiniteSet(UNION {of(w) : w \in DOMAIN writings})
  <2>1. Len(writings) \in Nat /\ DOMAIN writings = 1..Len(writings)
    BY <1>1 DEF IsList
  <2>2. IsFiniteSet(DOMAIN writings)
    BY <2>1, FS_Interval
  <2> HIDE DEF of
  <2> DEFINE f == [w \in DOMAIN writings |-> of(w)]
  <2>3. DOMAIN f = DOMAIN writings /\ {f[w] : w \in DOMAIN writings} = {of(w) : w \in DOMAIN writings}
    OBVIOUS
  <2> HIDE DEF f
  <2>4. IsFiniteSet({of(w) : w \in DOMAIN writings})
    BY <2>2, <2>3, FiniteImage
  <2> QED BY <1>3, <2>4, FS_UNION
<1> HIDE DEF of
<1> QED BY <1>2, <1>3, <1>4

-----------------------------------------------------------------------------
(* What a citation is linked to.                                           *)

LEMMA PlacesAre ==
  ASSUME NEW tree, NEW citation, IsRead(citation)
  PROVE  /\ IsFiniteSet(PlacesOf(tree, citation))
         /\ \A q \in PlacesOf(tree, citation) : IsPath(q.object)
<1> DEFINE sections == citation.sections
           place(k, r) == [object |-> r.path,
                           place |-> [start |-> citation.start, written |-> sections[k],
                                      unresolved |-> r.unresolved, edition |-> citation.edition],
                           basis |-> citation.basis]
           of(k) == {place(k, r) : r \in Resolved(tree, sections[k])}
<1>1. \A k \in DOMAIN sections : ArePaths(Resolved(tree, sections[k]))
  BY ResolvedIs DEF IsRead
<1>2. PlacesOf(tree, citation) = UNION {of(k) : k \in DOMAIN sections}
  BY DEF PlacesOf
<1>3. IsFiniteSet(DOMAIN sections)
  BY DEF IsRead
<1>4. \A k, r : place(k, r).object = r.path
  OBVIOUS
<1> HIDE DEF sections, place
<1>5. ASSUME NEW k \in DOMAIN sections
      PROVE  IsFiniteSet(of(k)) /\ \A q \in of(k) : IsPath(q.object)
  <2> DEFINE R == Resolved(tree, sections[k])
             f == [r \in R |-> place(k, r)]
  <2>1. DOMAIN f = R /\ {f[r] : r \in R} = of(k)
    OBVIOUS
  <2>2. IsFiniteSet(R) /\ \A r \in R : IsPath(r.path)
    BY <1>1 DEF ArePaths
  <2>3. \A q \in of(k) : IsPath(q.object)
    BY <1>4, <2>2
  <2> HIDE DEF f, R
  <2>4. IsFiniteSet({f[r] : r \in R})
    BY <2>1, <2>2, FiniteImage
  <2> QED BY <2>1, <2>3, <2>4
<1> HIDE DEF of
<1> DEFINE g == [k \in DOMAIN sections |-> of(k)]
<1>6. DOMAIN g = DOMAIN sections /\ {g[k] : k \in DOMAIN sections} = {of(k) : k \in DOMAIN sections}
  OBVIOUS
<1> HIDE DEF g
<1>7. IsFiniteSet({of(k) : k \in DOMAIN sections})
  BY <1>3, <1>6, FiniteImage
<1>8. IsFiniteSet(UNION {of(k) : k \in DOMAIN sections})
  BY <1>5, <1>7, FS_UNION
<1> QED BY <1>2, <1>5, <1>8

\* The link is of a provision that the citations lead to in the tree, and each
\* of its places is of one of them that leads there.
IsLinked(link, tree, citations) ==
  /\ IsPath(link.object)
  /\ \A p \in link.places : \E d \in citations :
       /\ d.title = Title
       /\ \E q \in PlacesOf(tree, d) : q.object = link.object /\ q.place = p

LEMMA LinksAre ==
  ASSUME NEW subject, NEW citations, AreRead(citations), NEW stored, NEW decided,
         NEW found, found = CitesLinksIn(subject, citations, stored, decided),
         NEW printed, printed = PrintingFor(DOMAIN stored, decided)
  PROVE  /\ IsFiniteSet(found)
         /\ \A l \in found :
              /\ l.subject = subject /\ l.printed = printed /\ l.decided = decided
              /\ stored # <<>>
              /\ IsLinked(l, stored[printed], citations)
         /\ stored # <<>> =>
              \A d \in citations : \A q \in PlacesOf(stored[printed], d) :
                d.title = Title => \E l \in found : l.object = q.object
<1> DEFINE cited == {d \in citations : InScope(stored, d.title)}
           places == UNION {PlacesOf(stored[printed], d) : d \in cited}
           objects == {p.object : p \in places}
           link(o) == [subject |-> subject, object |-> o,
                       places |-> {p.place : p \in {q \in places : q.object = o}},
                       basis |-> {p.basis : p \in {q \in places : q.object = o}} \ {None},
                       decided |-> decided, printed |-> printed, after |-> printed > decided]
           all == {link(o) : o \in objects}
<1>1. found = all
  BY DEF CitesLinksIn, IntoLinks
<1>2. IsFiniteSet(cited) /\ \A d \in cited : IsRead(d) /\ d.title = Title /\ stored # <<>>
  BY FS_Subset DEF AreRead, InScope
<1>3. IsFiniteSet(places) /\ \A q \in places : IsPath(q.object)
  <2> HIDE DEF cited
  <2> DEFINE g == [d \in cited |-> PlacesOf(stored[printed], d)]
  <2>1. DOMAIN g = cited /\ {g[d] : d \in cited} = {PlacesOf(stored[printed], d) : d \in cited}
    OBVIOUS
  <2> HIDE DEF g
  <2>2. IsFiniteSet({PlacesOf(stored[printed], d) : d \in cited})
    <3>1. IsFiniteSet(cited)
      BY <1>2
    <3>2. IsFiniteSet({g[d] : d \in cited})
      BY <2>1, <3>1, FiniteImage
    <3> QED BY <2>1, <3>2
  <2>3. \A d \in cited : /\ IsFiniteSet(PlacesOf(stored[printed], d))
                         /\ \A q \in PlacesOf(stored[printed], d) : IsPath(q.object)
    BY <1>2, PlacesAre
  <2>4. IsFiniteSet(UNION {PlacesOf(stored[printed], d) : d \in cited})
    BY <2>2, <2>3, FS_UNION
  <2> QED BY <2>3, <2>4
<1>4. IsFiniteSet(found)
  <2> HIDE DEF places, link
  <2> DEFINE f == [p \in places |-> link(p.object)]
  <2>1. DOMAIN f = places /\ {f[p] : p \in places} = found
    BY <1>1
  <2> HIDE DEF f
  <2> QED BY <1>3, <2>1, FiniteImage
<1>5. ASSUME NEW l \in found
      PROVE  /\ l.subject = subject /\ l.printed = printed /\ l.decided = decided
             /\ stored # <<>>
             /\ IsLinked(l, stored[printed], citations)
  <2>1. PICK o \in objects : l = link(o)
    BY <1>1
  <2>2. /\ l.subject = subject /\ l.printed = printed /\ l.decided = decided /\ l.object = o
        /\ l.places = {p.place : p \in {q \in places : q.object = o}}
    BY <2>1
  <2>3. PICK q \in places : q.object = o
    BY <2>1
  <2>4. \A p \in places : \E d \in cited : p \in PlacesOf(stored[printed], d)
    OBVIOUS
  <2>5. \A d \in cited : d \in citations
    OBVIOUS
  <2> HIDE DEF places, cited, link, objects
  <2>6. stored # <<>> /\ IsPath(l.object)
    BY <1>2, <1>3, <2>2, <2>3, <2>4
  <2>7. ASSUME NEW p \in l.places
        PROVE  \E d \in citations :
                 /\ d.title = Title
                 /\ \E r \in PlacesOf(stored[printed], d) : r.object = l.object /\ r.place = p
    <3>1. PICK r \in places : r.object = o /\ r.place = p
      BY <2>2
    <3>2. PICK d \in cited : r \in PlacesOf(stored[printed], d)
      BY <2>4
    <3> QED BY <1>2, <2>2, <2>5, <3>1, <3>2
  <2> QED BY <2>2, <2>6, <2>7 DEF IsLinked
<1>6. ASSUME stored # <<>>, NEW d \in citations, NEW q \in PlacesOf(stored[printed], d), d.title = Title
      PROVE  \E l \in found : l.object = q.object
  <2>1. d \in cited
    BY <1>6 DEF InScope
  <2>2. q.object \in objects
    BY <2>1
  <2>3. link(q.object) \in found /\ link(q.object).object = q.object
    BY <1>1, <2>2
  <2> HIDE DEF link
  <2> QED BY <2>3
<1> QED BY <1>4, <1>5, <1>6

-----------------------------------------------------------------------------
(* How a link stands to a path.                                            *)

LEMMA PrefixIs ==
  ASSUME NEW p, IsPath(p), NEW q, IsPath(q)
  PROVE  /\ Covers(p, q) <=> /\ Len(p) <= Len(q)
                             /\ \A i \in 1..Len(p) : p[i] = q[i]
         /\ Covers(SectionPath(p), q) <=> p[1] = q[1]
         /\ IsPath(SectionPath(p)) /\ SectionPath(p)[1] = p[1]
<1> DEFINE S == Range(p) \cup Range(q)
<1>1. p \in Seq(S) /\ q \in Seq(S) /\ p # <<>> /\ q # <<>>
  BY DEF IsPath, IsList
<1> HIDE DEF S
<1>2. ASSUME NEW s \in Seq(S)
      PROVE  Covers(s, q) <=> /\ Len(s) <= Len(q) /\ \A i \in 1..Len(s) : s[i] = q[i]
  <2>1. Covers(s, q) <=> Len(s) <= Len(q) /\ SubSeq(s, 1, Len(s)) = SubSeq(q, 1, Len(s))
    BY DEF Covers, IsPrefix
  <2>2. SubSeq(s, 1, Len(s)) = s
    BY <1>2
  <2>3. ASSUME Len(s) <= Len(q)
        PROVE  s = SubSeq(q, 1, Len(s)) <=> \A i \in 1..Len(s) : s[i] = q[i]
    <3>1. /\ SubSeq(q, 1, Len(s)) \in Seq(S) /\ Len(SubSeq(q, 1, Len(s))) = Len(s)
          /\ \A i \in 1..Len(s) : SubSeq(q, 1, Len(s))[i] = q[i]
      BY <1>1, <2>3
    <3> DEFINE part == SubSeq(q, 1, Len(s))
    <3> HIDE DEF part
    <3>2. s = part <=> \A i \in 1..Len(s) : s[i] = part[i]
      BY <3>1 DEF part
    <3> QED BY <3>1, <3>2 DEF part
  <2> QED BY <2>1, <2>2, <2>3
<1>3. <<p[1]>> \in Seq(S) /\ Len(<<p[1]>>) = 1 /\ <<p[1]>>[1] = p[1] /\ 1 <= Len(q)
  BY <1>1
<1>4. Covers(SectionPath(p), q) <=> p[1] = q[1]
  BY <1>2, <1>3 DEF SectionPath
<1>5. IsPath(SectionPath(p)) /\ SectionPath(p)[1] = p[1]
  BY OnePath DEF SectionPath
<1> QED BY <1>1, <1>2, <1>4, <1>5

(* A citation is told of a path only when the path covers it, or it the    *)
(* path; and of what is within the path only when the path covers it.      *)
LEMMA RelationIs ==
  ASSUME NEW stored, NEW object, IsPath(object), NEW asked, IsPath(asked)
  PROVE  /\ Comparable(asked, object) => RelationTo(stored, object, asked) # "none"
         /\ RelationTo(stored, object, asked) = "within" => Covers(asked, object)
<1> DEFINE section == SectionPath(object)
           holding == {d \in DOMAIN stored : section \in DOMAIN stored[d]}
           reached == Leads(stored[Max(holding)], object)
<1>1. Covers(asked, section) => Covers(asked, object)
  <2>1. IsPath(section) /\ section[1] = object[1] /\ Len(section) = 1
    BY PrefixIs DEF SectionPath
  <2> HIDE DEF section
  <2>2. Len(asked) \in Nat /\ Len(object) \in Nat /\ object # <<>>
    BY DEF IsPath, IsList
  <2>3. Len(object) # 0
    BY <2>2 DEF IsPath, IsList
  <2> QED BY <2>1, <2>2, <2>3, PrefixIs
<1>2. Whole(reached) => reached.path = object
  <2> DEFINE tree == stored[Max(holding)]
  <2> HIDE DEF tree
  <2>1. IsPath(section) /\ IsList(Written(object)) /\ section \o Written(object) = object
    <3>1. object \in Seq(Range(object)) /\ object # <<>>
      BY DEF IsPath, IsList
    <3>2. Tail(object) \in Seq(Range(object)) /\ <<object[1]>> \o Tail(object) = object
      BY <3>1
    <3> QED BY <3>2, ListIs, OnePath DEF Written, SectionPath
  <2>2. Leads(tree, object) = Walked(tree, section, Written(object))
    BY DEF Leads
  <2> HIDE DEF section
  <2> DEFINE rest == Written(object)
  <2> HIDE DEF rest
  <2>4. Whole(Walked(tree, section, rest)) => Walked(tree, section, rest).path = section \o rest
    BY <2>1, WalkedPath DEF rest
  <2>3. Whole(Leads(tree, object)) => Leads(tree, object).path = object
    BY <2>1, <2>2, <2>4 DEF rest
  <2> QED BY <2>3 DEF tree, section
<1>3. RelationTo(stored, object, asked) =
        IF Covers(asked, section) THEN "within"
        ELSE IF holding = {} \/ object = section \/ ~ Whole(reached) THEN "holds"
        ELSE IF Covers(asked, reached.path) THEN "within"
        ELSE IF Covers(reached.path, asked) THEN "holds"
        ELSE "none"
  BY DEF RelationTo
<1> HIDE DEF section, holding, reached
<1> QED BY <1>1, <1>2, <1>3 DEF Comparable

-----------------------------------------------------------------------------
(* The dataset.                                                            *)

Types ==
  /\ \A c \in Case : text[c] \in Texts[c]
  /\ DOMAIN printings \subseteq Date /\ IsFiniteSet(DOMAIN printings)
  /\ printings \in [DOMAIN printings -> Trees]

\* The link is one that the words of its case lead to in the printing it names.
Linked(l) ==
  \E c \in Case : \E p \in PassagesOf(c) :
    /\ l.subject = p[1] /\ l.decided = Decided[c]
    /\ l.printed \in DOMAIN printings
    /\ IsLinked(l, printings[l.printed], p[2])

RunIs ==
  \/ run = Idle
  \/ /\ run = [stage |-> "store", cases |-> run.cases, next |-> run.next]
     /\ run.cases \in Orders /\ run.next \in Nat \ {0}
  \/ /\ run = [stage |-> "link", cases |-> run.cases, dates |-> run.dates, todo |-> run.todo]
     /\ run.cases \in Orders /\ run.dates \subseteq DOMAIN printings
     /\ IsList(run.todo) /\ \A l \in Range(run.todo) : Linked(l)

\* Every link of the case, in the printings now held, is among those found.
Complete(c, found) == \A l \in LinksOf(c) : \E k \in found : Id(k) = Id(l)

\* The case was linked in no printing that is not held; and it was linked in
\* every one that is only when nothing came since.
AllLinked ==
  /\ \A c \in Case : /\ linked[c] \subseteq DOMAIN printings
                     /\ linked[c] = DOMAIN printings => Complete(c, links)
  /\ run.stage = "link" /\ run.dates = DOMAIN printings =>
       \A c \in Range(run.cases) : Complete(c, links \cup Range(run.todo))

IInv == Types /\ held \subseteq Case /\ RunIs /\ (\A l \in links : Linked(l)) /\ AllLinked

LEMMA HeldIs ==
  ASSUME Types
  PROVE  /\ DOMAIN printings \in SUBSET Nat /\ IsFiniteSet(DOMAIN printings)
         /\ printings # <<>> <=> DOMAIN printings # {}
         /\ \A d \in DOMAIN printings : printings[d] \in Trees
<1>1. DOMAIN printings \in SUBSET Nat
  BY DateAssumption DEF Types
<1>2. ASSUME DOMAIN printings = {} PROVE printings = <<>>
  <2> DEFINE none == [d \in {} |-> d]
  <2>1. \A f : DOMAIN f = {} /\ f \in [{} -> Trees] => f = none
    OBVIOUS
  <2>2. <<>> \in [{} -> Trees] /\ DOMAIN <<>> = {}
    OBVIOUS
  <2> HIDE DEF none
  <2>3. <<>> = none /\ printings = none
    BY <1>2, <2>1, <2>2 DEF Types
  <2> QED BY <2>3
<1>3. printings = <<>> => DOMAIN printings = {}
  OBVIOUS
<1> QED BY <1>1, <1>2, <1>3 DEF Types

LEMMA PrintingForIs ==
  ASSUME NEW dates \in SUBSET Nat, IsFiniteSet(dates), dates # {}, NEW decided \in Nat
  PROVE  /\ PrintingFor(dates, decided) \in dates
         /\ \A d \in dates : d > PrintingFor(dates, decided) => d > decided
<1> DEFINE before == {d \in dates : d <= decided}
<1>1. CASE \E d \in dates : d <= decided
  <2>1. before \in SUBSET Nat /\ before # {} /\ IsFiniteSet(before)
    BY <1>1, FS_Subset
  <2>2. PrintingFor(dates, decided) = Max(before)
    BY <1>1 DEF PrintingFor
  <2>3. Max(before) \in before /\ \A d \in before : d <= Max(before)
    <3> HIDE DEF before
    <3> QED BY <2>1, LatestIs
  <2>4. \A d \in dates : d \in before \/ d > decided
    OBVIOUS
  <2>5. \A d \in dates : d > Max(before) => d \notin before
    <3> DEFINE m == Max(before)
    <3>1. m \in Nat /\ (\A d \in dates : d \in Nat) /\ \A d \in before : d <= m
      BY <2>1, <2>3
    <3> HIDE DEF before, m
    <3>2. \A d \in dates : d > m => d \notin before
      BY <3>1
    <3> QED BY <3>2 DEF m
  <2> QED BY <2>2, <2>3, <2>4, <2>5
<1>2. CASE ~ \E d \in dates : d <= decided
  <2>1. PrintingFor(dates, decided) = Min(dates)
    BY <1>2 DEF PrintingFor
  <2>2. Min(dates) \in dates
    BY LatestIs
  <2> QED BY <1>2, <2>1, <2>2
<1> QED BY <1>1, <1>2

LEMMA LinksOfAre ==
  ASSUME Types, NEW c \in Case
  PROVE  /\ IsFiniteSet(LinksOf(c))
         /\ \A l \in LinksOf(c) : Linked(l) /\ printings # <<>>
         /\ printings # <<>> =>
              \A p \in PassagesOf(c) : \A d \in p[2] : d.title = Title =>
                \A q \in PlacesOf(printings[PrintingFor(DOMAIN printings, Decided[c])], d) :
                  \E l \in LinksOf(c) : Id(l) = <<p[1], q.object>>
<1> DEFINE from(p) == CitesLinksIn(p[1], p[2], printings, Decided[c])
           printed == PrintingFor(DOMAIN printings, Decided[c])
           P == PassagesOf(c)
<1>1. IsFiniteSet(P) /\ \A p \in P : AreRead(p[2])
  BY CaseIsRead DEF Types, PassagesOf
<1>2. printings # <<>> => printed \in DOMAIN printings
  <2>1. Decided[c] \in Nat
    BY DateAssumption
  <2> QED BY <2>1, HeldIs, PrintingForIs
<1>3. ASSUME NEW p \in P
      PROVE  /\ IsFiniteSet(from(p))
             /\ \A l \in from(p) : Linked(l) /\ printings # <<>>
             /\ printings # <<>> =>
                  \A d \in p[2] : d.title = Title =>
                    \A q \in PlacesOf(printings[printed], d) :
                      \E l \in from(p) : Id(l) = <<p[1], q.object>>
  <2>1. /\ IsFiniteSet(from(p))
        /\ \A l \in from(p) :
             /\ l.subject = p[1] /\ l.printed = printed /\ l.decided = Decided[c]
             /\ printings # <<>>
             /\ IsLinked(l, printings[printed], p[2])
        /\ printings # <<>> =>
             \A d \in p[2] : \A q \in PlacesOf(printings[printed], d) :
               d.title = Title => \E l \in from(p) : l.object = q.object
    <3>1. AreRead(p[2])
      BY <1>1
    <3> DEFINE found == from(p)
    <3>2. found = CitesLinksIn(p[1], p[2], printings, Decided[c])
      OBVIOUS
    <3>3. printed = PrintingFor(DOMAIN printings, Decided[c])
      OBVIOUS
    <3> HIDE DEF P, found, printed
    <3>4. /\ IsFiniteSet(found)
          /\ \A l \in found :
               /\ l.subject = p[1] /\ l.printed = printed /\ l.decided = Decided[c]
               /\ printings # <<>>
               /\ IsLinked(l, printings[printed], p[2])
          /\ printings # <<>> =>
               \A d \in p[2] : \A q \in PlacesOf(printings[printed], d) :
                 d.title = Title => \E l \in found : l.object = q.object
      BY <3>1, <3>2, <3>3, LinksAre
    <3> QED BY <3>4 DEF found
  <2> HIDE DEF from, printed
  <2>2. \A l \in from(p) : Linked(l) /\ printings # <<>>
    BY <1>2, <2>1 DEF Linked
  <2> QED BY <2>1, <2>2 DEF Id
<1>4. LinksOf(c) = UNION {from(p) : p \in P}
  BY DEF LinksOf
<1> HIDE DEF from, P
<1> DEFINE f == [p \in P |-> from(p)]
<1>5. DOMAIN f = P /\ {f[p] : p \in P} = {from(p) : p \in P}
  OBVIOUS
<1> HIDE DEF f
<1>6. IsFiniteSet({from(p) : p \in P})
  BY <1>1, <1>5, FiniteImage
<1>7. IsFiniteSet(UNION {from(p) : p \in P})
  BY <1>3, <1>6, FS_UNION
<1>8. \A p \in P : from(p) \subseteq LinksOf(c)
  BY <1>4
<1>9. \A l \in LinksOf(c) : \E p \in P : l \in from(p)
  BY <1>4
<1> QED BY <1>3, <1>4, <1>7, <1>8, <1>9 DEF P

LEMMA LinkedStays ==
  ASSUME text' = text,
         \A d \in DOMAIN printings : d \in DOMAIN printings' /\ printings'[d] = printings[d],
         NEW l, Linked(l)
  PROVE  Linked(l)'
BY DEF Linked, PassagesOf

LEMMA Untouched ==
  ASSUME UNCHANGED <<text, printings>>
  PROVE  /\ Types' <=> Types
         /\ \A l : Linked(l)' <=> Linked(l)
         /\ \A c : LinksOf(c)' = LinksOf(c)
<1>1. \A c : PassagesOf(c)' = PassagesOf(c)
  BY DEF PassagesOf
<1>2. Types' <=> Types
  BY DEF Types
<1>3. \A l : Linked(l)' <=> Linked(l)
  BY <1>1 DEF Linked
<1>4. \A c : LinksOf(c)' = LinksOf(c)
  BY <1>1 DEF LinksOf
<1> QED BY <1>2, <1>3, <1>4

LEMMA HeadAndTail ==
  ASSUME NEW s, IsList(s), s # <<>>
  PROVE  IsList(Tail(s)) /\ Range(s) = {Head(s)} \cup Range(Tail(s))
<1>1. s \in Seq(Range(s)) /\ Len(s) \in Nat \ {0}
  BY DEF IsList
<1> DEFINE rest == Tail(s)
<1>2. rest \in Seq(Range(s)) /\ Len(rest) = Len(s) - 1
  BY <1>1
<1>3. \A i \in 1..Len(rest) : rest[i] = s[i + 1]
  BY <1>1
<1>4. Head(s) = s[1] /\ DOMAIN s = 1..Len(s) /\ DOMAIN rest = 1..Len(rest)
  BY <1>1, <1>2
<1> HIDE DEF rest
<1>5. IsList(rest)
  BY <1>2, ListIs
<1>6. ASSUME NEW i \in DOMAIN s PROVE s[i] \in {Head(s)} \cup Range(rest)
  <2>1. CASE i = 1
    BY <1>4, <2>1
  <2>2. CASE i # 1
    <3>1. i - 1 \in DOMAIN rest /\ rest[i - 1] = s[i]
      BY <1>1, <1>2, <1>3, <1>4, <2>2
    <3> QED BY <3>1 DEF Range
  <2> QED BY <2>1, <2>2
<1>7. 1 \in DOMAIN s /\ \A i \in DOMAIN rest : i + 1 \in DOMAIN s
  BY <1>1, <1>2, <1>4
<1>8. Range(s) = {Head(s)} \cup Range(rest)
  BY <1>3, <1>4, <1>6, <1>7 DEF Range
<1> QED BY <1>5, <1>8 DEF rest

(* The links a command is to write: those of its cases, and no others.     *)
LEMMA ToWrite ==
  ASSUME Types, NEW cases \in Orders, NEW todo,
         todo = FlattenSeq([k \in DOMAIN cases |-> SetToSeq(LinksOf(cases[k]))])
  PROVE  /\ IsList(todo)
         /\ \A l \in Range(todo) : Linked(l)
         /\ \A c \in Range(cases) : LinksOf(c) \subseteq Range(todo)
<1> DEFINE S == UNION {LinksOf(c) : c \in Case}
           seqs == [k \in DOMAIN cases |-> SetToSeq(LinksOf(cases[k]))]
<1>1. /\ cases \in Seq(Case) /\ Len(cases) \in Nat /\ DOMAIN cases = 1..Len(cases)
      /\ \A k \in DOMAIN cases : cases[k] \in Case
  BY OrdersAssumption
<1>2. \A c \in Case : SetToSeq(LinksOf(c)) \in Seq(LinksOf(c)) /\ Range(SetToSeq(LinksOf(c))) = LinksOf(c)
  BY LinksOfAre, SetToSeqIs
<1>3. \A c \in Case : LinksOf(c) \subseteq S
  OBVIOUS
<1>4. \A l \in S : Linked(l)
  BY LinksOfAre
<1> HIDE DEF S
<1>5. \A k \in DOMAIN cases : /\ SetToSeq(LinksOf(cases[k])) \in Seq(S)
                              /\ Range(SetToSeq(LinksOf(cases[k]))) = LinksOf(cases[k])
  <2>1. ASSUME NEW c \in Case PROVE SetToSeq(LinksOf(c)) \in Seq(S)
    <3> DEFINE s == SetToSeq(LinksOf(c))
               L == LinksOf(c)
    <3>1. s \in Seq(L) /\ L \subseteq S
      BY <1>2, <1>3
    <3> HIDE DEF s, L
    <3>2. s \in Seq(S)
      BY <3>1
    <3> QED BY <3>2 DEF s
  <2> QED BY <1>1, <1>2, <2>1
<1>6. seqs \in Seq(Seq(S)) /\ DOMAIN seqs = DOMAIN cases
  BY <1>1, <1>5
<1>7. todo = FlattenSeq(seqs)
  OBVIOUS
<1>8. \A k \in DOMAIN cases : Range(seqs[k]) = LinksOf(cases[k])
  BY <1>5
<1> HIDE DEF seqs
<1>9. todo \in Seq(S) /\ Range(todo) = UNION {Range(seqs[k]) : k \in DOMAIN seqs}
  BY <1>6, <1>7, FlattenSeqIs
<1>10. IsList(todo)
  BY <1>9, ListIs
<1>11. Range(todo) \subseteq S
  BY <1>9 DEF Range
<1>12. \A c \in Range(cases) : LinksOf(c) \subseteq Range(todo)
  <2>1. \A k \in DOMAIN cases : Range(seqs[k]) \subseteq Range(todo)
    BY <1>6, <1>9
  <2>2. \A k \in DOMAIN cases : LinksOf(cases[k]) \subseteq Range(todo)
    BY <1>8, <2>1
  <2>3. \A c \in Range(cases) : \E k \in DOMAIN cases : c = cases[k]
    BY DEF Range
  <2> QED BY <2>2, <2>3
<1> QED BY <1>4, <1>10, <1>11, <1>12

LEMMA Starts ==
  ASSUME Init
  PROVE  IInv
<1>1. Types
  <2>1. DOMAIN printings = {} /\ printings \in [{} -> Trees]
    BY DEF Init
  <2> QED BY <2>1, FS_EmptySet DEF Init, Types
<1>2. \A c \in Case : LinksOf(c) = {}
  BY <1>1, LinksOfAre DEF Init
<1>3. AllLinked
  BY <1>2 DEF Init, AllLinked, Complete, Idle
<1> QED BY <1>1, <1>3 DEF Init, IInv, RunIs

LEMMA Steps ==
  ASSUME IInv, [Next]_vars
  PROVE  IInv'
<1> USE DEF IInv
<1>1. /\ run.stage = "store" => /\ run = [stage |-> "store", cases |-> run.cases, next |-> run.next]
                                /\ run.cases \in Orders /\ run.next \in Nat \ {0}
      /\ run.stage = "link" => /\ run = [stage |-> "link", cases |-> run.cases,
                                         dates |-> run.dates, todo |-> run.todo]
                               /\ run.cases \in Orders /\ run.dates \subseteq DOMAIN printings
                               /\ IsList(run.todo) /\ \A l \in Range(run.todo) : Linked(l)
  BY DEF RunIs, Idle
<1>0. held' \subseteq Case
  <2>1. ASSUME StoreCase PROVE held' \subseteq Case
    <3>1. run.cases \in Seq(Case) /\ run.next \in 1..Len(run.cases)
      BY <1>1, <2>1, OrdersAssumption DEF StoreCase
    <3>2. run.cases[run.next] \in Case
      BY <3>1
    <3> QED BY <2>1, <3>2 DEF StoreCase
  <2> QED
    BY <2>1 DEF Next, Begin, Resolve, WriteLink, Finish, Kill, AddPrinting, Refute, vars
<1> USE <1>0
<1>2. ASSUME UNCHANGED <<text, printings>>
      PROVE  /\ Types'
             /\ \A l : Linked(l)' <=> Linked(l)
             /\ \A c : LinksOf(c)' = LinksOf(c)
  BY <1>2, Untouched
<1>3. ASSUME UNCHANGED <<text, printings, links, linked>>, RunIs', run'.stage # "link"
      PROVE  IInv'
  <2>1. AllLinked'
    BY <1>2, <1>3 DEF AllLinked, Complete
  <2> QED BY <1>2, <1>3, <2>1
<1>4. ASSUME NEW cases \in Orders, Begin(cases) PROVE IInv'
  <2>1. run' = [stage |-> "store", cases |-> cases, next |-> 1]
    BY <1>4 DEF Begin
  <2>2. RunIs' /\ run'.stage # "link"
    BY <2>1 DEF RunIs
  <2> QED BY <1>3, <1>4, <2>2 DEF Begin
<1>5. CASE StoreCase
  <2>1. run' = [stage |-> "store", cases |-> run.cases, next |-> run.next + 1]
    BY <1>1, <1>5 DEF StoreCase
  <2>2. RunIs' /\ run'.stage # "link"
    BY <1>1, <1>5, <2>1 DEF RunIs, StoreCase
  <2> QED BY <1>3, <1>5, <2>2 DEF StoreCase
<1>6. CASE Resolve
  <2>1. run.cases \in Orders /\ UNCHANGED <<text, printings, links, linked>>
    BY <1>1, <1>6 DEF Resolve
  <2> DEFINE todo == FlattenSeq([k \in DOMAIN run.cases |-> SetToSeq(LinksOf(run.cases[k]))])
  <2>2. run' = [stage |-> "link", cases |-> run.cases, dates |-> DOMAIN printings, todo |-> todo]
    BY <1>6 DEF Resolve
  <2>3. /\ IsList(todo) /\ \A l \in Range(todo) : Linked(l)
        /\ \A c \in Range(run.cases) : LinksOf(c) \subseteq Range(todo)
    BY <2>1, ToWrite
  <2> HIDE DEF todo
  <2>4. RunIs'
    BY <1>2, <2>1, <2>2, <2>3 DEF RunIs
  <2>5. AllLinked'
    BY <1>2, <2>1, <2>2, <2>3 DEF AllLinked, Complete
  <2> QED BY <1>2, <2>1, <2>4, <2>5
<1>7. CASE WriteLink
  <2> DEFINE link == Head(run.todo)
             rest == Tail(run.todo)
  <2>1. /\ run.stage = "link" /\ run.todo # <<>> /\ UNCHANGED <<text, printings, linked>>
        /\ links' = AddLink(links, link)
        /\ run' = [stage |-> "link", cases |-> run.cases, dates |-> run.dates, todo |-> rest]
    BY <1>1, <1>7 DEF WriteLink
  <2>2. IsList(rest) /\ Range(run.todo) = {link} \cup Range(rest)
    BY <1>1, <2>1, HeadAndTail
  <2> HIDE DEF link, rest
  <2>3. /\ links' \subseteq links \cup {link}
        /\ \A l \in links \cup {link} : \E k \in links' : Id(k) = Id(l)
    BY <2>1 DEF AddLink
  <2>4. RunIs'
    BY <1>1, <1>2, <2>1, <2>2 DEF RunIs
  <2>5. \A l \in links' : Linked(l)'
    BY <1>1, <1>2, <2>1, <2>2, <2>3
  <2>6. \A c : Complete(c, links) => Complete(c, links)'
    BY <1>2, <2>1, <2>3 DEF Complete
  <2>7. \A c : Complete(c, links \cup Range(run.todo)) => Complete(c, links \cup Range(run.todo))'
    <3>1. \A l \in links \cup Range(run.todo) : \E k \in links' \cup Range(rest) : Id(k) = Id(l)
      BY <2>2, <2>3
    <3>2. run'.todo = rest
      BY <2>1
    <3> QED BY <1>2, <2>1, <3>1, <3>2 DEF Complete
  <2>8. AllLinked'
    <3>1. run'.stage = "link" /\ run'.cases = run.cases /\ run'.dates = run.dates
      BY <2>1
    <3> QED BY <2>1, <2>6, <2>7, <3>1 DEF AllLinked
  <2> QED BY <1>2, <2>1, <2>4, <2>5, <2>8
<1>8. CASE Finish
  <2>1. /\ run.stage = "link" /\ run.todo = <<>> /\ UNCHANGED <<text, printings, links>>
        /\ run' = Idle
        /\ linked' = [c \in Case |-> IF c \in Range(run.cases) THEN run.dates ELSE linked[c]]
    BY <1>8 DEF Finish
  <2>2. RunIs' /\ run'.stage # "link"
    BY <2>1 DEF RunIs, Idle
  <2>3. Range(run.todo) = {}
    BY <2>1 DEF Range
  <2>4. ASSUME NEW c \in Case
        PROVE  /\ linked'[c] \subseteq DOMAIN printings
               /\ linked'[c] = DOMAIN printings => Complete(c, links)
    <3>1. CASE c \in Range(run.cases)
      <4>1. linked'[c] = run.dates
        BY <2>1, <3>1
      <4>2. run.dates = DOMAIN printings => Complete(c, links)
        BY <2>1, <2>3, <3>1 DEF AllLinked, Complete
      <4> QED BY <1>1, <2>1, <4>1, <4>2
    <3>2. CASE c \notin Range(run.cases)
      BY <2>1, <3>2 DEF AllLinked
    <3> QED BY <3>1, <3>2
  <2>5. AllLinked'
    BY <1>2, <2>1, <2>2, <2>4 DEF AllLinked, Complete
  <2> QED BY <1>2, <2>1, <2>2, <2>5
<1>9. CASE Kill
  <2>1. RunIs' /\ run'.stage # "link"
    BY <1>9 DEF Kill, RunIs, Idle
  <2> QED BY <1>3, <1>9, <2>1 DEF Kill
<1>10. CASE UNCHANGED <<text, printings, links, run, linked>>
  <2>1. RunIs'
    BY <1>2, <1>10 DEF RunIs
  <2>2. AllLinked'
    BY <1>2, <1>10 DEF AllLinked, Complete
  <2> QED BY <1>2, <1>10, <2>1, <2>2
<1>11. ASSUME NEW d \in Date, NEW tree \in Trees, AddPrinting(d, tree) PROVE IInv'
  <2>1. /\ UNCHANGED <<text, links, run, linked>>
        /\ printings' = [e \in DOMAIN printings \cup {d} |-> IF e = d THEN tree ELSE printings[e]]
        /\ d \in DOMAIN printings => tree = printings[d]
    BY <1>11 DEF AddPrinting
  <2>2. CASE d \in DOMAIN printings
    <3>1. printings = [e \in DOMAIN printings |-> printings[e]] /\ DOMAIN printings \cup {d} = DOMAIN printings
      BY <2>2 DEF Types
    <3>2. printings' = printings
      BY <2>1, <2>2, <3>1
    <3> QED BY <1>10, <2>1, <3>2
  <2>3. CASE d \notin DOMAIN printings
    <3>1. /\ d \notin DOMAIN printings /\ UNCHANGED <<text, links, run, linked>>
          /\ printings' = [e \in DOMAIN printings \cup {d} |-> IF e = d THEN tree ELSE printings[e]]
      BY <2>1, <2>3
    <3>2. /\ DOMAIN printings' = DOMAIN printings \cup {d}
          /\ \A e \in DOMAIN printings : printings'[e] = printings[e]
          /\ printings'[d] = tree
      BY <3>1
    <3>3. Types'
      <4>1. IsFiniteSet(DOMAIN printings \cup {d})
        BY FS_AddElement DEF Types
      <4>2. printings' \in [DOMAIN printings \cup {d} -> Trees]
        BY <3>1, HeldIs
      <4> QED BY <3>1, <3>2, <4>1, <4>2 DEF Types
    <3>4. \A l : Linked(l) => Linked(l)'
      <4>1. ASSUME NEW l, Linked(l) PROVE Linked(l)'
        BY <3>1, <3>2, <4>1, LinkedStays
      <4> QED BY <4>1
    <3>5. RunIs'
      BY <3>1, <3>2, <3>4 DEF RunIs
    <3>6. AllLinked'
      <4>1. run.stage = "link" => run.dates # DOMAIN printings'
        BY <1>1, <3>1, <3>2
      <4>2. \A c \in Case : /\ linked[c] \subseteq DOMAIN printings'
                            /\ linked[c] # DOMAIN printings'
        BY <3>1, <3>2 DEF AllLinked
      <4> QED BY <3>1, <4>1, <4>2 DEF AllLinked
    <3> QED BY <3>1, <3>3, <3>4, <3>5, <3>6
  <2> QED BY <2>2, <2>3
<1>12. ASSUME NEW l \in links, Refute(l) PROVE IInv'
  BY <1>10, <1>12 DEF Refute
<1>13. CASE UNCHANGED vars
  BY <1>10, <1>13 DEF vars
<1> HIDE DEF IInv
<1> QED
  BY <1>4, <1>5, <1>6, <1>7, <1>8, <1>9, <1>11, <1>12, <1>13 DEF Next

LEMMA AlwaysIInv == Spec => []IInv
BY Starts, Steps, PTL DEF Spec

-----------------------------------------------------------------------------
(* What is read from the links.                                            *)

LEMMA LinkIs ==
  ASSUME IInv, NEW l \in links
  PROVE  /\ IsPath(l.object)
         /\ l.subject[1] \in Case /\ l.decided = Decided[l.subject[1]]
<1>1. PICK c \in Case : \E p \in PassagesOf(c) :
        l.subject = p[1] /\ l.decided = Decided[c] /\ IsPath(l.object)
  BY DEF IInv, Linked, IsLinked
<1>3. PICK p \in PassagesOf(c) : l.subject = p[1]
  BY <1>1
<1>2. p[1][1] = c
  BY <1>3, CaseIsRead DEF IInv, Types, PassagesOf
<1> QED BY <1>1, <1>2, <1>3

LEMMA PathsAre ==
  ASSUME NEW p \in Paths
  PROVE  IsPath(p)
BY TreesAssumption DEF Paths

\* The links that stand and reach the path.
Reaching(asked) == {l \in links : Id(l) \notin refuted /\ Comparable(asked, l.object)}

LEMMA NamingIs ==
  ASSUME IInv, NEW asked, IsPath(asked)
  PROVE  {l \in links : Id(l) \notin refuted /\ Comparable(asked, l.object)
                          /\ RelationTo(printings, l.object, asked) # "none"} = Reaching(asked)
<1>1. ASSUME NEW l \in links, Comparable(asked, l.object)
      PROVE  RelationTo(printings, l.object, asked) # "none"
  <2>1. IsPath(l.object)
    BY LinkIs
  <2> QED BY <1>1, <2>1, RelationIs
<1> QED BY <1>1 DEF Reaching

LEMMA CitingAre ==
  ASSUME IInv, NEW asked, IsPath(asked)
  PROVE  CasesCiting(printings, links, refuted, asked) =
           {[writing |-> w,
             cites |-> {CitedProvision(printings,
                          {l \in Reaching(asked) : WritingOf(l.subject) = w /\ l.object = o}, o, asked) :
                        o \in {l.object : l \in {n \in Reaching(asked) : WritingOf(n.subject) = w}}}] :
            w \in {WritingOf(l.subject) : l \in Reaching(asked)}}
<1> DEFINE told(N) ==
             {[writing |-> w,
               cites |-> {CitedProvision(printings,
                            {l \in N : WritingOf(l.subject) = w /\ l.object = o}, o, asked) :
                          o \in {l.object : l \in {n \in N : WritingOf(n.subject) = w}}}] :
              w \in {WritingOf(l.subject) : l \in N}}
           naming == {l \in links : Id(l) \notin refuted /\ Comparable(asked, l.object)
                                      /\ RelationTo(printings, l.object, asked) # "none"}
<1>1. CasesCiting(printings, links, refuted, asked) = told(naming)
  BY DEF CasesCiting
<1>2. naming = Reaching(asked)
  BY NamingIs
<1>3. told(naming) = told(Reaching(asked))
  <2> HIDE DEF told, naming
  <2> QED BY <1>2
<1> QED BY <1>1, <1>3

LEMMA NotSilent ==
  ASSUME IInv, NEW asked, IsPath(asked), NEW l \in Reaching(asked)
  PROVE  l.subject[1] \notin Silent(held, CasesCiting(printings, links, refuted, asked))
<1> DEFINE cites(w) == {CitedProvision(printings,
                          {k \in Reaching(asked) : WritingOf(k.subject) = w /\ k.object = o}, o, asked) :
                        o \in {k.object : k \in {n \in Reaching(asked) : WritingOf(n.subject) = w}}}
           cases == {[writing |-> w, cites |-> cites(w)] : w \in {WritingOf(k.subject) : k \in Reaching(asked)}}
<1>1. CasesCiting(printings, links, refuted, asked) = cases
  BY CitingAre
<1> HIDE DEF cites
<1> DEFINE w == WritingOf(l.subject)
<1>2. [writing |-> w, cites |-> cites(w)] \in cases
  OBVIOUS
<1>3. [writing |-> w, cites |-> cites(w)].writing[1] = l.subject[1]
  BY DEF WritingOf
<1>4. l.subject[1] \in {c.writing[1] : c \in cases}
  BY <1>2, <1>3
<1> HIDE DEF cases
<1> QED BY <1>1, <1>4 DEF Silent

(* The words of a case never change, so they stay read as they are meant    *)
(* in every printing, whatever the order in which cases are linked and      *)
(* printings come.  The theorems that need it take TextsAreLegible of the   *)
(* first state as their hypothesis: that is what WordsAreRead says of every *)
(* dataset that holds nothing yet, and a run checks.                        *)
LEMMA TextsStayLegible == Spec /\ TextsAreLegible => []TextsAreLegible
<1>1. ASSUME TextsAreLegible, [Next]_vars PROVE TextsAreLegible'
  <2>1. text' = text
    BY <1>1 DEF Next, vars, Begin, StoreCase, Resolve, WriteLink, Finish, Kill, AddPrinting, Refute
  <2> QED BY <1>1, <2>1 DEF TextsAreLegible
<1> QED BY <1>1, PTL DEF Spec

(* Each place of each link is words of the passage the link starts at, read *)
(* as they are meant, that lead to the link's object in the printing it was *)
(* resolved in (cites_links_in, Gathered::into_link): a printing that comes *)
(* later changes no link, and no kill leaves one half written.             *)
THEOREM LinksAreAlwaysRead == Spec /\ TextsAreLegible => []LinksAreRead
<1>1. ASSUME IInv, TextsAreLegible PROVE LinksAreRead
  <2>1. SUFFICES ASSUME NEW l \in links, NEW p \in l.places
                 PROVE  \E m \in Means(l.subject[1]) :
                          /\ m.start = p.start /\ m.edition = p.edition
                          /\ PassageHolding(l.subject[1], m) = l.subject
                          /\ l.object \in Deepest(printings[l.printed], m.full)
    BY DEF LinksAreRead
  <2>1a. PICK c \in Case : \E passage \in PassagesOf(c) :
           /\ l.subject = passage[1] /\ l.printed \in DOMAIN printings
           /\ IsLinked(l, printings[l.printed], passage[2])
    BY <1>1 DEF IInv, Linked
  <2>2. PICK passage \in PassagesOf(c) :
          /\ l.subject = passage[1] /\ l.printed \in DOMAIN printings
          /\ IsLinked(l, printings[l.printed], passage[2])
    BY <2>1a
  <2> DEFINE tree == printings[l.printed]
  <2>3. tree \in Trees /\ text[c] \in Texts[c]
    BY <1>1, <2>2, HeldIs DEF IInv, Types
  <2> HIDE DEF tree
  <2>4. PICK d \in {e \in passage[2] : e.title = Title} : \E q \in PlacesOf(tree, d) :
          q.object = l.object /\ q.place = p
    BY <2>2 DEF IsLinked, tree
  <2>5. PICK q \in PlacesOf(tree, d) : q.object = l.object /\ q.place = p
    BY <2>4
  <2>6. ReadAsMeant(c, text[c], tree)
    BY <1>1, <2>3 DEF TextsAreLegible, Legible
  <2>7. passage \in PassagesIn(c, text[c]) /\ passage[1][1] = c
    BY <2>2, <2>3, CaseIsRead DEF PassagesOf
  <2>8. PICK m \in MeantOf(text[c]) :
          /\ m.start = q.place.start /\ m.edition = q.place.edition
          /\ PassageIn(c, text[c], m) = passage[1]
          /\ q.object \in Deepest(tree, m.full)
    BY <2>4, <2>5, <2>6, <2>7 DEF ReadAsMeant
  <2>9. m \in Means(l.subject[1]) /\ PassageHolding(l.subject[1], m) = l.subject
    BY <2>2, <2>7, <2>8 DEF Means, PassageHolding
  <2> QED BY <2>5, <2>8, <2>9 DEF tree
<1> QED BY <1>1, AlwaysIInv, TextsStayLegible, PTL

LEMMA AllIsFound ==
  ASSUME IInv, TextsAreLegible, NEW c \in Case, UpToDate(c),
         NEW m \in Means(c), NEW o \in Deepest(InForce(c), m.full)
  PROVE  \E l \in links : Id(l) = <<PassageHolding(c, m), o>>
<1> DEFINE printed == PrintingFor(DOMAIN printings, Decided[c])
<1>1. printings # <<>> /\ Complete(c, links) /\ text[c] \in Texts[c]
  BY DEF UpToDate, IInv, AllLinked, Types
<1>2. printed \in DOMAIN printings /\ printings[printed] \in Trees
  <2>1. Decided[c] \in Nat
    BY DateAssumption
  <2> QED BY <1>1, <2>1, HeldIs, PrintingForIs DEF IInv
<1>3. InForce(c) = printings[printed]
  BY DEF InForce
<1> HIDE DEF printed
<1>4. MeantIsRead(c, text[c], printings[printed])
  BY <1>1, <1>2 DEF TextsAreLegible, Legible
<1>5. PICK p \in PassagesOf(c) : \E d \in {e \in p[2] : e.title = Title} :
        p[1] = PassageHolding(c, m) /\ \E q \in PlacesOf(printings[printed], d) : q.object = o
  BY <1>3, <1>4 DEF MeantIsRead, Means, PassageHolding, PassagesOf
<1>6. \A d \in p[2] : d.title = Title => \A q \in PlacesOf(printings[printed], d) :
        \E l \in LinksOf(c) : Id(l) = <<p[1], q.object>>
  BY <1>1, LinksOfAre DEF IInv, printed
<1>7. PICK l \in LinksOf(c) : Id(l) = <<PassageHolding(c, m), o>>
  BY <1>5, <1>6
<1> QED BY <1>1, <1>7 DEF Complete

(* A case linked with the printings now held is told as silent on a path   *)
(* only when nothing its words cite is at, under or above the path, but    *)
(* what a reviewer refuted (silent_opinions, relation_to): a killed command *)
(* leaves its cases to be linked again, and no link is lost to another of   *)
(* its passage.                                                            *)
THEOREM SilentIsAlwaysTrue == Spec /\ TextsAreLegible => []SilentIsTrue
<1>1. ASSUME IInv, TextsAreLegible PROVE SilentIsTrue
  <2> DEFINE silent(p) == Silent(held, CasesCiting(printings, links, refuted, p))
  <2>1. ASSUME NEW c \in held, UpToDate(c), NEW m \in Means(c), NEW o \in Deepest(InForce(c), m.full),
               <<PassageHolding(c, m), o>> \notin refuted, NEW p \in Paths, Comparable(p, o)
        PROVE  c \notin silent(p)
    <3>1. c \in Case
      BY <1>1 DEF IInv
    <3>2. PICK l \in links : Id(l) = <<PassageHolding(c, m), o>>
      BY <1>1, <2>1, <3>1, AllIsFound
    <3>3. l.subject = PassageHolding(c, m) /\ l.object = o
      BY <3>2 DEF Id
    <3>4. l \in Reaching(p) /\ IsPath(p)
      BY <2>1, <3>2, <3>3, PathsAre DEF Reaching
    <3>5. l.subject[1] = c
      BY <3>3 DEF PassageHolding, PassageIn
    <3> QED BY <1>1, <3>4, <3>5, NotSilent
  <2> HIDE DEF silent
  <2>2. \A p \in Paths : [x \in Paths |-> silent(x)][p] = silent(p)
    OBVIOUS
  <2> QED BY <2>1, <2>2 DEF SilentIsTrue, silent
<1> QED BY <1>1, AlwaysIInv, TextsStayLegible, PTL

(* `path` and `cases-citing` name the same writings for a path, and what is *)
(* told as within the path is cited there (citations_naming, cases_citing): *)
(* for any words, however they were read.                                  *)
THEOREM ReadersAlwaysAgree == Spec => []ReadersAgree
<1>1. ASSUME IInv PROVE ReadersAgree
  <2>1. SUFFICES ASSUME NEW p \in Paths
        PROVE LET cases == CasesCiting(printings, links, refuted, p)
                  named == {n \in CitationsNaming(links, p) : Id(n.link) \notin refuted} IN
              /\ {WritingOf(n.link.subject) : n \in named} = {c.writing : c \in cases}
              /\ \A c \in cases : \A cited \in c.cites :
                   cited.relation = "within" =>
                     \E n \in named : n.link \in cited.links /\ n.role \in {"cited", "beneath"}
    BY DEF ReadersAgree
  <2> DEFINE cases == CasesCiting(printings, links, refuted, p)
             named == {n \in CitationsNaming(links, p) : Id(n.link) \notin refuted}
             N == Reaching(p)
             citing(w, o) == {l \in N : WritingOf(l.subject) = w /\ l.object = o}
             cites(w) == {CitedProvision(printings, citing(w, o), o, p) :
                            o \in {l.object : l \in {n \in N : WritingOf(n.subject) = w}}}
             role(l) == IF l.object = p THEN "cited"
                        ELSE IF Covers(p, l.object) THEN "beneath" ELSE "above"
  <2>2. IsPath(p)
    BY PathsAre
  <2>3. cases = {[writing |-> w, cites |-> cites(w)] : w \in {WritingOf(l.subject) : l \in N}}
    BY <1>1, <2>2, CitingAre
  <2>4. named = {[link |-> l, role |-> role(l)] : l \in N}
    BY DEF CitationsNaming, Reaching
  <2> HIDE DEF cases, named, N
  <2>5. {WritingOf(n.link.subject) : n \in named} = {WritingOf(l.subject) : l \in N}
    <3> HIDE DEF role
    <3>1. \A l \in N : [link |-> l, role |-> role(l)].link = l
      OBVIOUS
    <3> QED BY <2>4, <3>1
  <2>6. {c.writing : c \in cases} = {WritingOf(l.subject) : l \in N}
    <3> DEFINE W == {WritingOf(l.subject) : l \in N}
               case(w) == [writing |-> w, cites |-> cites(w)]
    <3>1. \A w : case(w).writing = w
      OBVIOUS
    <3> HIDE DEF W, case
    <3>2. cases = {case(w) : w \in W}
      BY <2>3 DEF case, W
    <3>3. {c.writing : c \in cases} = W
      BY <3>1, <3>2
    <3> QED BY <3>3 DEF W
  <2>7. ASSUME NEW c \in cases, NEW cited \in c.cites, cited.relation = "within"
        PROVE  \E n \in named : n.link \in cited.links /\ n.role \in {"cited", "beneath"}
    <3>1. PICK w \in {WritingOf(l.subject) : l \in N} : c.cites = cites(w)
      <4> HIDE DEF cites
      <4> QED BY <2>3
    <3>2. PICK o \in {l.object : l \in {n \in N : WritingOf(n.subject) = w}} :
            cited = CitedProvision(printings, citing(w, o), o, p)
      BY <3>1
    <3>3. PICK l \in N : WritingOf(l.subject) = w /\ l.object = o
      BY <3>2
    <3>4. cited.links = citing(w, o) /\ cited.relation = RelationTo(printings, o, p)
      BY <3>2 DEF CitedProvision
    <3>5. l \in cited.links
      BY <3>3, <3>4
    <3>6. IsPath(l.object)
      BY <1>1, LinkIs DEF N, Reaching
    <3>7. Covers(p, l.object)
      BY <2>2, <2>7, <3>3, <3>4, <3>6, RelationIs
    <3>8. role(l) \in {"cited", "beneath"} /\ [link |-> l, role |-> role(l)] \in named
      BY <2>4, <3>7
    <3> HIDE DEF role
    <3> QED BY <3>5, <3>8
  <2> QED BY <2>5, <2>6, <2>7 DEF cases, named
<1> QED BY <1>1, AlwaysIInv, PTL

LEMMA TypedIs ==
  ASSUME NEW tree, NEW written, IsToken(written), written.t = "section",
         NEW p \in TypedIn(tree, written)
  PROVE  IsPath(p)
<1>1. PICK r \in Resolved(tree, written) : p \in {r.path, SectionPath(r.path)}
  BY DEF TypedIn
<1>2. IsPath(r.path)
  BY ResolvedIs DEF ArePaths
<1>3. IsPath(SectionPath(r.path))
  BY OnePath DEF SectionPath
<1> QED BY <1>1, <1>2, <1>3

(* Whoever types the words a court wrote is shown that case, when they lead *)
(* somewhere both in the printing the court had and in the latest one      *)
(* (resolve_citation, relation_to).                                        *)
THEOREM AlwaysAskedAsWritten == Spec /\ TextsAreLegible => []AskedAsWritten
<1>1. ASSUME IInv, TextsAreLegible PROVE AskedAsWritten
  <2> DEFINE last == printings[Latest(DOMAIN printings)]
  <2>1. SUFFICES ASSUME NEW c \in held, UpToDate(c), NEW m \in Means(c),
                        Deepest(InForce(c), m.full) # {}, SectionPath(m.full) \in DOMAIN last,
                        \A r \in refuted : r[1] # PassageHolding(c, m)
                 PROVE  \E p \in TypedPaths(printings, m.written) :
                          c \notin Silent(held, CasesCiting(printings, links, refuted, p))
    BY DEF AskedAsWritten
  <2>2. c \in Case /\ printings # <<>> /\ DOMAIN printings # {} /\ text[c] \in Texts[c]
    BY <1>1, <2>1, HeldIs DEF IInv, Types, UpToDate
  <2>3. last \in Trees
    <3>1. Max(DOMAIN printings) \in DOMAIN printings
      BY <1>1, <2>2, HeldIs, LatestIs DEF IInv
    <3> QED BY <1>1, <3>1, HeldIs DEF IInv, Latest
  <2>4. InForce(c) \in Trees
    <3>1. Decided[c] \in Nat
      BY <2>2, DateAssumption
    <3>2. PrintingFor(DOMAIN printings, Decided[c]) \in DOMAIN printings
      BY <1>1, <2>2, <3>1, HeldIs, PrintingForIs DEF IInv
    <3> QED BY <1>1, <3>2, HeldIs DEF IInv, InForce
  <2> HIDE DEF last
  <2>5. m \in MeantOf(text[c]) /\ IsToken(m.written) /\ m.written.t = "section"
    BY <2>2, TextsAssumption DEF Means, MeantOf
  <2>6. TypedAsMeant(text[c], InForce(c), last)
    BY <1>1, <2>2, <2>3, <2>4 DEF TextsAreLegible, Legible
  <2>7. PICK p \in TypedIn(last, m.written) : \E o \in Deepest(InForce(c), m.full) : Comparable(p, o)
    BY <2>1, <2>5, <2>6 DEF TypedAsMeant
  <2>8. PICK o \in Deepest(InForce(c), m.full) : Comparable(p, o)
    BY <2>7
  <2>9. PICK l \in links : Id(l) = <<PassageHolding(c, m), o>>
    BY <1>1, <2>1, <2>2, <2>8, AllIsFound
  <2>10. l.subject = PassageHolding(c, m) /\ l.object = o /\ Id(l)[1] = l.subject
    BY <2>9 DEF Id
  <2>11. l \in Reaching(p) /\ IsPath(p)
    BY <2>1, <2>5, <2>8, <2>10, TypedIs DEF Reaching
  <2>12. l.subject[1] = c
    BY <2>10 DEF PassageHolding, PassageIn
  <2>13. p \in TypedPaths(printings, m.written)
    BY <2>2, <2>7 DEF TypedPaths, last
  <2> QED BY <1>1, <2>11, <2>12, <2>13, NotSilent
<1> QED BY <1>1, AlwaysIInv, TextsStayLegible, PTL

-----------------------------------------------------------------------------
(* How the printings after a decision compare.                             *)

\* The printings give the words at, under and above the path alike, and hold
\* the same of the provisions above it.
Alike(before, after, path) ==
  /\ Same(before, after, path)
  /\ \A r : IsPath(r) /\ Covers(r, path) => (r \in DOMAIN before <=> r \in DOMAIN after)

LEMMA AlikeTwice ==
  ASSUME NEW s, NEW t, NEW u, NEW path, IsPath(path), Alike(s, t, path), Alike(t, u, path),
         \A q \in DOMAIN s \cup DOMAIN t \cup DOMAIN u : IsPath(q)
  PROVE  Alike(s, u, path)
<1>1. Under(s, path) = Under(t, path) /\ Under(t, path) = Under(u, path)
  BY DEF Alike, Same
<1>2. \A q \in Under(s, path) : s[q] = t[q] /\ t[q] = u[q]
  BY <1>1 DEF Alike, Same
<1>3. \A r : IsPath(r) /\ Covers(r, path) =>
        /\ r \in DOMAIN s <=> r \in DOMAIN t
        /\ r \in DOMAIN t <=> r \in DOMAIN u
        /\ r \in DOMAIN s => s[r] = t[r] /\ t[r] = u[r]
  BY DEF Alike, Same
<1> QED BY <1>1, <1>2, <1>3 DEF Alike, Same

(* Two printings next to one another that a window tells as unchanged.     *)
LEMMA UnchangedIsAlike ==
  ASSUME NEW before, NEW after, NEW path, IsPath(path),
         \A q \in DOMAIN before \cup DOMAIN after : IsPath(q),
         SectionPath(path) \in DOMAIN before \cap DOMAIN after,
         ChangedPaths(before, after, ReadAt(before, after, path)) = {},
         ChangedAbove(before, after, ReadAt(before, after, path)) = {}
  PROVE  Alike(before, after, path)
<1> DEFINE section == SectionPath(path)
           whole == Whole(Leads(before, path)) /\ Whole(Leads(after, path))
<1>1. \A q : IsPath(q) /\ (Covers(path, q) \/ Covers(q, path)) => Covers(section, q)
  <2>1. Len(path) \in Nat /\ Len(path) # 0
    BY DEF IsPath, IsList
  <2>2. \A q : IsPath(q) /\ Covers(path, q) => Covers(section, q)
    BY <2>1, PrefixIs
  <2>3. \A r : IsPath(r) /\ Covers(r, path) => Covers(section, r)
    <3>1. ASSUME NEW r, IsPath(r), Covers(r, path) PROVE Covers(section, r)
      <4>1. Len(r) \in Nat /\ Len(r) # 0
        BY <3>1 DEF IsPath, IsList
      <4>2. r[1] = path[1]
        BY <3>1, <4>1, PrefixIs
      <4> QED BY <3>1, <4>2, PrefixIs
    <3> QED BY <3>1
  <2> QED BY <2>2, <2>3
<1>2. CASE ~whole
  <2>1. ReadAt(before, after, path) = section
    BY <1>2 DEF ReadAt
  <2> HIDE DEF section, whole
  <2>2. \A q \in DOMAIN before \cup DOMAIN after : Covers(section, q) =>
          q \in DOMAIN before /\ q \in DOMAIN after /\ before[q] = after[q]
    BY <2>1 DEF ChangedPaths, Under
  <2>3. \A q \in DOMAIN before \cup DOMAIN after : Covers(path, q) \/ Covers(q, path) =>
          q \in DOMAIN before /\ q \in DOMAIN after /\ before[q] = after[q]
    BY <1>1, <2>2
  <2>4. section \in DOMAIN before /\ section \in DOMAIN after
    BY DEF section
  <2>5. Same(before, after, path)
    BY <2>3 DEF Same, Under
  <2>6. \A r : IsPath(r) /\ Covers(r, path) => (r \in DOMAIN before <=> r \in DOMAIN after)
    BY <2>3
  <2> QED BY <2>5, <2>6 DEF Alike
<1>3. CASE whole
  <2>1. ReadAt(before, after, path) = path
    BY <1>3 DEF ReadAt
  <2>2. \A q \in DOMAIN before \cup DOMAIN after : Covers(path, q) =>
          q \in DOMAIN before /\ q \in DOMAIN after /\ before[q] = after[q]
    BY <2>1 DEF ChangedPaths, Under
  <2>3. \A r \in DOMAIN before \cap DOMAIN after : IsPath(r) /\ Covers(r, path) => before[r] = after[r]
    <3>1. \A r \in DOMAIN before \cap DOMAIN after : IsPath(r) /\ Covers(r, path) /\ r # path =>
            before[r] = after[r]
      BY <1>1, <2>1, PrefixIs DEF ChangedAbove, Under
    <3>2. Covers(path, path)
      BY PrefixIs DEF IsPath, IsList
    <3> QED BY <2>2, <3>1, <3>2
  <2>4. ASSUME NEW r, IsPath(r), Covers(r, path)
        PROVE  r \in DOMAIN before /\ r \in DOMAIN after
    <3> DEFINE rest == Written(path)
    <3>1. /\ IsList(rest) /\ IsPath(section) /\ Len(rest) = Len(path) - 1
          /\ path \in Seq(Range(path)) /\ rest = Tail(path) /\ Len(path) \in Nat \ {0}
      <4>1. path \in Seq(Range(path)) /\ path # <<>>
        BY DEF IsPath, IsList
      <4>2. Tail(path) \in Seq(Range(path)) /\ Len(Tail(path)) = Len(path) - 1 /\ Len(path) \in Nat \ {0}
        BY <4>1
      <4> QED BY <4>1, <4>2, ListIs, OnePath DEF Written, SectionPath
    <3>2. \A t \in {before, after} : \A j \in 1..Len(rest) : section \o SubSeq(rest, 1, j) \in DOMAIN t
      <4>1. ASSUME NEW t, Whole(Leads(t, path))
            PROVE  \A j \in 1..Len(rest) : section \o SubSeq(rest, 1, j) \in DOMAIN t
        <5>1. Leads(t, path) = Walked(t, section, rest)
          BY DEF Leads
        <5> HIDE DEF rest, section
        <5>2. Whole(Walked(t, section, rest))
          BY <4>1, <5>1
        <5> QED BY <3>1, <5>2, WalkedPath
      <4> HIDE DEF rest, section
      <4> QED BY <1>3, <4>1
    <3>3. /\ Len(r) \in 1..Len(path) /\ r \in Seq(Range(r))
          /\ \A i \in 1..Len(r) : r[i] = path[i]
      <4>1. Len(r) \in Nat /\ Len(r) # 0 /\ r \in Seq(Range(r))
        BY <2>4 DEF IsPath, IsList
      <4> QED BY <2>4, <3>1, <4>1, PrefixIs
    <3>4. CASE Len(r) = 1
      <4>1. r = <<path[1]>>
        BY <3>3, <3>4
      <4> QED BY <4>1 DEF SectionPath
    <3>5. CASE Len(r) # 1
      <4> DEFINE j == Len(r) - 1
                 part == SubSeq(rest, 1, j)
      <4>1. j \in 1..Len(rest)
        <5> HIDE DEF rest
        <5>1. Len(rest) = Len(path) - 1 /\ Len(path) \in Nat \ {0}
          BY <3>1
        <5>2. Len(r) \in 1..Len(path) /\ Len(r) # 1
          BY <3>3, <3>5
        <5>3. \A a, b, n : a = b - 1 /\ b \in Nat \ {0} /\ n \in 1..b /\ n # 1 => n - 1 \in 1..a
          OBVIOUS
        <5>4. Len(r) - 1 \in 1..Len(rest)
          BY <5>1, <5>2, <5>3
        <5> QED BY <5>4
      <4>2. /\ part \in Seq(Range(path)) /\ Len(part) = j
            /\ \A i \in 1..j : part[i] = path[i + 1]
        <5>1. \A i \in 1..Len(rest) : rest[i] = path[i + 1]
          BY <3>1
        <5>2. rest \in Seq(Range(path))
          BY <3>1
        <5> HIDE DEF rest, j
        <5> QED BY <4>1, <5>1, <5>2
      <4>3. section \o part = r
        <5>1. section = <<path[1]>> /\ path[1] \in Range(path)
          BY <3>1 DEF SectionPath, Range
        <5>2. /\ section \o part \in Seq(Range(path)) /\ Len(section \o part) = Len(r)
              /\ (section \o part)[1] = path[1]
              /\ \A i \in 2..Len(r) : (section \o part)[i] = part[i - 1]
          <6> HIDE DEF part, section
          <6> QED BY <3>3, <4>2, <5>1
        <5> DEFINE joined == section \o part
        <5>3. \A i \in 1..Len(r) : joined[i] = r[i]
          <6>1. \A i \in 2..Len(r) : i - 1 \in 1..j /\ (i - 1) + 1 = i
            BY <3>3
          <6>2. \A i \in 2..Len(r) : part[i - 1] = path[i] /\ path[i] = r[i]
            <7> HIDE DEF part, j
            <7> QED BY <3>3, <4>2, <6>1
          <6>3. joined[1] = path[1] /\ path[1] = r[1] /\ \A i \in 2..Len(r) : joined[i] = part[i - 1]
            BY <3>3, <5>2
          <6>4. \A i \in 1..Len(r) : i = 1 \/ i \in 2..Len(r)
            BY <3>3
          <6> HIDE DEF part, joined
          <6> QED BY <6>2, <6>3, <6>4
        <5>4. joined \in Seq(Range(path)) /\ Len(joined) = Len(r)
          BY <5>2
        <5> HIDE DEF joined
        <5>5. joined = r
          BY <3>3, <5>3, <5>4
        <5> QED BY <5>5 DEF joined
      <4> HIDE DEF part, section, rest, j
      <4>4. section \o SubSeq(rest, 1, j) = r
        BY <4>3 DEF part
      <4>5. section \o SubSeq(rest, 1, j) \in DOMAIN before /\ section \o SubSeq(rest, 1, j) \in DOMAIN after
        BY <3>2, <4>1
      <4> QED BY <4>4, <4>5
    <3> QED BY <3>4, <3>5
  <2> HIDE DEF section, whole
  <2> QED BY <2>2, <2>3, <2>4 DEF Alike, Same, Under
<1> QED BY <1>2, <1>3

LEMMA ChangedIsNotSame ==
  ASSUME NEW before, NEW after, NEW path, IsPath(path),
         \A q \in DOMAIN before \cup DOMAIN after : IsPath(q),
         ChangedPaths(before, after, ReadAt(before, after, path)) # {}
  PROVE  ~Same(before, after, SectionPath(path))
<1> DEFINE section == SectionPath(path)
           at == ReadAt(before, after, path)
<1>1. PICK q \in ChangedPaths(before, after, at) : TRUE
  OBVIOUS
<1>2. at \in {path, section}
  BY DEF ReadAt
<1>3. q \in DOMAIN before \cup DOMAIN after /\ Covers(at, q) /\ IsPath(q)
      /\ (q \notin DOMAIN before \/ q \notin DOMAIN after \/ before[q] # after[q])
  BY <1>1 DEF ChangedPaths, Under
<1>4. Covers(section, q)
  <2>1. Len(path) \in Nat /\ Len(path) # 0
    BY DEF IsPath, IsList
  <2>2. Covers(path, q) => Covers(section, q)
    <3> HIDE DEF at
    <3> QED BY <1>3, <2>1, PrefixIs
  <2> HIDE DEF at, section
  <2> QED BY <1>2, <1>3, <2>2
<1> HIDE DEF at, section
<1>5. ASSUME Same(before, after, section) PROVE FALSE
  <2>1. \A r : r \in DOMAIN before /\ Covers(section, r) <=> r \in DOMAIN after /\ Covers(section, r)
    BY <1>5 DEF Same, Under
  <2>2. \A r \in DOMAIN before : Covers(section, r) => before[r] = after[r]
    BY <1>5 DEF Same, Under
  <2> QED BY <1>3, <1>4, <2>1, <2>2
<1> QED BY <1>5 DEF section

(* What a writing is told to cite within the path, and the windows it is   *)
(* told of, are those since its own case was decided.                      *)
LEMMA WithinIs ==
  ASSUME IInv, NEW asked, IsPath(asked),
         NEW c \in WithRelation(CasesCiting(printings, links, refuted, asked), "within"),
         NEW p \in c.cites
  PROVE  /\ c.writing[1] \in Case /\ IsPath(p.path) /\ links # {}
         /\ p.windows \in {{}, SincePublication(printings, p.path, Decided[c.writing[1]])}
<1> DEFINE N == Reaching(asked)
           citing(w, o) == {l \in N : WritingOf(l.subject) = w /\ l.object = o}
           cites(w) == {CitedProvision(printings, citing(w, o), o, asked) :
                          o \in {l.object : l \in {n \in N : WritingOf(n.subject) = w}}}
           W == {WritingOf(l.subject) : l \in N}
           case(w) == [writing |-> w, cites |-> cites(w)]
           part(k) == [k EXCEPT !.cites = {q \in @ : q.relation = "within"}]
<1>1. CasesCiting(printings, links, refuted, asked) = {case(w) : w \in W}
  BY CitingAre
<1>2. WithRelation(CasesCiting(printings, links, refuted, asked), "within") \subseteq
        {part(k) : k \in CasesCiting(printings, links, refuted, asked)}
  BY DEF WithRelation
<1>3. PICK w \in W : c = part(case(w))
  <2> HIDE DEF part, case, W
  <2> QED BY <1>1, <1>2
<1>4. c.writing = w /\ c.cites \subseteq cites(w)
  <2> HIDE DEF cites, W
  <2> QED BY <1>3
<1>5. PICK o \in {l.object : l \in {n \in N : WritingOf(n.subject) = w}} :
        p = CitedProvision(printings, citing(w, o), o, asked)
  <2>1. p \in cites(w)
    <3> HIDE DEF cites
    <3> QED BY <1>4
  <2> QED BY <2>1
<1> DEFINE l == CHOOSE k \in citing(w, o) : TRUE
<1>6. l \in citing(w, o)
  <2>1. citing(w, o) # {}
    BY <1>5
  <2> HIDE DEF citing
  <2> QED BY <2>1
<1>7. l \in links /\ WritingOf(l.subject) = w /\ l.object = o
  <2> HIDE DEF l
  <2> QED BY <1>6 DEF Reaching
<1>8. p.path = o /\ p.windows \in {{}, SincePublication(printings, o, l.decided)}
  <2> HIDE DEF citing
  <2> QED BY <1>5 DEF CitedProvision
<1> HIDE DEF l
<1>9. IsPath(l.object) /\ l.subject[1] \in Case /\ l.decided = Decided[l.subject[1]]
  BY <1>7, LinkIs
<1>10. w[1] = l.subject[1]
  BY <1>7 DEF WritingOf
<1> QED BY <1>4, <1>7, <1>8, <1>9, <1>10

(* Words that every window since the printing in force tells as unchanged. *)
LEMMA UnchangedSince ==
  ASSUME Types, NEW decided \in Nat, NEW path, IsPath(path),
         NEW read, read = {d \in DOMAIN printings : d >= PrintingFor(DOMAIN printings, decided)},
         \A d \in read : SectionPath(path) \in DOMAIN printings[d],
         \A w \in SincePublication(printings, path, decided) : ~w.changed /\ w.above = {}
  PROVE  \A d, e \in read : Same(printings[d], printings[e], path)
<1> DEFINE dates == DOMAIN printings
           since == PrintingFor(dates, decided)
<1>1. dates \in SUBSET Nat /\ IsFiniteSet(dates) /\ \A d \in dates : printings[d] \in Trees
  BY HeldIs
<1>2. \A d \in dates : \A q \in DOMAIN printings[d] : IsPath(q)
  BY <1>1, TreesAssumption
<1>3. read \subseteq dates /\ \A d \in dates : d \in read <=> d >= since
  OBVIOUS
<1>4. dates # {} => since \in dates /\ \A d \in dates : d > since => d > decided
  BY <1>1, PrintingForIs
<1> HIDE DEF dates, since
<1>5. ASSUME NEW d \in read, NEW e \in dates, d < e, ~\E f \in dates : d < f /\ f < e
      PROVE  Alike(printings[d], printings[e], path)
  <2>1. since \in Nat /\ d \in Nat /\ e \in Nat /\ e > decided /\ e \in read /\ d \in dates
    <3>1. d \in dates
      BY <1>3, <1>5
    <3>2. since \in dates /\ d >= since /\ (e > since => e > decided) /\ (e >= since => e \in read)
      BY <1>3, <1>4, <1>5, <3>1
    <3>3. since \in Nat /\ d \in Nat /\ e \in Nat
      BY <1>1, <3>1, <3>2
    <3>4. e > since /\ e >= since
      BY <1>5, <3>2, <3>3
    <3> QED BY <3>1, <3>2, <3>3, <3>4
  <2> DEFINE v == <<d, e>>
             window == ChangeWindow(printings, v, path, decided)
  <2>2. v \in Windows(dates) /\ v[1] = d /\ v[2] = e
    BY <1>5, <2>1 DEF Windows
  <2>3. window \in SincePublication(printings, path, decided)
    <3>1. v \in {x \in Windows(DOMAIN printings) : x[2] > decided}
      BY <2>1, <2>2 DEF dates
    <3> QED BY <3>1 DEF SincePublication
  <2>4. ~window.changed /\ window.above = {}
    <3> HIDE DEF window
    <3> QED BY <2>3
  <2>5. SectionPath(path) \in DOMAIN printings[d] \cap DOMAIN printings[e]
    BY <2>1
  <2>6. /\ ChangedPaths(printings[d], printings[e], ReadAt(printings[d], printings[e], path)) = {}
        /\ ChangedAbove(printings[d], printings[e], ReadAt(printings[d], printings[e], path)) = {}
    <3> HIDE DEF v
    <3> QED BY <2>2, <2>4, <2>5 DEF ChangeWindow
  <2>7. \A q \in DOMAIN printings[d] \cup DOMAIN printings[e] : IsPath(q)
    BY <1>2, <2>1
  <2> QED BY <2>5, <2>6, <2>7, UnchangedIsAlike
<1>6. ASSUME NEW d \in read
      PROVE  \A e \in read : d < e => Alike(printings[d], printings[e], path)
  <2> DEFINE bad == {e \in read : d < e /\ ~Alike(printings[d], printings[e], path)}
  <2>1. SUFFICES ASSUME bad # {} PROVE FALSE
    OBVIOUS
  <2>2. PICK e \in bad : \A f \in bad : e <= f
    <3>1. bad \in SUBSET Nat
      BY <1>1, <1>3
    <3> HIDE DEF bad
    <3> QED BY <2>1, <3>1, LeastMember
  <2> DEFINE earlier == {f \in dates : f < e}
  <2>3. PICK f \in earlier : \A g \in earlier : g <= f
    <3>1. e \in read /\ d < e /\ d \in dates /\ e \in dates
      BY <1>3, <2>2
    <3>2. d \in earlier /\ e \in Nat /\ \A g \in dates : g \in Nat
      BY <1>1, <3>1
    <3>3. earlier \in SUBSET Nat /\ \A g \in earlier : g <= e
      BY <3>2
    <3> HIDE DEF earlier
    <3> QED BY <3>2, <3>3, GreatestBelow
  <2>4. /\ d \in Nat /\ e \in Nat /\ f \in Nat /\ d \in dates /\ e \in dates /\ f \in dates
        /\ d <= f /\ f < e /\ since \in Nat /\ d < e
    BY <1>1, <1>3, <1>4, <2>2, <2>3
  <2>5. ~\E g \in dates : f < g /\ g < e
    <3>1. ASSUME NEW g \in dates, f < g, g < e PROVE FALSE
      <4>1. g \in Nat /\ g <= f
        BY <1>1, <2>3, <3>1
      <4> QED BY <2>4, <3>1, <4>1
    <3> QED BY <3>1
  <2>6. f \in read
    BY <1>3, <2>4
  <2>7. Alike(printings[f], printings[e], path)
    BY <1>5, <2>4, <2>5, <2>6
  <2>8. f = d \/ Alike(printings[d], printings[f], path)
    <3>1. f # d => d < f
      BY <2>4
    <3>2. f \notin bad
      <4>1. ~(e <= f)
        BY <2>4
      <4> HIDE DEF bad
      <4> QED BY <2>2, <4>1
    <3> QED BY <2>6, <3>1, <3>2
  <2>9. Alike(printings[d], printings[e], path)
    <3>1. CASE f = d
      BY <2>7, <3>1
    <3>2. CASE Alike(printings[d], printings[f], path)
      <4>1. \A q \in DOMAIN printings[d] \cup DOMAIN printings[f] \cup DOMAIN printings[e] : IsPath(q)
        BY <1>2, <2>4
      <4> QED BY <2>7, <3>2, <4>1, AlikeTwice
    <3> QED BY <2>8, <3>1, <3>2
  <2> QED BY <2>2, <2>9
<1>7. ASSUME NEW s, NEW t, Same(s, t, path) PROVE Same(t, s, path)
  BY <1>7 DEF Same
<1>8. \A s : Same(s, s, path)
  BY DEF Same
<1>9. ASSUME NEW d \in read, NEW e \in read PROVE Same(printings[d], printings[e], path)
  <2>1. d \in Nat /\ e \in Nat
    BY <1>1, <1>3
  <2>2. d < e \/ d = e \/ e < d
    BY <2>1
  <2> QED BY <1>6, <1>7, <1>8, <2>2 DEF Alike
<1> QED BY <1>9

(* A writing is counted as citing what changed after it only when two      *)
(* printings of the section on or after its decision differ, and as citing *)
(* what did not only when every printing since the one in force gives the  *)
(* words alike (tally, since_publication, changed_between).                *)
THEOREM TallyIsAlwaysTrue == Spec => []TallyIsTrue
<1>1. ASSUME IInv PROVE TallyIsTrue
  <2>1. SUFFICES ASSUME NEW asked \in Paths,
                        NEW c \in WithRelation(CasesCiting(printings, links, refuted, asked), "within")
        PROVE LET decided == Decided[c.writing[1]]
                  since == {d \in DOMAIN printings : d >= decided}
                  read == {d \in DOMAIN printings : d >= PrintingFor(DOMAIN printings, decided)}
                  tally == Tally(c) IN
              /\ tally = "after" =>
                   \E p \in c.cites : \E d, e \in since :
                     ~ Same(printings[d], printings[e], SectionPath(p.path))
              /\ tally = "unchanged" =>
                   \A p \in c.cites :
                     (p.windows # {} /\ \A d \in read : SectionPath(p.path) \in DOMAIN printings[d]) =>
                       \A d, e \in read : Same(printings[d], printings[e], p.path)
    BY DEF TallyIsTrue
  <2> DEFINE decided == Decided[c.writing[1]]
             windows == UNION {p.windows : p \in c.cites}
             since == {d \in DOMAIN printings : d >= decided}
             read == {d \in DOMAIN printings : d >= PrintingFor(DOMAIN printings, decided)}
  <2>2. ASSUME NEW p \in c.cites
        PROVE  /\ c.writing[1] \in Case /\ IsPath(p.path)
               /\ p.windows \in {{}, SincePublication(printings, p.path, decided)}
    BY <1>1, PathsAre, WithinIs
  <2>3. ASSUME Tally(c) = "after"
        PROVE  \E p \in c.cites : \E d, e \in since :
                 ~ Same(printings[d], printings[e], SectionPath(p.path))
    <3>1. PICK w \in windows : w.changed /\ ~w.startsBefore
      BY <2>3 DEF Tally
    <3>2. PICK p \in c.cites : w \in p.windows
      OBVIOUS
    <3>3. /\ c.writing[1] \in Case /\ IsPath(p.path) /\ decided \in Nat
          /\ w \in SincePublication(printings, p.path, decided)
      BY <2>2, <3>2, DateAssumption
    <3> HIDE DEF decided
    <3>4. PICK v \in Windows(DOMAIN printings) :
            v[2] > decided /\ w = ChangeWindow(printings, v, p.path, decided)
      BY <3>3 DEF SincePublication
    <3> DEFINE before == printings[v[1]]
               after == printings[v[2]]
    <3>5. v[1] \in DOMAIN printings /\ v[2] \in DOMAIN printings
      BY DEF Windows
    <3>6. /\ ~(v[1] < decided)
          /\ ChangedPaths(before, after, ReadAt(before, after, p.path)) # {}
      BY <3>1, <3>4 DEF ChangeWindow
    <3>7. before \in Trees /\ after \in Trees /\ v[1] \in Nat /\ v[2] \in Nat
      BY <1>1, <3>5, HeldIs DEF IInv
    <3>8. v[1] \in since /\ v[2] \in since
      BY <3>3, <3>4, <3>5, <3>6, <3>7
    <3> HIDE DEF before, after, since
    <3>9. ~Same(before, after, SectionPath(p.path))
      <4>1. \A q \in DOMAIN before \cup DOMAIN after : IsPath(q)
        BY <3>7, TreesAssumption
      <4> QED BY <3>3, <3>6, <4>1, ChangedIsNotSame
    <3> QED BY <3>8, <3>9 DEF before, after
  <2>4. ASSUME Tally(c) = "unchanged", NEW p \in c.cites, p.windows # {},
               \A d \in read : SectionPath(p.path) \in DOMAIN printings[d]
        PROVE  \A d, e \in read : Same(printings[d], printings[e], p.path)
    <3>1. \A w \in windows : ~w.changed /\ w.above = {}
      <4> HIDE DEF windows
      <4>1. Tally(c) = IF \E w \in windows : w.changed /\ ~w.startsBefore THEN "after"
                       ELSE IF \E w \in windows : w.changed THEN "straddles"
                       ELSE IF \E w \in windows : w.above # {} THEN "above"
                       ELSE "unchanged"
        BY DEF Tally, windows
      <4> QED BY <2>4, <4>1
    <3>2. /\ decided \in Nat /\ IsPath(p.path)
          /\ p.windows = SincePublication(printings, p.path, decided)
      BY <2>2, <2>4, DateAssumption
    <3>3. \A w \in SincePublication(printings, p.path, decided) : ~w.changed /\ w.above = {}
      BY <3>1, <3>2
    <3>4. read = {d \in DOMAIN printings : d >= PrintingFor(DOMAIN printings, decided)}
      OBVIOUS
    <3> HIDE DEF read, decided
    <3> QED BY <1>1, <2>4, <3>2, <3>3, <3>4, UnchangedSince DEF IInv
  <2> HIDE DEF windows
  <2> QED BY <2>3, <2>4
<1> QED BY <1>1, AlwaysIInv, PTL
=============================================================================
