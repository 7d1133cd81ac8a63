--------------------------- MODULE MatchingProofs ---------------------------
(***************************************************************************)
(* Evidence matching, and what is left of it to do.                        *)
(*                                                                         *)
(* A change has one cause.  resolve gives a change that was not edited in  *)
(* place to one amendment at most, whatever words the contenders quote and *)
(* whatever the changes show (resolve.rs 4-6), and match_in_work resolves  *)
(* together all that can claim one change: every place of an amendment is  *)
(* below one section, and two places below different sections share only a *)
(* provision added whole around both.  That they are below one section     *)
(* needs the printings to be trees, whatever was enacted and done to them, *)
(* and a window to renumber nothing that holds a section.                  *)
(*                                                                         *)
(* Its links stand: a printing more is one window more to look in, and a   *)
(* place with changes in an older window is resolved there, with the same  *)
(* others.  Only an amendment that was read inside what a window added may *)
(* be resolved in the newer one.                                           *)
(*                                                                         *)
(* The reports of what is left to do and of what a newer matcher no longer *)
(* makes are true, for any laws, printings, versions and number of         *)
(* commands, and whatever the matcher answers.  That a link is in the      *)
(* section its amendment names, and so found where the list looks for it,  *)
(* is of what it answers, where sections stay.                             *)
(***************************************************************************)
EXTENDS WorkList, WellFoundedInduction, TLAPS

-----------------------------------------------------------------------------
(* A change has one cause.                                                 *)

(* All that causes say of a change is of one amendment.                    *)
OfOne(causes) == \A p, q \in causes : p[1] = q[1]

(* Every change that was not edited in place has one cause.                *)
CausesAreOne(cause) ==
  \A change \in DOMAIN cause : ~EditedInPlace(change) => OfOne(cause[change])

(* The addresses of contenders are paths.                                  *)
HasAddresses(contenders) ==
  \A who \in DOMAIN contenders :
    contenders[who].address \in Seq([level : STRING, number : STRING])

LEMMA OneIsOne == ASSUME NEW S, NEW x \in One(S), NEW y \in One(S) PROVE x = y
BY DEF One

LEMMA JoinedCauses ==
  ASSUME NEW f, CausesAreOne(f), NEW g, CausesAreOne(g)
  PROVE  CausesAreOne(And(f, g))
BY DEF CausesAreOne, And

LEMMA ApartOfEachOther ==
  ASSUME NEW s \in Seq([level : STRING, number : STRING]),
         NEW t \in Seq([level : STRING, number : STRING]),
         IsBelow(s, t), IsBelow(t, s)
  PROVE  FALSE
<1>1. IsPrefix(t, s) /\ IsPrefix(s, t) /\ s # t
  BY DEF IsBelow, IsStrictPrefix
<1>2. Len(s) = Len(t)
  BY <1>1 DEF IsPrefix
<1>3. SubSeq(t, 1, Len(t)) = SubSeq(s, 1, Len(t))
  BY <1>1 DEF IsPrefix
<1>4. s = t
  BY <1>2, <1>3
<1> QED BY <1>1, <1>4

LEMMA NarrowestIsOne ==
  ASSUME NEW contenders, HasAddresses(contenders),
         NEW tied \in SUBSET DOMAIN contenders,
         NEW x \in NarrowestAddress(contenders, tied),
         NEW y \in NarrowestAddress(contenders, tied)
  PROVE  x = y
<1> SUFFICES ASSUME x # y PROVE FALSE OBVIOUS
<1>1. x \in tied /\ y \in tied
  BY DEF NarrowestAddress
<1>2. /\ IsBelow(contenders[x].address, contenders[y].address)
      /\ IsBelow(contenders[y].address, contenders[x].address)
  BY <1>1 DEF NarrowestAddress
<1> QED BY <1>1, <1>2, ApartOfEachOther DEF HasAddresses

LEMMA RankedIsOne ==
  ASSUME NEW change, NEW contenders, NEW tied,
         NEW x \in RankByOverlap(change, contenders, tied),
         NEW y \in RankByOverlap(change, contenders, tied)
  PROVE  x = y
<1> DEFINE score(who) == Overlap(contenders[who].evidence, change)
           leads(who) == /\ score(who)[1] > 0
                         /\ \A other \in tied : score(other)[1] <= score(who)[1]
<1>1. \/ RankByOverlap(change, contenders, tied) = One(tied)
      \/ RankByOverlap(change, contenders, tied) = One({who \in tied : leads(who)})
  BY Zenon DEF RankByOverlap
<1> HIDE DEF leads
<1> QED BY <1>1, OneIsOne

(* The words of several amendments give a change that was not edited in    *)
(* place to one of them.                                                   *)
LEMMA ByWordsIsOne ==
  ASSUME NEW change, ~EditedInPlace(change),
         NEW contenders, HasAddresses(contenders),
         NEW claims, \A c \in claims : c.who \in DOMAIN contenders
  PROVE  OfOne(ByWords(change, contenders, claims))
<1> DEFINE gives(S) == {<<c.who, Quoting(c.shown)>> : c \in {c \in claims : c.who \in S}}
           rewrote == {c.who : c \in {c \in claims :
                                       \E s \in Range(c.shown) : s.rewrote}}
           tied == {c.who : c \in {c \in claims :
                      \A d \in claims : Len(d.shown) <= Len(c.shown)}}
           ranked == RankByOverlap(change, contenders, tied)
           narrowest == NarrowestAddress(contenders, tied)
<1>1. ASSUME NEW S, \A x, y \in S : x = y PROVE OfOne(gives(S))
  <2>1. \A p \in gives(S) : p[1] \in S
    OBVIOUS
  <2> QED BY <2>1, <1>1 DEF OfOne
<1>2. OfOne(gives(One(rewrote)))
  BY <1>1, OneIsOne
<1>3. OfOne(gives(ranked))
  BY <1>1, RankedIsOne
<1>4. OfOne(gives(narrowest))
  <2>1. tied \in SUBSET DOMAIN contenders
    OBVIOUS
  <2> HIDE DEF tied
  <2>2. \A x, y \in narrowest : x = y
    BY <2>1, NarrowestIsOne
  <2> QED BY <2>2, <1>1
<1>5. \/ ByWords(change, contenders, claims) = gives(One(rewrote))
      \/ ByWords(change, contenders, claims) = gives(ranked)
      \/ ByWords(change, contenders, claims) = gives(narrowest)
  BY Zenon DEF ByWords
<1> HIDE DEF gives, ranked, narrowest, rewrote
<1> QED BY <1>2, <1>3, <1>4, <1>5

LEMMA ClaimsAreContenders ==
  ASSUME NEW change, NEW contenders
  PROVE  \A c \in Claims(change, contenders) : c.who \in DOMAIN contenders
BY DEF Claims, Holders

LEMMA StrongAreClaims ==
  ASSUME NEW claims, NEW S, \A c \in claims : c.who \in S
  PROVE  \A c \in Strong(claims) : c.who \in S
<1> SUFFICES ASSUME NEW c \in Strong(claims) PROVE c.who \in S
  OBVIOUS
<1>1. PICK d \in claims : \E shown : c = [who |-> d.who, shown |-> shown]
  BY Zenon DEF Strong
<1> QED BY <1>1

LEMMA InsideIsOne ==
  ASSUME NEW contenders, NEW carrying, NEW change,
         NEW p \in InsideCarrying(contenders, carrying, change),
         NEW q \in InsideCarrying(contenders, carrying, change)
  PROVE  p = q
<1> DEFINE around == {r \in carrying : /\ IsBelow(change.path, r[1])
                                       /\ change \in contenders[r[2]].candidates}
           nearest == One({r \in around : \A s \in around : Len(s[1]) <= Len(r[1])})
<1>1. PICK r \in nearest : p = <<r[2], r[1]>>
  BY Zenon DEF InsideCarrying
<1>2. PICK s \in nearest : q = <<s[2], s[1]>>
  BY Zenon DEF InsideCarrying
<1> HIDE DEF nearest
<1>3. r = s
  BY OneIsOne DEF nearest
<1> QED BY <1>1, <1>2, <1>3

LEMMA Step0One == ASSUME NEW contenders PROVE CausesAreOne(Step0(contenders))
<1>1. ASSUME NEW change, NEW p \in {<<who, Renumbering>> : who \in NamedBy(change, contenders)},
             NEW q \in {<<who, Renumbering>> : who \in NamedBy(change, contenders)}
      PROVE  p[1] = q[1]
  <2>1. p[1] \in NamedBy(change, contenders) /\ q[1] \in NamedBy(change, contenders)
    OBVIOUS
  <2> QED BY <2>1, OneIsOne DEF NamedBy
<1>2. \A change \in DOMAIN Step0(contenders) :
        Step0(contenders)[change] = {<<who, Renumbering>> : who \in NamedBy(change, contenders)}
  BY Zenon DEF Step0
<1> SUFFICES ASSUME NEW change \in DOMAIN Step0(contenders)
             PROVE  OfOne(Step0(contenders)[change])
  BY DEF CausesAreOne
<1>3. OfOne({<<who, Renumbering>> : who \in NamedBy(change, contenders)})
  BY <1>1 DEF OfOne
<1> QED BY <1>2, <1>3

LEMMA Step1One ==
  ASSUME NEW contenders, HasAddresses(contenders),
         NEW cause, CausesAreOne(cause)
  PROVE  CausesAreOne(Step1(contenders, cause))
<1> DEFINE asked == {[change |-> change, claims |-> Claims(change, contenders)] :
                       change \in Candidates(contenders) \ DOMAIN cause}
           clear == {q \in asked : Strong(q.claims) # {}}
           claimed(Q, change) == (CHOOSE q \in Q : q.change = change).claims
           strong == [change \in {q.change : q \in clear} |->
                        ByWords(change, contenders, Strong(claimed(clear, change)))]
           said == And(cause, strong)
           carrying == ThatCarry(contenders, said)
           weak == {q \in asked \ clear :
                      /\ q.claims # {}
                      /\ InsideCarrying(contenders, carrying, q.change) = {}}
           few == [change \in {q.change : q \in weak} |->
                     ByWords(change, contenders, claimed(weak, change))]
<1>1. \A q \in asked : \A c \in q.claims : c.who \in DOMAIN contenders
  BY ClaimsAreContenders
<1>2. ASSUME NEW Q \in SUBSET asked, NEW change \in {q.change : q \in Q}
      PROVE  \A c \in claimed(Q, change) : c.who \in DOMAIN contenders
  <2>1. \E q \in Q : q.change = change
    OBVIOUS
  <2>2. (CHOOSE q \in Q : q.change = change) \in asked
    BY <2>1
  <2> HIDE DEF asked
  <2> QED BY <1>1, <2>2
<1>3. CausesAreOne(strong)
  <2> SUFFICES ASSUME NEW change \in {q.change : q \in clear}, ~EditedInPlace(change)
               PROVE  OfOne(ByWords(change, contenders, Strong(claimed(clear, change))))
    BY DEF CausesAreOne
  <2>1. clear \in SUBSET asked
    OBVIOUS
  <2> HIDE DEF clear, asked
  <2>2. \A c \in claimed(clear, change) : c.who \in DOMAIN contenders
    BY <1>2, <2>1
  <2> HIDE DEF claimed
  <2>3. \A c \in Strong(claimed(clear, change)) : c.who \in DOMAIN contenders
    BY <2>2, StrongAreClaims
  <2> QED BY <2>3, ByWordsIsOne
<1>4. CausesAreOne(few)
  <2> SUFFICES ASSUME NEW change \in {q.change : q \in weak}, ~EditedInPlace(change)
               PROVE  OfOne(ByWords(change, contenders, claimed(weak, change)))
    BY DEF CausesAreOne
  <2>1. weak \in SUBSET asked
    OBVIOUS
  <2> HIDE DEF weak, asked
  <2>2. \A c \in claimed(weak, change) : c.who \in DOMAIN contenders
    BY <1>2, <2>1
  <2> HIDE DEF claimed
  <2> QED BY <2>2, ByWordsIsOne
<1>5. Step1(contenders, cause) = And(said, few)
  BY Zenon DEF Step1
<1> HIDE DEF strong, few
<1> QED BY <1>3, <1>4, <1>5, JoinedCauses

LEMMA Step2One ==
  ASSUME NEW contenders, NEW cause, CausesAreOne(cause)
  PROVE  CausesAreOne(Step2(contenders, cause))
<1> DEFINE by(change) == InsideCarrying(contenders, ThatCarry(contenders, cause), change)
           carried == {change \in Candidates(contenders) \ DOMAIN cause : by(change) # {}}
           inside == [change \in carried |-> {<<p[1], Inside(p[2])>> : p \in by(change)}]
<1>1. CausesAreOne(inside)
  <2> HIDE DEF carried
  <2> SUFFICES ASSUME NEW change \in carried
               PROVE  OfOne({<<p[1], Inside(p[2])>> : p \in by(change)})
    BY DEF CausesAreOne
  <2>1. \A p, q \in by(change) : p = q
    BY InsideIsOne
  <2> HIDE DEF by
  <2> QED BY <2>1 DEF OfOne
<1>2. Step2(contenders, cause) = And(cause, inside)
  BY Zenon DEF Step2
<1> HIDE DEF inside
<1> QED BY <1>1, <1>2, JoinedCauses

LEMMA Step3One ==
  ASSUME NEW contenders, NEW cause, CausesAreOne(cause)
  PROVE  CausesAreOne(Step3(contenders, cause))
<1> DEFINE given(who) == \E change \in DOMAIN cause :
                           \E c \in cause[change] : c[1] = who
           free(who) == Free(contenders[who], cause, given(who))
           may == {who \in DOMAIN contenders :
                     \/ ~QuotesAnything(contenders[who].evidence)
                     \/ One(free(who)) # {}}
           wants == UNION {{[who |-> who, change |-> change] : change \in free(who)} :
                             who \in may}
           wanting(change) == {w.who : w \in {w \in wants : w.change = change}}
           ranked(change) == RankByOverlap(change, contenders, wanting(change))
           taken == [change \in {w.change : w \in wants} |->
                       {<<who, ByAddress>> : who \in ranked(change)}]
<1>1. CausesAreOne(taken)
  <2> HIDE DEF wants
  <2> SUFFICES ASSUME NEW change \in {w.change : w \in wants}
               PROVE  OfOne({<<who, ByAddress>> : who \in ranked(change)})
    BY DEF CausesAreOne
  <2>1. \A p, q \in ranked(change) : p = q
    BY RankedIsOne
  <2> HIDE DEF ranked
  <2> QED BY <2>1 DEF OfOne
<1>2. Step3(contenders, cause) = And(cause, taken)
  BY Zenon DEF Step3
<1> HIDE DEF taken
<1> QED BY <1>1, <1>2, JoinedCauses

(* Of the amendments resolved together, one at most is given a change that *)
(* was not edited in place, whatever the words quoted, the law or the      *)
(* addresses: what resolve.rs says of the four steps.                      *)
THEOREM ResolvedIsOne ==
  ASSUME NEW contenders, HasAddresses(contenders)
  PROVE  /\ CausesAreOne(Resolved(contenders))
         /\ \A one, other \in DOMAIN contenders :
              \A change \in CausedBy(one, Resolved(contenders))
                              \cap CausedBy(other, Resolved(contenders)) :
                one # other => EditedInPlace(change)
<1>1. CausesAreOne(Resolved(contenders))
  BY Step0One, Step1One, Step2One, Step3One DEF Resolved
<1>2. ASSUME NEW cause, CausesAreOne(cause), NEW one, NEW other,
             NEW change \in CausedBy(one, cause) \cap CausedBy(other, cause),
             ~EditedInPlace(change)
      PROVE  one = other
  <2>1. /\ change \in DOMAIN cause
        /\ \E c \in cause[change] : c[1] = one
        /\ \E c \in cause[change] : c[1] = other
    BY DEF CausedBy
  <2> QED BY <2>1, <1>2 DEF CausesAreOne, OfOne
<1> QED BY <1>1, <1>2

-----------------------------------------------------------------------------
(* Paths: one is a prefix of another, and is in one section at most.       *)

(* A path is a prefix of another where it has the same segments.           *)
LEMMA PrefixIs ==
  ASSUME NEW s \in Path, NEW t \in Path
  PROVE  IsPrefix(s, t) <=> Len(s) <= Len(t) /\ \A n \in 1..Len(s) : s[n] = t[n]
<1>1. /\ Len(s) \in Nat /\ Len(t) \in Nat
      /\ SubSeq(s, 1, Len(s)) = s
  BY DEF Path
<1>2. ASSUME Len(s) <= Len(t)
      PROVE  SubSeq(t, 1, Len(s)) = s <=> \A n \in 1..Len(s) : s[n] = t[n]
  <2>1. /\ SubSeq(t, 1, Len(s)) \in Path /\ Len(SubSeq(t, 1, Len(s))) = Len(s)
        /\ \A n \in 1..Len(s) : SubSeq(t, 1, Len(s))[n] = t[n]
    BY <1>1, <1>2 DEF Path
  <2> DEFINE u == SubSeq(t, 1, Len(s))
  <2> HIDE DEF u
  <2>2. u = s <=> \A n \in 1..Len(s) : u[n] = s[n]
    BY <2>1 DEF u, Path
  <2> QED BY <2>1, <2>2 DEF u
<1> QED BY <1>1, <1>2 DEF IsPrefix

(* A prefix of a prefix is one.                                            *)
LEMMA PrefixOfPrefix ==
  ASSUME NEW s \in Path, NEW t \in Path, NEW u \in Path,
         IsPrefix(s, t), IsPrefix(t, u)
  PROVE  IsPrefix(s, u)
<1>1. Len(s) \in Nat /\ Len(t) \in Nat /\ Len(u) \in Nat
  BY DEF Path
<1>2. /\ Len(s) <= Len(t) /\ \A n \in 1..Len(s) : s[n] = t[n]
      /\ Len(t) <= Len(u) /\ \A n \in 1..Len(t) : t[n] = u[n]
  BY PrefixIs
<1>3. Len(s) <= Len(u) /\ \A n \in 1..Len(s) : s[n] = u[n]
  BY <1>1, <1>2
<1> QED BY <1>3, PrefixIs

(* Of two prefixes of one path the shorter is a prefix of the other.       *)
LEMMA PrefixesMeet ==
  ASSUME NEW s \in Path, NEW t \in Path, NEW u \in Path,
         IsPrefix(s, u), IsPrefix(t, u)
  PROVE  (Len(s) <= Len(t) => IsPrefix(s, t)) /\ (IsPrefix(s, t) \/ IsPrefix(t, s))
<1>1. Len(s) \in Nat /\ Len(t) \in Nat /\ Len(u) \in Nat
  BY DEF Path
<1>2. /\ Len(s) <= Len(u) /\ \A n \in 1..Len(s) : s[n] = u[n]
      /\ Len(t) <= Len(u) /\ \A n \in 1..Len(t) : t[n] = u[n]
  BY PrefixIs
<1>3. Len(s) <= Len(t) => \A n \in 1..Len(s) : s[n] = t[n]
  BY <1>1, <1>2
<1>4. Len(t) <= Len(s) => \A n \in 1..Len(t) : t[n] = s[n]
  BY <1>1, <1>2
<1> QED BY <1>1, <1>3, <1>4, PrefixIs

(* The path of a section.                                                  *)
IsSection(s) == /\ s \in Path /\ s # <<>>
                /\ s[Len(s)].level = "section"

(* A path is in one section at most.                                       *)
LEMMA SameSection ==
  ASSUME NEW s, IsSection(s), NEW t, IsSection(t), NEW path \in Path,
         OneSection(path), IsPrefix(s, path), IsPrefix(t, path)
  PROVE  s = t
<1>1. /\ s \in Path /\ Len(s) \in 1..Len(s) /\ Len(s) \in Nat
      /\ t \in Path /\ Len(t) \in 1..Len(t) /\ Len(t) \in Nat
      /\ Len(path) \in Nat /\ DOMAIN path = 1..Len(path)
  BY DEF IsSection, Path
<1>2. /\ Len(s) <= Len(path) /\ \A n \in 1..Len(s) : s[n] = path[n]
      /\ Len(t) <= Len(path) /\ \A n \in 1..Len(t) : t[n] = path[n]
  BY <1>1, PrefixIs
<1>3. path[Len(s)].level = "section" /\ path[Len(t)].level = "section"
  BY <1>1, <1>2 DEF IsSection
<1>4. Len(s) = Len(t)
  BY <1>1, <1>2, <1>3 DEF OneSection
<1> QED BY <1>1, <1>2, <1>4 DEF Path

-----------------------------------------------------------------------------
(* An amendment is given changes it can hold, and no others.               *)
ToHolders(contenders, cause) ==
  \A change \in DOMAIN cause : \A c \in cause[change] : c[1] \in Holders(change, contenders)

(* So are the causes of two steps, joined.                                 *)
LEMMA JoinedHolders ==
  ASSUME NEW contenders, NEW f, ToHolders(contenders, f), NEW g, ToHolders(contenders, g)
  PROVE  ToHolders(contenders, And(f, g))
BY DEF ToHolders, And

(* Step 0 gives a change to what named its renumbering.                    *)
LEMMA Step0Holders == ASSUME NEW contenders PROVE ToHolders(contenders, Step0(contenders))
<1> DEFINE named(change) == NamedBy(change, contenders)
           causes(change) == {<<who, Renumbering>> : who \in named(change)}
           to == {x \in Candidates(contenders) : named(x) # {}}
<1>1. Step0(contenders) = [change \in to |-> causes(change)]
  BY Zenon DEF Step0
<1>2. ASSUME NEW change PROVE named(change) \subseteq Holders(change, contenders)
  BY DEF NamedBy, One
<1>3. ASSUME NEW change, NEW c \in causes(change) PROVE c[1] \in Holders(change, contenders)
  <2>1. PICK who \in named(change) : c = <<who, Renumbering>>
    OBVIOUS
  <2> HIDE DEF named
  <2> QED BY <1>2, <2>1
<1> HIDE DEF causes, to
<1> QED BY <1>1, <1>3 DEF ToHolders

(* The best of a tie is one of it.                                         *)
LEMMA RankedAmong ==
  ASSUME NEW change, NEW contenders, NEW tied
  PROVE  RankByOverlap(change, contenders, tied) \subseteq tied
<1> DEFINE score(who) == Overlap(contenders[who].evidence, change)
           leads(who) == /\ score(who)[1] > 0
                         /\ \A other \in tied : score(other)[1] <= score(who)[1]
<1>1. \/ RankByOverlap(change, contenders, tied) = One(tied)
      \/ RankByOverlap(change, contenders, tied) = One({who \in tied : leads(who)})
  BY Zenon DEF RankByOverlap
<1> HIDE DEF leads
<1> QED BY <1>1 DEF One

(* What the words say is of those that claim.                              *)
LEMMA ByWordsAmong ==
  ASSUME NEW change, NEW contenders, NEW claims, NEW S, \A c \in claims : c.who \in S
  PROVE  \A c \in ByWords(change, contenders, claims) : c[1] \in S
<1> DEFINE gives(T) == {<<c.who, Quoting(c.shown)>> : c \in {c \in claims : c.who \in T}}
           rewrote == {c.who : c \in {c \in claims :
                                       \E s \in Range(c.shown) : s.rewrote}}
           own == {c.who : c \in {c \in claims : \E s \in Range(c.shown) :
                     \A d \in claims \ {c} :
                       \A t \in Range(d.shown) : ~IsWithin(s, t)}}
           tied == {c.who : c \in {c \in claims :
                      \A d \in claims : Len(d.shown) <= Len(c.shown)}}
           ranked == RankByOverlap(change, contenders, tied)
           narrowest == NarrowestAddress(contenders, tied)
<1>1. ASSUME NEW T, NEW c \in gives(T) PROVE c[1] \in S
  <2>1. PICK d \in claims : c = <<d.who, Quoting(d.shown)>>
    OBVIOUS
  <2> QED BY <2>1
<1>2. \E T : ByWords(change, contenders, claims) = gives(T)
  <2>1. \/ ByWords(change, contenders, claims) = gives(One(rewrote))
        \/ ByWords(change, contenders, claims) = gives(own)
        \/ ByWords(change, contenders, claims) = gives(ranked)
        \/ ByWords(change, contenders, claims) = gives(narrowest)
    BY Zenon DEF ByWords
  <2> HIDE DEF gives, ranked, narrowest, rewrote, own
  <2> QED BY <2>1
<1> HIDE DEF gives
<1> QED BY <1>1, <1>2

(* Only what can hold a change claims it.                                  *)
LEMMA ClaimsOfHolders ==
  ASSUME NEW change, NEW contenders
  PROVE  \A c \in Claims(change, contenders) : c.who \in Holders(change, contenders)
BY DEF Claims

(* Step 1 gives a change to one that claims it.                            *)
LEMMA Step1Holders ==
  ASSUME NEW contenders, NEW cause, ToHolders(contenders, cause)
  PROVE  ToHolders(contenders, Step1(contenders, cause))
<1> DEFINE asked == {[change |-> change, claims |-> Claims(change, contenders)] :
                       change \in Candidates(contenders) \ DOMAIN cause}
           clear == {q \in asked : Strong(q.claims) # {}}
           claimed(Q, change) == (CHOOSE q \in Q : q.change = change).claims
           strong == [change \in {q.change : q \in clear} |->
                        ByWords(change, contenders, Strong(claimed(clear, change)))]
           said == And(cause, strong)
           carrying == ThatCarry(contenders, said)
           weak == {q \in asked \ clear :
                      /\ q.claims # {}
                      /\ InsideCarrying(contenders, carrying, q.change) = {}}
           few == [change \in {q.change : q \in weak} |->
                     ByWords(change, contenders, claimed(weak, change))]
<1>1. \A q \in asked : q.claims = Claims(q.change, contenders)
  OBVIOUS
<1>2. ASSUME NEW Q \in SUBSET asked, NEW change \in {q.change : q \in Q}
      PROVE  \A c \in claimed(Q, change) : c.who \in Holders(change, contenders)
  <2>1. \E q \in Q : q.change = change
    OBVIOUS
  <2> DEFINE q == CHOOSE r \in Q : r.change = change
  <2>2. q \in asked /\ q.change = change
    BY <2>1
  <2> HIDE DEF asked, q
  <2>3. q.claims = Claims(change, contenders)
    BY <1>1, <2>2
  <2> QED BY <2>3, ClaimsOfHolders DEF q
<1>3. ToHolders(contenders, strong)
  <2>1. clear \in SUBSET asked
    OBVIOUS
  <2> HIDE DEF clear, asked
  <2>2. ASSUME NEW change \in {q.change : q \in clear},
               NEW c \in ByWords(change, contenders, Strong(claimed(clear, change)))
        PROVE  c[1] \in Holders(change, contenders)
    <3>1. \A d \in claimed(clear, change) : d.who \in Holders(change, contenders)
      BY <1>2, <2>1
    <3> HIDE DEF claimed
    <3>2. \A d \in Strong(claimed(clear, change)) : d.who \in Holders(change, contenders)
      BY <3>1, StrongAreClaims
    <3> QED BY <3>2, ByWordsAmong
  <2> HIDE DEF claimed
  <2> QED BY <2>2 DEF ToHolders
<1>4. ToHolders(contenders, few)
  <2>1. weak \in SUBSET asked
    OBVIOUS
  <2> HIDE DEF weak, asked
  <2>2. ASSUME NEW change \in {q.change : q \in weak},
               NEW c \in ByWords(change, contenders, claimed(weak, change))
        PROVE  c[1] \in Holders(change, contenders)
    <3>1. \A d \in claimed(weak, change) : d.who \in Holders(change, contenders)
      BY <1>2, <2>1
    <3> HIDE DEF claimed
    <3> QED BY <3>1, ByWordsAmong
  <2> HIDE DEF claimed
  <2> QED BY <2>2 DEF ToHolders
<1>5. Step1(contenders, cause) = And(said, few)
  BY Zenon DEF Step1
<1> HIDE DEF strong, few
<1> QED BY <1>3, <1>4, <1>5, JoinedHolders

(* Step 2 gives a change to one whose change is around it.                 *)
LEMMA Step2Holders ==
  ASSUME NEW contenders, NEW cause, ToHolders(contenders, cause)
  PROVE  ToHolders(contenders, Step2(contenders, cause))
<1> DEFINE carrying == ThatCarry(contenders, cause)
           by(change) == InsideCarrying(contenders, carrying, change)
           carried == {change \in Candidates(contenders) \ DOMAIN cause : by(change) # {}}
           causes(change) == {<<p[1], Inside(p[2])>> : p \in by(change)}
           inside == [change \in carried |-> causes(change)]
<1>1. ASSUME NEW p \in carrying PROVE p[2] \in DOMAIN contenders
  <2> DEFINE all == UNION {{<<change.path, c[1], Carries(c[2], contenders[c[1]])>> :
                              c \in cause[change]} : change \in DOMAIN cause}
  <2>1. p \in all
    BY DEF ThatCarry
  <2>2. PICK change \in DOMAIN cause : \E c \in cause[change] :
                p = <<change.path, c[1], Carries(c[2], contenders[c[1]])>>
    BY <2>1
  <2>3. PICK c \in cause[change] : p = <<change.path, c[1], Carries(c[2], contenders[c[1]])>>
    BY <2>2
  <2>4. c[1] \in Holders(change, contenders)
    BY DEF ToHolders
  <2> QED BY <2>3, <2>4 DEF Holders
<1>2. ASSUME NEW change, NEW p \in by(change) PROVE p[1] \in Holders(change, contenders)
  <2> DEFINE around == {r \in carrying : /\ IsBelow(change.path, r[1])
                                         /\ change \in contenders[r[2]].candidates}
             nearest == One({r \in around : \A s \in around : Len(s[1]) <= Len(r[1])})
  <2>1. PICK r \in nearest : p = <<r[2], r[1]>>
    BY Zenon DEF InsideCarrying
  <2>2. r \in around
    BY DEF One
  <2> HIDE DEF nearest, carrying
  <2> QED BY <1>1, <2>1, <2>2 DEF Holders
<1>3. ASSUME NEW change, NEW c \in causes(change) PROVE c[1] \in Holders(change, contenders)
  <2>1. PICK p \in by(change) : c = <<p[1], Inside(p[2])>>
    OBVIOUS
  <2> HIDE DEF by
  <2> QED BY <1>2, <2>1
<1>4. ToHolders(contenders, inside)
  <2> HIDE DEF causes, carried
  <2> QED BY <1>3 DEF ToHolders
<1>5. Step2(contenders, cause) = And(cause, inside)
  BY Zenon DEF Step2
<1> HIDE DEF inside
<1> QED BY <1>4, <1>5, JoinedHolders

(* Step 3 gives a change to one that is addressed there.                   *)
LEMMA Step3Holders ==
  ASSUME NEW contenders, NEW cause, ToHolders(contenders, cause)
  PROVE  ToHolders(contenders, Step3(contenders, cause))
<1> DEFINE given(who) == \E change \in DOMAIN cause :
                           \E c \in cause[change] : c[1] = who
           free(who) == Free(contenders[who], cause, given(who))
           may == {who \in DOMAIN contenders :
                     \/ ~QuotesAnything(contenders[who].evidence)
                     \/ One(free(who)) # {}}
           wants == UNION {{[who |-> who, change |-> change] : change \in free(who)} :
                             who \in may}
           wanting(change) == {w.who : w \in {w \in wants : w.change = change}}
           ranked(change) == RankByOverlap(change, contenders, wanting(change))
           causes(change) == {<<who, ByAddress>> : who \in ranked(change)}
           taken == [change \in {w.change : w \in wants} |-> causes(change)]
<1>1. ASSUME NEW who PROVE free(who) \subseteq contenders[who].candidates
  BY DEF Free
<1>2. ASSUME NEW w \in wants PROVE w.who \in Holders(w.change, contenders)
  <2>1. PICK who \in may : w \in {[who |-> who, change |-> change] : change \in free(who)}
    OBVIOUS
  <2> HIDE DEF free
  <2>2. w.who = who /\ w.change \in free(who) /\ who \in DOMAIN contenders
    BY <2>1
  <2> QED BY <1>1, <2>2 DEF Holders
<1>3. ASSUME NEW change, NEW c \in causes(change) PROVE c[1] \in Holders(change, contenders)
  <2>1. PICK who \in ranked(change) : c = <<who, ByAddress>>
    OBVIOUS
  <2>2. who \in wanting(change)
    BY RankedAmong
  <2> HIDE DEF wants
  <2> QED BY <1>2, <2>1, <2>2
<1>4. ToHolders(contenders, taken)
  <2> HIDE DEF causes, wants
  <2> QED BY <1>3 DEF ToHolders
<1>5. Step3(contenders, cause) = And(cause, taken)
  BY Zenon DEF Step3
<1> HIDE DEF taken
<1> QED BY <1>4, <1>5, JoinedHolders

(* All an amendment is given is among its candidates.                      *)
LEMMA CausedAmongCandidates ==
  ASSUME NEW contenders, NEW who
  PROVE  CausedBy(who, Resolved(contenders))
           \subseteq {change \in contenders[who].candidates : who \in DOMAIN contenders}
<1>1. ToHolders(contenders, Resolved(contenders))
  BY Step0Holders, Step1Holders, Step2Holders, Step3Holders DEF Resolved
<1> QED BY <1>1 DEF ToHolders, CausedBy, Holders

-----------------------------------------------------------------------------
(* Windows of two trees, and the address an amendment is read at.          *)

(* Induction in the form the proofs below use it: a set of numbers has a   *)
(* least member.                                                           *)
LEMMA LeastMember ==
  ASSUME NEW T \in SUBSET Nat, T # {}
  PROVE  \E m \in T : \A k \in T : m <= k
<1> DEFINE R == {ss \in Nat \X Nat : ss[1] < ss[2]}
<1>1. IsWellFoundedOn(R, Nat)
  BY NatLessThanWellFounded DEF OpToRel
<1>2. PICK m \in T : \A k \in T : ~ (<<k, m>> \in R)
  <2> HIDE DEF R
  <2> QED BY <1>1, WFMin
<1>3. ASSUME NEW k \in T PROVE m <= k
  <2>1. k \in Nat /\ m \in Nat
    OBVIOUS
  <2>2. ~ (<<k, m>> \in R)
    BY <1>2
  <2>3. ~ (k < m)
    BY <2>1, <2>2
  <2> QED BY <2>1, <2>3
<1> QED BY <1>3

IsPath(path) == path \in Path /\ OneSection(path)

(* What a window shows is of trees, and so are its paths.                  *)
SoundView(view) ==
  /\ Tree(view.earlier) /\ Tree(view.later)
  /\ \A c \in view.changes : IsPath(c.path)
  /\ \A m \in view.moves : IsPath(m.from) /\ IsPath(m.to)

(* A provision added whole is shown at its own path.                       *)
LEMMA AddedAt ==
  ASSUME NEW doc, NEW i
  PROVE  AddedChange(doc, i).path = doc[i].path /\ AddedChange(doc, i).whole = "added"
<1> DEFINE fields == Texts(doc, AtOrUnder(doc, i))
           after == FlattenSeq(fields)
<1>1. AddedChange(doc, i) = [Change(<<0, i>>, doc[i].path, <<>>, after, "added")
                               EXCEPT !.fields = fields, !.below = Tail(fields)]
  BY Zenon DEF AddedChange
<1> HIDE DEF fields, after
<1> QED BY <1>1 DEF Change

(* Each change of two printings is of a provision of one of them.          *)
LEMMA ChangesHavePaths ==
  ASSUME NEW old, Tree(old), NEW new, Tree(new), NEW moves, NEW known, NEW mate,
         NEW c \in ChangesBetween(old, new, moves, known, mate)
  PROVE  IsPath(c.path)
<1> DEFINE pairs == {m \in (DOMAIN old) \X (DOMAIN new) : mate[m[1]] = m[2]}
           reworded == {m \in pairs : old[m[1]].words # new[m[2]].words}
           moved == {m \in pairs : /\ old[m[1]].path \in DOMAIN known
                                   /\ known[old[m[1]].path] = new[m[2]].path}
           by(m) == UNION {x.by : x \in {x \in moves : x.from = old[m[1]].path
                                                      /\ x.to = new[m[2]].path}}
           of(m) == Change(m, new[m[2]].path, old[m[1]].words, new[m[2]].words, "no")
<1>1. \/ c \in {of(m) : m \in reworded}
      \/ c \in {AddedChange(new, b) : b \in Added(new, mate)}
      \/ c \in {Change(<<a, 0>>, old[a].path, old[a].words, <<>>, "removed") :
                  a \in Removed(old, mate)}
      \/ c \in {[of(m) EXCEPT !.renumberedBy = by(m)] : m \in moved}
  BY Zenon DEF ChangesBetween
<1>2. ASSUME NEW doc, Tree(doc), NEW i \in DOMAIN doc PROVE IsPath(doc[i].path)
  BY <1>2 DEF Tree, IsPath
<1>3. ASSUME NEW m \in pairs PROVE of(m).path = new[m[2]].path /\ m[2] \in DOMAIN new
  BY DEF Change
<1>4. CASE c \in {of(m) : m \in reworded}
  <2>1. PICK m \in pairs : c = of(m)
    BY <1>4
  <2> HIDE DEF of, pairs
  <2> QED BY <1>2, <1>3, <2>1
<1>5. CASE c \in {AddedChange(new, b) : b \in Added(new, mate)}
  <2>1. PICK b \in DOMAIN new : c = AddedChange(new, b)
    BY <1>5 DEF Added
  <2> QED BY <1>2, <2>1, AddedAt
<1>6. CASE c \in {Change(<<a, 0>>, old[a].path, old[a].words, <<>>, "removed") :
                    a \in Removed(old, mate)}
  <2>1. PICK a \in DOMAIN old : c = Change(<<a, 0>>, old[a].path, old[a].words, <<>>, "removed")
    BY <1>6 DEF Removed
  <2>2. c.path = old[a].path
    BY <2>1 DEF Change
  <2> QED BY <1>2, <2>2
<1>7. CASE c \in {[of(m) EXCEPT !.renumberedBy = by(m)] : m \in moved}
  <2>1. PICK m \in pairs : c = [of(m) EXCEPT !.renumberedBy = by(m)]
    BY <1>7
  <2> HIDE DEF by, pairs
  <2>2. c.path = of(m).path
    BY <2>1 DEF Change
  <2> HIDE DEF of
  <2> QED BY <1>2, <1>3, <2>2
<1> HIDE DEF of, by, moved, reworded
<1> QED BY <1>1, <1>4, <1>5, <1>6, <1>7

(* A window of two trees shows paths of them.                              *)
LEMMA ViewsAreSound ==
  ASSUME NEW docs, NEW laws, NEW w, Tree(docs[w]), Tree(docs[w + 1])
  PROVE  SoundView(View(docs, laws, w))
<1> DEFINE moves == Moves(docs, laws, w)
           view == View(docs, laws, w)
<1>1. view = [window |-> w, from |-> w, to |-> w + 1, earlier |-> docs[w],
              later |-> docs[w + 1], moves |-> moves,
              changes |-> ChangesOf(docs[w], docs[w + 1], moves)]
  BY Zenon DEF View
<1>2. \A m \in moves : IsPath(m.from) /\ IsPath(m.to)
  <2> SUFFICES ASSUME NEW m \in moves PROVE IsPath(m.from) /\ IsPath(m.to)
    OBVIOUS
  <2>1. \E i \in DOMAIN docs[w] \cap DOMAIN docs[w + 1] :
           m.from = docs[w][i].path /\ m.to = docs[w + 1][i].path
    BY DEF Moves
  <2> QED BY <2>1 DEF Tree, IsPath
<1>3. \A c \in ChangesOf(docs[w], docs[w + 1], moves) : IsPath(c.path)
  BY ChangesHavePaths DEF ChangesOf
<1> HIDE DEF moves, view
<1> QED BY <1>1, <1>2, <1>3 DEF SoundView, view

-----------------------------------------------------------------------------
(* The address.                                                            *)

(* The only one of a set is of the set, or there is none.                  *)
LEMMA OneOf == ASSUME NEW S PROVE TheOnly(S) = 0 \/ TheOnly(S) \in S
BY DEF TheOnly, One

(* Walking down stays below where it starts.                               *)
LEMMA WalksDown ==
  ASSUME NEW doc, Tree(doc), NEW section, section = 0 \/ section \in DOMAIN doc,
         NEW steps \in Path,
         NEW under, under = WalkDown(doc, section, steps), under # 0
  PROVE  /\ section # 0 /\ under \in DOMAIN doc
         /\ IsPrefix(doc[section].path, doc[under].path)
<1> DEFINE N == Len(steps)
           next(v, n) == IF n = 0 \/ section = 0 THEN section
                         ELSE IF v = 0 THEN 0
                         ELSE TheOnly({i \in Children(doc, v) : StepNames(steps[n], Number(doc, i))})
           rec(f) == f = [n \in 0..N |-> next(f[n - 1], n)]
           upto(n) == \E f : DOMAIN f = 0..n /\ \A k \in 0..n : f[k] = next(f[k - 1], k)
           open == {n \in Nat : n <= N /\ ~upto(n)}
           at == CHOOSE f : rec(f)
<1>1. N \in Nat
  BY DEF Path
<1>2. open = {}
  <2> SUFFICES ASSUME open # {} PROVE FALSE
    OBVIOUS
  <2>1. PICK n \in open : \A m \in open : n <= m
    <3>1. open \in SUBSET Nat
      OBVIOUS
    <3> HIDE DEF open
    <3> QED BY <3>1, LeastMember
  <2>2. n # 0
    <3> DEFINE f == [k \in 0..0 |-> section]
    <3>1. DOMAIN f = 0..0 /\ \A k \in 0..0 : f[k] = next(f[k - 1], k)
      OBVIOUS
    <3> HIDE DEF f, next
    <3>2. upto(0)
      BY <3>1
    <3> HIDE DEF upto
    <3> QED BY <2>1, <3>2
  <2>3. n \in 1..N /\ n - 1 \in Nat /\ n - 1 \notin open /\ n - 1 <= N
    <3> HIDE DEF upto
    <3> QED BY <1>1, <2>1, <2>2
  <2>4. PICK f : DOMAIN f = 0..(n - 1) /\ \A k \in 0..(n - 1) : f[k] = next(f[k - 1], k)
    <3>1. upto(n - 1)
      <4> HIDE DEF upto
      <4> QED BY <2>3
    <3> QED BY <3>1
  <2> DEFINE last == next(f[n - 1], n)
             g == [k \in 0..n |-> IF k = n THEN last ELSE f[k]]
  <2> HIDE DEF next
  <2>5. DOMAIN g = 0..n /\ g[n] = last /\ \A k \in 0..(n - 1) : g[k] = f[k]
    BY <2>3
  <2>6. ASSUME NEW k \in 0..n PROVE g[k] = next(g[k - 1], k)
    <3>1. CASE k = n
      BY <2>3, <2>5, <3>1
    <3>2. CASE k # n /\ k # 0
      <4>1. k \in 0..(n - 1) /\ k - 1 \in 0..(n - 1)
        BY <2>3, <3>2
      <4> HIDE DEF g
      <4> QED BY <2>4, <2>5, <4>1
    <3>3. CASE k # n /\ k = 0
      <4>1. \A v : next(v, 0) = section
        BY DEF next
      <4>2. 0 \in 0..(n - 1)
        BY <2>3
      <4> HIDE DEF g
      <4> QED BY <2>4, <2>5, <3>3, <4>1, <4>2
    <3> QED BY <3>1, <3>2, <3>3
  <2> HIDE DEF g
  <2>7. upto(n)
    BY <2>5, <2>6
  <2> HIDE DEF upto
  <2> QED BY <2>1, <2>7
<1>3. PICK f : DOMAIN f = 0..N /\ \A k \in 0..N : f[k] = next(f[k - 1], k)
  <2>1. upto(N)
    <3> HIDE DEF upto, N
    <3> QED BY <1>1, <1>2
  <2> QED BY <2>1
<1> DEFINE h == [n \in 0..N |-> f[n]]
<1>4. rec(h)
  <2> HIDE DEF next
  <2>1. ASSUME NEW n \in 0..N PROVE h[n] = next(h[n - 1], n)
    <3>1. CASE n # 0
      <4>1. n - 1 \in 0..N
        BY <1>1, <3>1
      <4> QED BY <1>3, <4>1
    <3>2. CASE n = 0
      <4>1. \A v : next(v, 0) = section
        BY DEF next
      <4> QED BY <1>3, <3>2, <4>1
    <3> QED BY <3>1, <3>2
  <2> QED BY <2>1
<1>5. rec(at)
  <2> HIDE DEF rec
  <2> QED BY <1>4
<1>6. WalkDown(doc, section, steps) = at[N]
  BY DEF WalkDown
<1> DEFINE below(v) == v = 0 \/ (/\ section # 0 /\ v \in DOMAIN doc
                                 /\ IsPrefix(doc[section].path, doc[v].path))
           wrong == {n \in Nat : n <= N /\ ~below(at[n])}
<1>7. \A i \in DOMAIN doc : doc[i].path \in Path
  BY DEF Tree
<1>8. ASSUME NEW v, below(v), NEW n \in 0..N PROVE below(next(v, n))
  <2>1. below(section)
    <3>1. section # 0 => doc[section].path \in Path
      BY <1>7
    <3>2. section # 0 => IsPrefix(doc[section].path, doc[section].path)
      BY <3>1, PrefixIs DEF Path
    <3> QED BY <3>2
  <2>2. below(0)
    OBVIOUS
  <2>3. ASSUME v # 0, NEW i \in Children(doc, v) PROVE below(i)
    <3>1. i \in DOMAIN doc /\ doc[i].above = v
      BY DEF Children
    <3>2. IsPrefix(doc[v].path, doc[i].path)
      BY <1>8, <2>3, <3>1 DEF Tree
    <3> QED BY <1>7, <1>8, <2>3, <3>1, <3>2, PrefixOfPrefix
  <2>4. \/ next(v, n) = section \/ next(v, n) = 0
        \/ v # 0 /\ next(v, n) \in Children(doc, v)
    <3> DEFINE S == {i \in Children(doc, v) : StepNames(steps[n], Number(doc, i))}
    <3>1. TheOnly(S) = 0 \/ TheOnly(S) \in Children(doc, v)
      <4>1. S \subseteq Children(doc, v)
        OBVIOUS
      <4> HIDE DEF S
      <4> QED BY <4>1, OneOf
    <3> HIDE DEF S
    <3>2. next(v, n) = IF n = 0 \/ section = 0 THEN section ELSE IF v = 0 THEN 0 ELSE TheOnly(S)
      BY DEF S
    <3> HIDE DEF next
    <3> QED BY <3>1, <3>2
  <2> HIDE DEF below, next
  <2> QED BY <2>1, <2>2, <2>3, <2>4
<1>9. \A n \in 0..N : at[n] = next(at[n - 1], n)
  <2> HIDE DEF next, at
  <2> QED BY <1>5
<1>10. at[0] = section
  <2>1. 0 \in 0..N
    BY <1>1
  <2>2. next(at[0 - 1], 0) = section
    OBVIOUS
  <2> HIDE DEF next, at
  <2> QED BY <1>9, <2>1, <2>2
<1> HIDE DEF at
<1>11. wrong = {}
  <2> SUFFICES ASSUME wrong # {} PROVE FALSE
    OBVIOUS
  <2>1. PICK n \in wrong : \A m \in wrong : n <= m
    <3>1. wrong \in SUBSET Nat
      OBVIOUS
    <3> HIDE DEF wrong
    <3> QED BY <3>1, LeastMember
  <2>2. below(section)
    <3>1. section # 0 => doc[section].path \in Path
      BY <1>7
    <3>2. section # 0 => IsPrefix(doc[section].path, doc[section].path)
      BY <3>1, PrefixIs DEF Path
    <3> QED BY <3>2
  <2>3. n # 0
    <3> HIDE DEF below
    <3> QED BY <1>10, <2>1, <2>2
  <2>4. n \in 0..N /\ n - 1 \in Nat /\ n - 1 <= N /\ n - 1 \notin wrong
    <3> HIDE DEF below
    <3> QED BY <1>1, <2>1, <2>3
  <2> HIDE DEF below
  <2>5. below(at[n - 1])
    BY <2>4
  <2> HIDE DEF next
  <2>6. below(at[n])
    BY <1>8, <1>9, <2>4, <2>5
  <2> QED BY <2>1, <2>6
<1>12. below(under)
  <2> HIDE DEF below, N
  <2> QED BY <1>1, <1>6, <1>11
<1> QED BY <1>12

(* An address is below a section.                                          *)
IsAddress(section, under) ==
  IsSection(section) /\ IsPath(section) /\ IsPath(under) /\ IsPrefix(section, under)

(* Where an amendment is addressed is below the section it names.          *)
LEMMA AddressedInSection ==
  ASSUME NEW doc, Tree(doc), NEW a, a.container \in Path, NEW at \in Addressed(doc, a)
  PROVE  IsAddress(at.section, at.under) /\ Last(at.section) = a.section
<1> DEFINE section == TheOnly(Sections(doc, a.section))
           under == WalkDown(doc, section, a.container)
<1>1. under # 0 /\ at = [section |-> doc[section].path, under |-> doc[under].path]
  BY Zenon DEF Addressed
<1>2. section = 0 \/ section \in Sections(doc, a.section)
  BY OneOf
<1>3. Sections(doc, a.section) \subseteq DOMAIN doc
  BY DEF Sections
<1>4. /\ section # 0 /\ under \in DOMAIN doc
      /\ IsPrefix(doc[section].path, doc[under].path)
  <2>1. section = 0 \/ section \in DOMAIN doc
    BY <1>2, <1>3
  <2> HIDE DEF section
  <2> QED BY <1>1, <2>1, WalksDown
<1> HIDE DEF section, under
<1>5. /\ section \in DOMAIN doc /\ section # Root
      /\ Last(doc[section].path) = a.section /\ a.section.level = "section"
  BY <1>2, <1>4 DEF Sections, Number
<1>6. IsSection(doc[section].path) /\ IsPath(doc[section].path) /\ IsPath(doc[under].path)
  BY <1>4, <1>5 DEF Tree, IsPath, IsSection, Last
<1> QED BY <1>1, <1>4, <1>5, <1>6 DEF IsAddress

-----------------------------------------------------------------------------
(* The place of an amendment stays below the section it names.             *)

(* Nothing was renumbered in a window but inside a section.                *)
Stays(view) ==
  \A m \in view.moves : \E n \in DOMAIN m.from :
    m.from[n].level = "section" /\ n < Len(m.from) /\ IsPrefix(Head1(m.from, n), m.to)

(* A path is a prefix of itself.                                           *)
LEMMA PrefixOfItself == ASSUME NEW s \in Path PROVE IsPrefix(s, s)
BY PrefixIs DEF Path

(* The first segments of a path are a path.                                *)
LEMMA FirstOf ==
  ASSUME NEW s \in Path, NEW n \in Nat, n <= Len(s)
  PROVE  /\ SubSeq(s, 1, n) \in Path /\ Len(SubSeq(s, 1, n)) = n
         /\ \A k \in 1..n : SubSeq(s, 1, n)[k] = s[k]
BY DEF Path

(* What is above a provision is all but its last segment.                  *)
LEMMA FrontIs ==
  ASSUME NEW s \in Path, Len(s) # 0
  PROVE  /\ Front(s) \in Path /\ Len(Front(s)) = Len(s) - 1
         /\ \A k \in 1..(Len(s) - 1) : Front(s)[k] = s[k]
<1> DEFINE n == Len(s) - 1
<1>1. Front(s) = SubSeq(s, 1, n)
  BY DEF Front
<1>2. n \in Nat /\ n <= Len(s)
  BY DEF Path
<1> HIDE DEF n
<1>3. /\ SubSeq(s, 1, n) \in Path /\ Len(SubSeq(s, 1, n)) = n
      /\ \A k \in 1..n : SubSeq(s, 1, n)[k] = s[k]
  BY <1>2, FirstOf
<1>4. /\ Front(s) \in Path /\ Len(Front(s)) = n
      /\ \A k \in 1..n : Front(s)[k] = s[k]
  BY <1>1, <1>3
<1> QED BY <1>4 DEF n

(* A move inside a section keeps what is below it in the section.          *)
LEMMA MovedInSection ==
  ASSUME NEW section, NEW under, IsAddress(section, under),
         NEW from, IsPath(from), NEW to, IsPath(to), IsPrefix(from, under),
         NEW n \in DOMAIN from, from[n].level = "section", n < Len(from),
         IsPrefix(Head1(from, n), to)
  PROVE  IsAddress(section, to \o Below(under, Len(from)))
<1> DEFINE rest == Below(under, Len(from))
           path == to \o rest
<1>1. /\ from \in Path /\ to \in Path /\ under \in Path /\ section \in Path
      /\ Len(from) \in Nat /\ Len(to) \in Nat /\ Len(under) \in Nat /\ Len(section) \in Nat
      /\ n \in 1..Len(from) /\ DOMAIN under = 1..Len(under) /\ DOMAIN to = 1..Len(to)
      /\ section # <<>> /\ Len(section) \in 1..Len(section)
  BY DEF IsAddress, IsSection, IsPath, Path
<1>2. /\ Len(from) <= Len(under) /\ \A k \in 1..Len(from) : from[k] = under[k]
      /\ Len(section) <= Len(under) /\ \A k \in 1..Len(section) : section[k] = under[k]
  BY <1>1, PrefixIs DEF IsAddress
<1>3. Len(section) = n
  <2>1. under[n].level = "section" /\ n \in DOMAIN under
    BY <1>1, <1>2
  <2>2. under[Len(section)].level = "section" /\ Len(section) \in DOMAIN under
    BY <1>1, <1>2 DEF IsAddress, IsSection
  <2> QED BY <2>1, <2>2 DEF OneSection, IsAddress, IsPath
<1>4. /\ Head1(from, n) \in Path /\ Len(Head1(from, n)) = n
      /\ \A k \in 1..n : Head1(from, n)[k] = from[k]
  BY <1>1 DEF Head1, Path
<1>5. Len(to) >= n /\ \A k \in 1..n : to[k] = from[k]
  BY <1>1, <1>4, PrefixIs
<1>6. /\ rest \in Path /\ Len(rest) = Len(under) - Len(from)
      /\ \A k \in 1..Len(rest) : rest[k] = under[Len(from) + k]
  BY <1>1, <1>2 DEF Below, Path
<1> HIDE DEF rest
<1>7. /\ path \in Path /\ Len(path) = Len(to) + Len(rest) /\ Len(rest) \in Nat
      /\ \A k \in 1..Len(to) : path[k] = to[k]
      /\ \A k \in 1..Len(rest) : path[Len(to) + k] = rest[k]
      /\ DOMAIN path = 1..Len(path)
  <2>1. to \in Seq(Segment) /\ rest \in Seq(Segment)
    BY <1>1, <1>6 DEF Path
  <2>2. /\ path \in Seq(Segment) /\ Len(path) = Len(to) + Len(rest)
        /\ \A k \in 1..Len(to) : path[k] = to[k]
        /\ \A k \in 1..Len(rest) : path[Len(to) + k] = rest[k]
    BY <2>1
  <2> QED BY <2>1, <2>2 DEF Path
<1> HIDE DEF path
<1>8. IsPrefix(section, path)
  <2>1. Len(section) <= Len(path)
    BY <1>1, <1>3, <1>5, <1>7
  <2>2. ASSUME NEW k \in 1..Len(section) PROVE section[k] = path[k]
    <3>1. k \in 1..n /\ k \in 1..Len(to) /\ k \in 1..Len(from)
      BY <1>1, <1>3, <1>5
    <3> QED BY <1>2, <1>5, <1>7, <3>1
  <2> QED BY <1>1, <1>7, <2>1, <2>2, PrefixIs
<1>9. OneSection(path)
  <2>1. ASSUME NEW k \in DOMAIN path, path[k].level = "section" PROVE k = n
    <3>1. CASE k <= Len(to)
      <4>1. k \in DOMAIN to /\ to[k].level = "section"
        BY <1>1, <1>7, <2>1, <3>1
      <4>2. n \in DOMAIN to /\ to[n].level = "section"
        BY <1>1, <1>5
      <4> QED BY <4>1, <4>2 DEF IsPath, OneSection
    <3>2. CASE k > Len(to)
      <4> DEFINE j == Len(from) + (k - Len(to))
      <4>1. k - Len(to) \in 1..Len(rest) /\ path[k] = rest[k - Len(to)]
        <5>1. k - Len(to) \in 1..Len(rest) /\ Len(to) + (k - Len(to)) = k
          BY <1>1, <1>7, <3>2
        <5> QED BY <1>7, <5>1
      <4>2. rest[k - Len(to)] = under[j] /\ j \in DOMAIN under /\ j # n
        BY <1>1, <1>2, <1>6, <4>1
      <4>3. under[n].level = "section" /\ n \in DOMAIN under
        BY <1>1, <1>2
      <4> QED BY <2>1, <4>1, <4>2, <4>3 DEF IsAddress, IsPath, OneSection
    <3> QED BY <1>1, <1>7, <3>1, <3>2
  <2> QED BY <2>1 DEF OneSection
<1> QED BY <1>7, <1>8, <1>9 DEF IsAddress, IsPath, path, rest

(* An address followed through a later renumbering stays in its section.   *)
LEMMA RenumberedInSection ==
  ASSUME NEW view, SoundView(view), Stays(view), NEW said, NEW n,
         NEW section, NEW under, IsAddress(section, under)
  PROVE  IsAddress(section, ThroughLaterRenumberings(under, view.moves, said, n))
<1> DEFINE later(id) ==
             LET at == {m \in DOMAIN said : said[m].id = id}
             IN \E m \in at : /\ \A k \in at : k <= m
                              /\ m > n /\ said[m].law = said[n].law
           S == {m \in view.moves : IsAtOrBelow(under, m.from) /\ \E id \in m.by : later(id)}
           movedTo == {m.to \o Below(under, Len(m.from)) : m \in S}
<1>1. \/ ThroughLaterRenumberings(under, view.moves, said, n) = under
      \/ /\ One(movedTo) # {}
         /\ ThroughLaterRenumberings(under, view.moves, said, n) = CHOOSE p \in movedTo : TRUE
  BY Zenon DEF ThroughLaterRenumberings
<1>2. \A m \in S : m \in view.moves /\ IsAtOrBelow(under, m.from)
  OBVIOUS
<1>3. One(movedTo) # {} => (CHOOSE p \in movedTo : TRUE) \in movedTo
  <2> HIDE DEF movedTo
  <2> QED BY DEF One
<1>4. ASSUME NEW p \in movedTo PROVE IsAddress(section, p)
  <2>1. PICK m \in S : p = m.to \o Below(under, Len(m.from))
    OBVIOUS
  <2> HIDE DEF S
  <2>2. /\ IsPath(m.from) /\ IsPath(m.to) /\ IsPrefix(m.from, under)
        /\ \E k \in DOMAIN m.from : /\ m.from[k].level = "section" /\ k < Len(m.from)
                                    /\ IsPrefix(Head1(m.from, k), m.to)
    BY <1>2 DEF SoundView, Stays, IsAtOrBelow
  <2> QED BY <2>1, <2>2, MovedInSection
<1> HIDE DEF movedTo
<1> QED BY <1>1, <1>3, <1>4

(* So does one that another law moved aside.                               *)
LEMMA MovedAsideInSection ==
  ASSUME NEW view, SoundView(view), NEW e, NEW section, NEW under, IsAddress(section, under)
  PROVE  IsAddress(section, MovedByAnotherLaw(view, section, under, e))
<1> DEFINE to == MovedByAnotherLaw(view, section, under, e)
           beside == {c \in view.changes : /\ c.whole = "added" /\ c.path # <<>>
                                           /\ Front(c.path) = Front(under)
                                           /\ Last(c.path).level = Last(under).level
                                           /\ ShownAdded(e, c) = Additions(e)}
<1>1. to = under \/ (under # section /\ to = TheOnlyOne(beside, under))
  BY Zenon DEF MovedByAnotherLaw
<1>2. to = under \/ (under # section /\ \E c \in beside : to = c.path)
  <2> HIDE DEF beside, to
  <2>1. TheOnlyOne(beside, under) = under
          \/ (One(beside) # {} /\ TheOnlyOne(beside, under) = (CHOOSE c \in beside : TRUE).path)
    BY DEF TheOnlyOne
  <2>2. One(beside) # {} => (CHOOSE c \in beside : TRUE) \in beside
    BY DEF One
  <2> QED BY <1>1, <2>1, <2>2
<1>3. ASSUME under # section, NEW c \in beside PROVE IsAddress(section, c.path)
  <2>1. /\ IsPath(c.path) /\ c.path # <<>> /\ Front(c.path) = Front(under)
    BY DEF SoundView
  <2> DEFINE path == c.path
  <2>2. /\ path \in Path /\ under \in Path /\ section \in Path /\ section # <<>>
        /\ Len(path) \in Nat \ {0} /\ Len(under) \in Nat /\ Len(section) \in Nat \ {0}
    BY <2>1 DEF IsAddress, IsSection, IsPath, Path
  <2>3. /\ Len(section) <= Len(under) /\ \A k \in 1..Len(section) : section[k] = under[k]
    BY <2>2, PrefixIs DEF IsAddress
  <2>4. Len(section) < Len(under)
    <3>1. Len(section) = Len(under) => section = under
      BY <2>2, <2>3 DEF Path
    <3> QED BY <1>3, <2>2, <2>3, <3>1
  <2> HIDE DEF path
  <2>6. /\ Len(path) = Len(under)
        /\ \A k \in 1..(Len(under) - 1) : path[k] = under[k]
    <3>1. Len(under) \in Nat \ {0}
      BY <2>2, <2>4
    <3>2. Len(Front(path)) = Len(path) - 1 /\ Len(Front(under)) = Len(under) - 1
      BY <2>2, FrontIs, <3>1
    <3>3. Len(path) = Len(under)
      BY <2>1, <2>2, <3>2 DEF path
    <3>4. ASSUME NEW k \in 1..(Len(under) - 1) PROVE path[k] = under[k]
      BY <2>1, <2>2, FrontIs, <3>1, <3>3 DEF path
    <3> QED BY <3>3, <3>4
  <2>7. Len(section) <= Len(path) /\ \A k \in 1..Len(section) : section[k] = path[k]
    BY <2>2, <2>3, <2>4, <2>6
  <2>8. IsPrefix(section, path)
    BY <2>2, <2>7, PrefixIs
  <2> QED BY <2>1, <2>8 DEF IsAddress, path
<1> HIDE DEF to, beside
<1> QED BY <1>2, <1>3 DEF to

(* A change an amendment may be given, for its place.                      *)
Reached(place, c) ==
  /\ IsPath(c.path)
  /\ \/ IsPrefix(place.address, c.path)
     \/ c.whole = "added" /\ IsPrefix(c.path, place.address)

SoundPlace(place) ==
  /\ IsAddress(place.section, place.address)
  /\ \A c \in place.candidates : Reached(place, c)

Holds(view, place) ==
  \A c \in place.enclosing : IsPath(c.path) /\ IsPrefix(c.path, place.address)

(* Each place of an amendment is below one section, with the changes at    *)
(* or under it, and is held by what is around it.                          *)
LEMMA PlacesAreSound ==
  ASSUME NEW view, SoundView(view), Stays(view), NEW said, NEW n,
         said[n].container \in Path, NEW place \in PlacedIn(view, said, n)
  PROVE  /\ SoundPlace(place) /\ Holds(view, place)
         /\ place = [who |-> n, window |-> view.window, section |-> place.section,
                     address |-> place.address, candidates |-> place.candidates,
                     enclosing |-> place.enclosing]
<1> DEFINE a == said[n]
           named(at) == IF a.asMoved THEN at.under
                        ELSE ThroughLaterRenumberings(at.under, view.moves, said, n)
<1>1. PICK at \in AddressPath(view, a) :
        place = PlaceAt(view, a, n, at.section,
                        MovedByAnotherLaw(view, at.section, named(at), a.evidence))
  BY Zenon DEF PlacedIn
<1>2. IsAddress(at.section, at.under)
  <2>1. at \in Addressed(view.later, a) \/ at \in Addressed(view.earlier, a)
    BY DEF AddressPath
  <2> QED BY <2>1, AddressedInSection DEF SoundView
<1>3. IsAddress(at.section, named(at))
  BY <1>2, RenumberedInSection
<1> DEFINE section == at.section
           under == MovedByAnotherLaw(view, section, named(at), a.evidence)
<1>4. IsAddress(section, under)
  <2> HIDE DEF named
  <2> QED BY <1>3, MovedAsideInSection
<1>5. place = PlaceAt(view, a, n, section, under)
  BY <1>1
<1> HIDE DEF section, under
<1> DEFINE candidates == {c \in view.changes : /\ IsAtOrBelow(c.path, under)
                                               /\ a.headingAlone => c.path = under}
           enclosing == {c \in view.changes :
                           candidates = {} /\ c.whole # "no" /\ IsAtOrBelow(under, c.path)}
<1>6. place = [who |-> n, window |-> view.window, section |-> section,
               address |-> under, candidates |-> candidates, enclosing |-> enclosing]
  BY <1>5, Zenon DEF PlaceAt
<1>7. \A c \in candidates : IsPath(c.path) /\ IsPrefix(under, c.path)
  BY DEF SoundView, IsAtOrBelow
<1>8. \A c \in enclosing : IsPath(c.path) /\ IsPrefix(c.path, under)
  BY DEF SoundView, IsAtOrBelow
<1> HIDE DEF candidates, enclosing
<1>9. SoundPlace(place)
  BY <1>4, <1>6, <1>7 DEF SoundPlace, Reached
<1>10. Holds(view, place)
  BY <1>6, <1>8 DEF Holds
<1> QED BY <1>6, <1>9, <1>10

(* A place read inside an addition is given what was added around it.      *)
LEMMA InsideIsSound ==
  ASSUME NEW view, SoundView(view), NEW a, NEW place, SoundPlace(place), Holds(view, place),
         \A c \in place.enclosing : c.whole = "added",
         NEW n,
         place = [who |-> n, window |-> view.window, section |-> place.section,
                  address |-> place.address, candidates |-> place.candidates,
                  enclosing |-> place.enclosing],
         NEW inside, inside = AddedInside(view, a, place)
  PROVE  SoundPlace(inside) /\ inside.who = n /\ inside.window = view.window
<1> DEFINE here == At(view.later, place.address)
           shows == \E c \in place.enclosing : ShownWords(a.evidence, c, <<>>) # <<>>
           first == CHOOSE i \in here : \A j \in here : i <= j
           made == IF shows \/ here = {} THEN place.enclosing
                   ELSE {AddedChange(view.later, first)}
<1>1. inside = [place EXCEPT !.candidates = made]
  BY Zenon DEF AddedInside
<1>2. ASSUME NEW c \in place.enclosing PROVE Reached(place, c)
  BY DEF Holds, Reached
<1>3. ASSUME here # {} PROVE Reached(place, AddedChange(view.later, first))
  <2>1. first \in here
    <3>1. here \in SUBSET Nat
      BY DEF At, SoundView, Tree
    <3>2. \E i \in here : \A j \in here : i <= j
      <4> HIDE DEF here
      <4> QED BY <1>3, <3>1, LeastMember
    <3> QED BY <3>2
  <2>2. view.later[first].path = place.address
    BY <2>1 DEF At
  <2>3. IsPath(place.address)
    BY DEF SoundPlace, IsAddress
  <2> HIDE DEF first, here
  <2> QED BY <2>2, <2>3, AddedAt, PrefixOfItself DEF Reached, IsPath
<1>4. \A c \in made : Reached(place, c)
  <2> HIDE DEF shows, first, here
  <2> QED BY <1>2, <1>3
<1> HIDE DEF made
<1>5. /\ inside.who = n /\ inside.window = view.window /\ inside.section = place.section
      /\ inside.address = place.address /\ inside.candidates = made
  BY <1>1
<1> QED BY <1>4, <1>5 DEF SoundPlace, Reached

(* Two places may be given one change only in one section, or where it     *)
(* was added around their sections.                                        *)
LEMMA PlacesApart ==
  ASSUME NEW p, SoundPlace(p), NEW q, SoundPlace(q),
         NEW c \in p.candidates \cap q.candidates, p.section # q.section
  PROVE  /\ c.whole = "added" /\ \A n \in DOMAIN c.path : c.path[n].level # "section"
         /\ IsStrictPrefix(c.path, p.address) /\ IsStrictPrefix(c.path, q.address)
<1>1. ASSUME NEW r, SoundPlace(r)
      PROVE  /\ IsSection(r.section) /\ r.section \in Path /\ IsPath(r.section)
             /\ r.address \in Path /\ IsPath(r.address) /\ OneSection(r.address)
             /\ IsPrefix(r.section, r.address)
  BY <1>1 DEF SoundPlace, IsAddress, IsPath
<1>2. /\ c.path \in Path /\ OneSection(c.path) /\ Reached(p, c) /\ Reached(q, c)
  BY DEF SoundPlace, Reached, IsPath
<1>3. ASSUME NEW r, SoundPlace(r), Reached(r, c), NEW s, SoundPlace(s), Reached(s, c),
             IsPrefix(r.section, c.path)
      PROVE  r.section = s.section
  <2>1. CASE IsPrefix(s.address, c.path)
    <3>1. IsPrefix(s.section, c.path)
      BY <1>1, <1>2, <1>3, <2>1, PrefixOfPrefix
    <3> QED BY <1>1, <1>2, <1>3, <3>1, SameSection
  <2>2. CASE IsPrefix(c.path, s.address)
    <3>1. IsPrefix(r.section, s.address)
      BY <1>1, <1>2, <1>3, <2>2, PrefixOfPrefix
    <3> QED BY <1>1, <1>3, <3>1, SameSection
  <2> QED BY <1>3, <2>1, <2>2 DEF Reached
<1>4. ~IsPrefix(p.section, c.path) /\ ~IsPrefix(q.section, c.path)
  BY <1>2, <1>3
<1>5. ASSUME NEW r, SoundPlace(r), Reached(r, c), ~IsPrefix(r.section, c.path)
      PROVE  /\ c.whole = "added" /\ IsStrictPrefix(c.path, r.address)
             /\ \A n \in DOMAIN c.path : c.path[n].level # "section"
  <2>1. ~IsPrefix(r.address, c.path)
    BY <1>1, <1>2, <1>5, PrefixOfPrefix
  <2>2. c.whole = "added" /\ IsPrefix(c.path, r.address)
    BY <1>5, <2>1 DEF Reached
  <2>3. IsStrictPrefix(c.path, r.address)
    BY <1>1, <1>5, <2>2 DEF IsStrictPrefix
  <2>4. IsPrefix(c.path, r.section)
    BY <1>1, <1>2, <1>5, <2>2, PrefixesMeet
  <2>5. ASSUME NEW n \in DOMAIN c.path, c.path[n].level = "section" PROVE FALSE
    <3> DEFINE s == r.section  t == c.path
    <3>1. /\ s \in Path /\ t \in Path /\ Len(s) \in Nat /\ Len(t) \in Nat
          /\ DOMAIN s = 1..Len(s) /\ DOMAIN t = 1..Len(t) /\ s # <<>> /\ OneSection(s)
      BY <1>1, <1>2, <1>5 DEF Path, IsSection, IsPath
    <3>2. Len(t) <= Len(s) /\ \A k \in 1..Len(t) : t[k] = s[k]
      BY <2>4, <3>1, PrefixIs
    <3>3. s[n].level = "section" /\ n \in DOMAIN s
      BY <2>5, <3>1, <3>2
    <3>4. s[Len(s)].level = "section" /\ Len(s) \in DOMAIN s
      BY <1>1, <1>5, <3>1 DEF IsSection
    <3>5. n = Len(s)
      BY <3>1, <3>3, <3>4 DEF OneSection
    <3>6. Len(s) <= Len(t) /\ \A k \in 1..Len(s) : s[k] = t[k]
      BY <3>1, <3>2, <3>5
    <3> QED BY <1>5, <3>1, <3>6, PrefixIs
  <2> QED BY <2>2, <2>3, <2>5
<1> QED BY <1>2, <1>4, <1>5

-----------------------------------------------------------------------------
(* Lists.                                                                  *)

(* What the sequences laid end to end hold.                                *)
LEMMA FlattenSeqIs ==
  ASSUME NEW S, NEW seqs \in Seq(Seq(S))
  PROVE  /\ FlattenSeq(seqs) \in Seq(S)
         /\ Range(FlattenSeq(seqs)) = UNION {Range(seqs[i]) : i \in DOMAIN seqs}
<1>1. CASE Len(seqs) = 0
  <2>1. FlattenSeq(seqs) = seqs /\ seqs = <<>>
    BY <1>1 DEF FlattenSeq
  <2> QED BY <2>1 DEF Range
<1>2. CASE Len(seqs) # 0
  <2> DEFINE N == Len(seqs)
             eqn(f, i) == f[i] = IF i = 1 THEN seqs[i] ELSE f[i - 1] \o seqs[i]
             rec(f) == f = [i \in 1..N |-> IF i = 1 THEN seqs[i] ELSE f[i - 1] \o seqs[i]]
             upto(n) == \E f \in [1..n -> Seq(S)] : \A i \in 1..n : eqn(f, i)
             flatten == CHOOSE f : rec(f)
             open == {n \in Nat : n <= N /\ ~upto(n)}
  <2>1. N \in Nat \ {0} /\ DOMAIN seqs = 1..N /\ \A i \in 1..N : seqs[i] \in Seq(S)
    BY <1>2
  <2>2. open = {}
    <3>1. SUFFICES ASSUME open # {} PROVE FALSE
      OBVIOUS
    <3>2. PICK n \in open : \A m \in open : n <= m
      <4>1. open \in SUBSET Nat
        OBVIOUS
      <4> HIDE DEF open
      <4> QED BY <3>1, <4>1, LeastMember
    <3>3. n # 0
      <4> DEFINE e == [i \in 1..0 |-> <<>>]
      <4>1. e \in [1..0 -> Seq(S)] /\ 1..0 = {}
        OBVIOUS
      <4> HIDE DEF e
      <4>2. \A i \in 1..0 : eqn(e, i)
        BY <4>1
      <4>3. upto(0)
        BY <4>1, <4>2
      <4> HIDE DEF upto
      <4> QED BY <3>2, <4>3
    <3>4. n \in 1..N /\ n - 1 \in Nat /\ n - 1 <= N /\ n - 1 \notin open
      <4> HIDE DEF upto, N
      <4> QED BY <2>1, <3>2, <3>3
    <3>5. PICK f \in [1..(n - 1) -> Seq(S)] : \A i \in 1..(n - 1) : eqn(f, i)
      <4>1. upto(n - 1)
        <5> HIDE DEF upto
        <5> QED BY <3>4
      <4> QED BY <4>1
    <3> DEFINE last == IF n = 1 THEN seqs[n] ELSE f[n - 1] \o seqs[n]
               g == [i \in 1..n |-> IF i = n THEN last ELSE f[i]]
    <3>6. last \in Seq(S)
      BY <2>1, <3>4, <3>5
    <3> HIDE DEF last
    <3>7. g \in [1..n -> Seq(S)]
      BY <3>4, <3>5, <3>6
    <3>8. \A i \in 1..(n - 1) : g[i] = f[i]
      BY <3>4
    <3>9. g[n] = last
      BY <3>4
    <3> HIDE DEF g
    <3>10. \A i \in 1..n : eqn(g, i)
      <4>1. ASSUME NEW i \in 1..(n - 1) PROVE eqn(g, i)
        <5>1. i # 1 => i - 1 \in 1..(n - 1)
          BY <3>4
        <5> QED BY <3>5, <3>8, <5>1
      <4>2. eqn(g, n)
        <5>1. n # 1 => n - 1 \in 1..(n - 1)
          BY <3>4
        <5> QED BY <3>8, <3>9, <5>1 DEF last
      <4> QED BY <3>4, <4>1, <4>2
    <3> QED BY <3>2, <3>7, <3>10
  <2>3. PICK f \in [1..N -> Seq(S)] : \A i \in 1..N : eqn(f, i)
    <3>1. upto(N)
      <4> HIDE DEF upto, N
      <4> QED BY <2>1, <2>2
    <3> QED BY <3>1
  <2>4. rec(f)
    BY <2>3
  <2>5. rec(flatten)
    <3> HIDE DEF rec
    <3> QED BY <2>4
  <2>6. \A i \in 1..N : eqn(flatten, i)
    <3> HIDE DEF flatten
    <3> QED BY <2>5
  <2>7. FlattenSeq(seqs) = flatten[N]
    BY <1>2 DEF FlattenSeq
  <2> HIDE DEF flatten
  <2> DEFINE told(n) == /\ flatten[n] \in Seq(S)
                        /\ Range(flatten[n]) = UNION {Range(seqs[i]) : i \in 1..n}
             wrong == {n \in 1..N : ~told(n)}
  <2>8. wrong = {}
    <3>1. SUFFICES ASSUME wrong # {} PROVE FALSE
      OBVIOUS
    <3>2. PICK n \in wrong : \A m \in wrong : n <= m
      <4>1. wrong \in SUBSET Nat
        OBVIOUS
      <4> HIDE DEF wrong
      <4> QED BY <3>1, <4>1, LeastMember
    <3>3. CASE n = 1
      <4>1. flatten[1] = seqs[1] /\ seqs[1] \in Seq(S)
        <5>1. 1 \in 1..N
          BY <2>1
        <5>2. eqn(flatten, 1)
          <6> HIDE DEF eqn
          <6> QED BY <2>6, <5>1
        <5> QED BY <2>1, <5>1, <5>2
      <4>2. UNION {Range(seqs[i]) : i \in 1..1} = Range(seqs[1])
        OBVIOUS
      <4> QED BY <3>2, <3>3, <4>1, <4>2
    <3>4. CASE n # 1
      <4>1. n \in 1..N /\ n - 1 \in 1..N /\ n - 1 \notin wrong
        <5> HIDE DEF told, N
        <5> QED BY <2>1, <3>2, <3>4
      <4>2. told(n - 1) /\ flatten[n] = flatten[n - 1] \o seqs[n] /\ seqs[n] \in Seq(S)
        BY <2>1, <2>6, <3>4, <4>1
      <4>3. 1..n = (1..(n - 1)) \cup {n}
        BY <2>1, <4>1
      <4>4. ASSUME NEW s \in Seq(S), NEW t \in Seq(S) PROVE Range(s \o t) = Range(s) \cup Range(t)
        <5>1. /\ \A x \in Range(s) \cup Range(t) : x \in Range(s \o t)
          <6>1. \A i \in DOMAIN s : i \in DOMAIN (s \o t) /\ (s \o t)[i] = s[i]
            OBVIOUS
          <6>2. \A i \in DOMAIN t : Len(s) + i \in DOMAIN (s \o t) /\ (s \o t)[Len(s) + i] = t[i]
            OBVIOUS
          <6> QED BY <6>1, <6>2 DEF Range
        <5>2. \A i \in DOMAIN (s \o t) :
                \/ i \in DOMAIN s /\ (s \o t)[i] = s[i]
                \/ i - Len(s) \in DOMAIN t /\ (s \o t)[i] = t[i - Len(s)]
          OBVIOUS
        <5> QED BY <5>1, <5>2 DEF Range
      <4>5. Range(flatten[n]) = Range(flatten[n - 1]) \cup Range(seqs[n])
        BY <4>2, <4>4
      <4>6. flatten[n] \in Seq(S)
        BY <4>2
      <4>7. UNION {Range(seqs[i]) : i \in 1..n}
              = (UNION {Range(seqs[i]) : i \in 1..(n - 1)}) \cup Range(seqs[n])
        BY <4>3
      <4> QED BY <3>2, <4>2, <4>5, <4>6, <4>7
    <3> QED BY <3>3, <3>4
  <2>9. told(N)
    <3>1. N \in 1..N /\ N \notin wrong
      <4> HIDE DEF wrong
      <4> QED BY <2>1, <2>8
    <3> HIDE DEF told, N
    <3> QED BY <3>1
  <2> QED BY <2>1, <2>7, <2>9
<1> QED BY <1>1, <1>2

IsList(s) == s \in Seq(Range(s))

(* Lists laid end to end are a list, and hold what they hold.              *)
LEMMA FlattenLists ==
  ASSUME NEW N \in Nat, NEW seqs, DOMAIN seqs = 1..N, seqs = [i \in 1..N |-> seqs[i]],
         \A i \in 1..N : IsList(seqs[i])
  PROVE  /\ IsList(FlattenSeq(seqs))
         /\ Range(FlattenSeq(seqs)) = UNION {Range(seqs[i]) : i \in 1..N}
<1> DEFINE S == UNION {Range(seqs[i]) : i \in 1..N}
<1>1. ASSUME NEW i \in 1..N PROVE seqs[i] \in Seq(S)
  <2>1. seqs[i] \in Seq(Range(seqs[i])) /\ Range(seqs[i]) \subseteq S
    BY DEF IsList
  <2> HIDE DEF S
  <2> QED BY <2>1
<1> HIDE DEF S
<1>2. seqs \in Seq(Seq(S))
  BY <1>1
<1>3. /\ FlattenSeq(seqs) \in Seq(S)
      /\ Range(FlattenSeq(seqs)) = UNION {Range(seqs[i]) : i \in 1..N}
  BY <1>2, FlattenSeqIs
<1> QED BY <1>3 DEF IsList, S

(* A function on the numbers up to one is a list.                          *)
LEMMA ListOf ==
  ASSUME NEW N \in Nat, NEW s, DOMAIN s = 1..N, s = [i \in 1..N |-> s[i]]
  PROVE  IsList(s) /\ Len(s) = N
<1>1. \A i \in 1..N : s[i] \in Range(s)
  BY DEF Range
<1> QED BY <1>1 DEF IsList

(* Each of a list is in its range.                                         *)
LEMMA EachInList ==
  ASSUME NEW s, IsList(s), NEW n \in DOMAIN s
  PROVE  s[n] \in Range(s)
BY DEF Range

(* The places of a group are of the group.                                 *)
LEMMA MembersAre ==
  ASSUME NEW group, NEW said, IsList(said), NEW m \in DOMAIN Members(group, said)
  PROVE  Members(group, said)[m] \in group
<1> DEFINE N == Len(said)
           of(n) == IF Of(group, n) = {} THEN <<>> ELSE <<CHOOSE p \in Of(group, n) : TRUE>>
           seqs == [n \in DOMAIN said |-> of(n)]
<1>1. N \in Nat /\ DOMAIN said = 1..N
  BY DEF IsList
<1>2. ASSUME NEW n \in 1..N PROVE of(n) \in Seq(group)
  <2>1. CASE Of(group, n) = {}
    BY <2>1
  <2>2. CASE Of(group, n) # {}
    <3>1. (CHOOSE p \in Of(group, n) : TRUE) \in group
      BY <2>2 DEF Of
    <3> QED BY <2>2, <3>1
  <2> QED BY <2>1, <2>2
<1> HIDE DEF of
<1>3. seqs \in Seq(Seq(group))
  BY <1>1, <1>2
<1>4. Members(group, said) = FlattenSeq(seqs)
  BY Zenon DEF Members, of
<1> HIDE DEF seqs
<1>5. Members(group, said) \in Seq(group)
  BY <1>3, <1>4, FlattenSeqIs
<1> QED BY <1>5

-----------------------------------------------------------------------------
(* What is stated names paths.                                             *)

(* An amendment's container is a path, and so are those of its items.      *)
IsStated(a) ==
  /\ {"container", "items", "section", "place", "unresolved", "evidence", "item", "enacted"}
       \subseteq DOMAIN a
  /\ a.container \in Path
  /\ Len(a.items) \in Nat /\ DOMAIN a.items = 1..Len(a.items)
  /\ \A n \in DOMAIN a.items : a.items[n].container \in Path

(* Where the law is classified to is a path.                               *)
LEMMA OlrcKeeps ==
  ASSUME NEW a, IsStated(a), NEW numbered
  PROVE  IsStated(AddressedByOlrc(a, numbered))
<1> DEFINE section == OlrcSection(a, numbered)
           s == CHOOSE s \in section : TRUE
           other == [a EXCEPT !.section = s, !.unresolved = "no"]
<1>1. AddressedByOlrc(a, numbered) = a \/ AddressedByOlrc(a, numbered) = other
  BY Zenon DEF AddressedByOlrc
<1> HIDE DEF s
<1>2. IsStated(other)
  <2>1. /\ DOMAIN other = DOMAIN a /\ other.container = a.container /\ other.items = a.items
    BY DEF IsStated
  <2> HIDE DEF other
  <2> QED BY <2>1 DEF IsStated
<1> HIDE DEF other
<1> QED BY <1>1, <1>2

(* The items of an amendment are stated at paths.                          *)
LEMMA ItemsKeep ==
  ASSUME NEW a, IsStated(a)
  PROVE  /\ IsList(OneForEachItem(a))
         /\ \A x \in Range(OneForEachItem(a)) : x.container \in Path
<1> DEFINE own(n) == [a EXCEPT !.place = a.items[n].place, !.section = a.items[n].section,
                               !.container = a.items[n].container,
                               !.unresolved = a.items[n].unresolved, !.items = <<>>,
                               !.evidence = OfItem(a.evidence, a.itemWords[n]),
                               !.item = TRUE]
           one(n) == IF a.items[n].place # a.place THEN AddressedByOlrc(own(n), "any")
                     ELSE IF a.items[n].unresolved = "no title"
                       THEN AddressedByOlrc(own(n), a.items[n].number)
                     ELSE own(n)
           all == [n \in DOMAIN a.items |-> one(n)]
<1>1. OneForEachItem(a) = <<a>> \/ OneForEachItem(a) = all
  BY Zenon DEF OneForEachItem
<1>2. ASSUME NEW n \in DOMAIN a.items PROVE one(n).container \in Path
  <2>1. own(n).container = a.items[n].container /\ DOMAIN own(n) = DOMAIN a
        /\ own(n).items = <<>>
    BY DEF IsStated
  <2> HIDE DEF own
  <2>2. IsStated(own(n))
    BY <2>1 DEF IsStated
  <2>3. /\ IsStated(AddressedByOlrc(own(n), "any"))
        /\ IsStated(AddressedByOlrc(own(n), a.items[n].number))
    BY <2>2, OlrcKeeps
  <2>4. one(n) \in {AddressedByOlrc(own(n), "any"), AddressedByOlrc(own(n), a.items[n].number),
                    own(n)}
    OBVIOUS
  <2> HIDE DEF one
  <2> QED BY <2>2, <2>3, <2>4 DEF IsStated
<1> HIDE DEF one
<1>3. IsList(all) /\ \A x \in Range(all) : x.container \in Path
  <2>1. Len(a.items) \in Nat /\ DOMAIN a.items = 1..Len(a.items)
    BY DEF IsStated
  <2>2. all = [n \in 1..Len(a.items) |-> one(n)]
    BY <2>1
  <2>3. \A x \in Range(all) : \E n \in DOMAIN a.items : x = one(n)
    BY DEF Range
  <2> HIDE DEF all
  <2>4. DOMAIN all = 1..Len(a.items) /\ all = [n \in 1..Len(a.items) |-> all[n]]
    BY <2>2
  <2>5. IsList(all)
    BY <2>1, <2>4, ListOf
  <2> QED BY <1>2, <2>3, <2>5
<1>4. IsList(<<a>>) /\ \A x \in Range(<<a>>) : x.container \in Path
  <2>1. DOMAIN <<a>> = 1..1 /\ <<a>> = [n \in 1..1 |-> <<a>>[n]]
    OBVIOUS
  <2>2. IsList(<<a>>)
    BY <2>1, ListOf
  <2>3. \A x \in Range(<<a>>) : x = a
    BY DEF Range
  <2> QED BY <2>2, <2>3 DEF IsStated
<1> HIDE DEF all
<1> QED BY <1>1, <1>3, <1>4

(* What a law states names paths.                                          *)
LEMMA StatedKeeps ==
  ASSUME NEW amendments, IsList(amendments), \A a \in Range(amendments) : IsStated(a)
  PROVE  /\ IsList(Stated(amendments))
         /\ \A x \in Range(Stated(amendments)) : x.container \in Path
<1> DEFINE N == Len(amendments)
           of(n) == OneForEachItem(AddressedByOlrc(amendments[n], "any"))
           seqs == [n \in DOMAIN amendments |-> of(n)]
<1>1. N \in Nat /\ DOMAIN amendments = 1..N
  BY DEF IsList
<1>2. \A n \in 1..N : IsList(of(n)) /\ \A x \in Range(of(n)) : x.container \in Path
  <2> SUFFICES ASSUME NEW n \in 1..N
               PROVE  IsList(of(n)) /\ \A x \in Range(of(n)) : x.container \in Path
    OBVIOUS
  <2>1. IsStated(AddressedByOlrc(amendments[n], "any"))
    BY <1>1, EachInList, OlrcKeeps
  <2> QED BY <2>1, ItemsKeep
<1>3. Stated(amendments) = FlattenSeq(seqs)
  BY Zenon DEF Stated
<1> HIDE DEF of
<1>4. /\ DOMAIN seqs = 1..N /\ seqs = [n \in 1..N |-> seqs[n]]
      /\ \A n \in 1..N : seqs[n] = of(n)
  BY <1>1
<1> HIDE DEF seqs, N
<1>5. /\ IsList(FlattenSeq(seqs))
      /\ Range(FlattenSeq(seqs)) = UNION {Range(seqs[n]) : n \in 1..N}
  BY <1>1, <1>2, <1>4, FlattenLists
<1>6. ASSUME NEW x \in Range(Stated(amendments)) PROVE x.container \in Path
  <2>1. PICK n \in 1..N : x \in Range(seqs[n])
    BY <1>3, <1>5
  <2> QED BY <1>2, <1>4, <2>1
<1> QED BY <1>3, <1>5, <1>6

(* What the laws held state.                                               *)
LEMMA StatedByKeeps ==
  ASSUME book \in Books, NEW laws
  PROVE  /\ IsList(StatedBy(laws))
         /\ \A n \in DOMAIN StatedBy(laws) : StatedBy(laws)[n].container \in Path
<1> DEFINE N == Len(book)
           made(l, n) == [book[l][n].states EXCEPT !.enacted = enacted[l]]
           of(l) == [n \in DOMAIN book[l] |-> made(l, n)]
           each(l) == IF l \in laws THEN of(l) ELSE <<>>
           seqs == [l \in Laws |-> each(l)]
<1>1. /\ N \in Nat /\ Laws = 1..N /\ \A l \in Laws : IsLaw(l, book[l])
  BY BooksAssumption DEF Laws
<1>2. ASSUME NEW l \in Laws, NEW n \in DOMAIN book[l] PROVE IsStated(made(l, n))
  <2> DEFINE s == book[l][n].states
  <2>1. s \in Statement
    BY <1>1 DEF IsLaw
  <2>2. IsStated(s)
    <3> HIDE DEF s
    <3>1. /\ s.container \in Path /\ s.items \in Seq(Item)
          /\ DOMAIN s = {"id", "law", "enacted", "place", "unresolved", "section", "container",
                         "items", "itemWords", "item", "evidence", "actions", "rewrites",
                         "asMoved", "headingAlone", "unitsNamed"}
      BY <2>1 DEF Statement
    <3>2. ASSUME NEW k \in DOMAIN s.items PROVE s.items[k].container \in Path
      <4>1. s.items[k] \in Item
        BY <3>1
      <4> QED BY <4>1 DEF Item
    <3> QED BY <3>1, <3>2 DEF IsStated
  <2> HIDE DEF s
  <2>3. made(l, n) = [s EXCEPT !.enacted = enacted[l]]
    BY DEF s
  <2>4. /\ DOMAIN made(l, n) = DOMAIN s /\ made(l, n).container = s.container
        /\ made(l, n).items = s.items
    BY <2>2, <2>3 DEF IsStated
  <2> HIDE DEF made
  <2> QED BY <2>2, <2>4 DEF IsStated
<1> HIDE DEF made
<1>3. ASSUME NEW l \in Laws PROVE IsList(each(l)) /\ \A a \in Range(each(l)) : IsStated(a)
  <2> DEFINE M == Len(book[l])
  <2>1. M \in Nat /\ DOMAIN book[l] = 1..M
    BY <1>1 DEF IsLaw
  <2>2. of(l) = [n \in 1..M |-> made(l, n)]
    BY <2>1
  <2>3. \A a \in Range(of(l)) : \E n \in DOMAIN book[l] : a = made(l, n)
    BY DEF Range
  <2> HIDE DEF of, M
  <2>4. DOMAIN of(l) = 1..M /\ of(l) = [n \in 1..M |-> of(l)[n]]
    BY <2>2
  <2>5. IsList(of(l)) /\ \A a \in Range(of(l)) : IsStated(a)
    BY <1>2, <2>1, <2>3, <2>4, ListOf
  <2>6. IsList(<<>>) /\ Range(<<>>) = {}
    BY DEF IsList, Range
  <2> QED BY <2>5, <2>6
<1> HIDE DEF each
<1>4. /\ DOMAIN seqs = 1..N /\ seqs = [l \in 1..N |-> seqs[l]]
      /\ \A l \in 1..N : seqs[l] = each(l)
  BY <1>1
<1>5. StatedBy(laws) = Stated(FlattenSeq(seqs)) \o <<>>
  BY Zenon DEF StatedBy, each, of, made
<1> HIDE DEF seqs, N
<1> DEFINE amendments == FlattenSeq(seqs)
<1>6. IsList(amendments) /\ \A a \in Range(amendments) : IsStated(a)
  <2>1. \A l \in 1..N : IsList(seqs[l]) /\ \A a \in Range(seqs[l]) : IsStated(a)
    BY <1>1, <1>3, <1>4
  <2>2. /\ IsList(FlattenSeq(seqs))
        /\ Range(FlattenSeq(seqs)) = UNION {Range(seqs[l]) : l \in 1..N}
    BY <1>1, <1>4, <2>1, FlattenLists
  <2> QED BY <2>1, <2>2
<1> HIDE DEF amendments
<1>7. /\ IsList(Stated(amendments))
      /\ \A x \in Range(Stated(amendments)) : x.container \in Path
  BY <1>6, StatedKeeps
<1>8. Stated(amendments) \o <<>> = Stated(amendments)
  BY <1>7 DEF IsList
<1>9. StatedBy(laws) = Stated(amendments)
  BY <1>5, <1>8 DEF amendments
<1> QED BY <1>7, <1>9, EachInList

-----------------------------------------------------------------------------
(* Places of one section are resolved together.                            *)

(* Windows that are of trees, each at its own place.                       *)
SoundViews(views) ==
  /\ \A v \in views : SoundView(v)
  /\ \A u, v \in views : u.window = v.window => u = v

IsStatement(said) ==
  IsList(said) /\ \A n \in DOMAIN said : said[n].container \in Path

(* A place resolved in a window where sections stay is sound.              *)
LEMMA ResolvedIsSound ==
  ASSUME NEW views, SoundViews(views), NEW said, IsStatement(said),
         NEW w, \A v \in views : v.window = w => Stays(v),
         NEW r \in AllResolved(views, said, AllPlaces(views, said)), r.window = w
  PROVE  SoundPlace(r)
<1> DEFINE places == AllPlaces(views, said)
<1>1. PICK n \in DOMAIN said : r \in ResolvedIn(views, said, n, Of(places, n))
  BY DEF AllResolved
<1> DEFINE own == Of(places, n)
           with == {p \in own : p.candidates # {}}
           enclosed == Oldest({p \in own : p.enclosing # {}})
           added(p) == \A c \in p.enclosing : c.whole = "added"
           view(p) == CHOOSE v \in views : v.window = p.window
           inside == {AddedInside(view(p), said[n], p) :
                        p \in {p \in enclosed : OnlyInserts(said[n]) /\ added(p)}}
<1>2. r \in Oldest(with) \/ r \in inside
  <2>1. ResolvedIn(views, said, n, own) = IF with # {} THEN Oldest(with) ELSE inside
    BY Zenon DEF ResolvedIn
  <2> HIDE DEF own, with, inside
  <2> QED BY <1>1, <2>1 DEF own
<1>3. ASSUME NEW p \in places
      PROVE  \E v \in views, m \in DOMAIN said : p \in PlacedIn(v, said, m)
  BY DEF AllPlaces, LookedFor
<1>4. ASSUME NEW p \in places, p.window = w, NEW v \in views, NEW m \in DOMAIN said,
             p \in PlacedIn(v, said, m)
      PROVE  /\ SoundPlace(p) /\ Holds(v, p) /\ SoundView(v) /\ v.window = p.window
             /\ p = [who |-> m, window |-> v.window, section |-> p.section,
                     address |-> p.address, candidates |-> p.candidates,
                     enclosing |-> p.enclosing]
  <2> HIDE DEF places
  <2>1. p.window = v.window
    <3>1. \E section, under : p = PlaceAt(v, said[m], m, section, under)
      BY <1>4, Zenon DEF PlacedIn
    <3>2. PICK section, under : p = PlaceAt(v, said[m], m, section, under)
      BY <3>1
    <3>3. PlaceAt(v, said[m], m, section, under).window = v.window
      BY DEF PlaceAt
    <3> QED BY <3>2, <3>3
  <2>2. SoundView(v) /\ Stays(v) /\ said[m].container \in Path
    BY <1>4, <2>1 DEF SoundViews, IsStatement
  <2>3. /\ SoundPlace(p) /\ Holds(v, p)
        /\ p = [who |-> m, window |-> v.window, section |-> p.section,
                address |-> p.address, candidates |-> p.candidates,
                enclosing |-> p.enclosing]
    BY ONLY <1>4, <2>2, PlacesAreSound
  <2> QED BY <2>1, <2>2, <2>3
<1>5. CASE r \in Oldest(with)
  <2>1. r \in places
    BY <1>5 DEF Oldest, Of
  <2> HIDE DEF places
  <2> QED BY <1>3, <1>4, <2>1
<1>6. CASE r \in inside
  <2>1. PICK p \in places : added(p) /\ r = AddedInside(view(p), said[n], p)
    <3>1. enclosed \subseteq places
      BY DEF Oldest, Of
    <3> HIDE DEF enclosed, places, view, added
    <3> QED BY <1>6, <3>1
  <2> HIDE DEF places, view
  <2>2. p.window = w
    <3>1. AddedInside(view(p), said[n], p).window = p.window
      <4>1. \E made : AddedInside(view(p), said[n], p) = [p EXCEPT !.candidates = made]
        BY Zenon DEF AddedInside
      <4>2. PICK v \in views, m \in DOMAIN said : p \in PlacedIn(v, said, m)
        BY <1>3
      <4>3. PICK section, under : p = PlaceAt(v, said[m], m, section, under)
        BY <4>2, Zenon DEF PlacedIn
      <4>4. "window" \in DOMAIN p
        BY <4>3 DEF PlaceAt
      <4> QED BY <4>1, <4>4
    <3> QED BY <2>1, <3>1
  <2>3. PICK v \in views, m \in DOMAIN said : p \in PlacedIn(v, said, m)
    BY <1>3
  <2>4. /\ SoundPlace(p) /\ Holds(v, p) /\ SoundView(v) /\ v.window = p.window
        /\ p = [who |-> m, window |-> v.window, section |-> p.section,
                address |-> p.address, candidates |-> p.candidates,
                enclosing |-> p.enclosing]
    BY <1>4, <2>2, <2>3
  <2>5. view(p) = v
    BY <2>4 DEF view, SoundViews
  <2>6. SoundPlace(AddedInside(v, said[n], p))
    BY <2>1, <2>4, InsideIsSound
  <2> QED BY <2>1, <2>5, <2>6
<1> HIDE DEF with, inside
<1> QED BY <1>2, <1>5, <1>6

(* The places resolved together with one.                                  *)
GroupOf(resolved, r) == {q \in resolved : q.window = r.window /\ q.section = r.section}

Contenders(group, said) ==
  LET members == Members(group, said)
  IN [m \in DOMAIN members |-> Contender(said[members[m].who], members[m])]

(* A link is of the mth place of a group, and of what it was given.        *)
IsLinkOf(o, group, said, m) ==
  LET members == Members(group, said) IN
  /\ m \in DOMAIN members /\ members[m] \in group
  /\ o.who = members[m].who /\ o.window = members[m].window
  /\ o.address = members[m].address
  /\ o.changes = CausedBy(m, Resolved(Contenders(group, said)))
  /\ o.changes # {}

(* Each linked outcome is of a place of its group.                         *)
LEMMA LinkedIsOf ==
  ASSUME NEW views, NEW said, IsStatement(said), NEW places, NEW resolved,
         NEW p \in AllOutcomes(views, said, places, resolved), p.outcome = "linked"
  PROVE  \E r \in resolved : \E m : IsLinkOf(p, GroupOf(resolved, r), said, m)
<1> DEFINE of(r) == {q \in resolved : q.window = r.window /\ q.section = r.section}
           groups == {of(r) : r \in resolved}
           left == DOMAIN said \ {r.who : r \in resolved}
<1>1. \/ \E group \in groups : p \in GroupOutcomes(group, places, said)
      \/ \E n \in left : p \in Unplaced(views, said, n, Of(places, n))
  <2> DEFINE A == {GroupOutcomes(group, places, said) : group \in groups}
             B == {Unplaced(views, said, n, Of(places, n)) : n \in left}
  <2>1. AllOutcomes(views, said, places, resolved) = (UNION A) \cup UNION B
    BY Zenon DEF AllOutcomes
  <2>2. \A X \in A : \E group \in groups : X = GroupOutcomes(group, places, said)
    <3> HIDE DEF groups
    <3> QED OBVIOUS
  <2>3. \A X \in B : \E n \in left : X = Unplaced(views, said, n, Of(places, n))
    <3> HIDE DEF left
    <3> QED OBVIOUS
  <2> HIDE DEF A, B, groups, left
  <2>4. \E X \in A \cup B : p \in X
    BY <2>1
  <2> QED BY <2>2, <2>3, <2>4
<1>2. ASSUME NEW n, NEW own, p \in Unplaced(views, said, n, own) PROVE FALSE
  <2>1. \E address, stage, reason, quiet, window, under :
           p = Residue(n, address, stage, reason, quiet, window, under)
    <3> DEFINE enclosed == Oldest({q \in own : q.enclosing # {}})
    <3>1. \/ p \in {Residue(n, <<>>, "address", said[n].unresolved, FALSE, 0, {})}
          \/ p \in {Residue(n, q.address, "window", "inside", FALSE, q.window,
                            Paths(q.enclosing)) : q \in enclosed}
          \/ p \in {Residue(n, <<>>, "window", "nothing",
                            LookedFor(views, said, n) = {} \/ own # {}, 0, {})}
      BY <1>2, Zenon DEF Unplaced
    <3> HIDE DEF enclosed
    <3> QED BY <3>1
  <2>2. PICK address, stage, reason, quiet, window, under :
           p = Residue(n, address, stage, reason, quiet, window, under)
    BY <2>1
  <2> QED BY <2>2 DEF Residue
<1>3. PICK r \in resolved : p \in GroupOutcomes(of(r), places, said)
  <2>1. PICK group \in groups : p \in GroupOutcomes(group, places, said)
    BY <1>1, <1>2
  <2>2. PICK r \in resolved : group = of(r)
    BY <2>1
  <2> QED BY <2>1, <2>2
<1> DEFINE group == GroupOf(resolved, r)
           members == Members(group, said)
           contenders == Contenders(group, said)
           cause == Resolved(contenders)
           later(x) == {q.window : q \in {q \in places :
                          q.who = x.who /\ q.candidates # {} /\ q.window > x.window}}
           linked(m) == Linked(members[m].who, members[m], CausedBy(m, cause), later(members[m]))
           stopped(m) == Residue(members[m].who, members[m].address, "resolve",
                                 WhyStopped(contenders, m, cause), FALSE,
                                 members[m].window, Paths(members[m].candidates))
<1>4. p \in OutcomesBy(cause, members, contenders, places)
  <2>1. of(r) = group
    BY DEF GroupOf
  <2> HIDE DEF of, group
  <2>2. p \in GroupOutcomes(group, places, said)
    BY <1>3, <2>1
  <2> QED BY <2>2, Zenon DEF GroupOutcomes, Contenders
<1> HIDE DEF group
<1>5. PICK m \in DOMAIN members :
        (p = linked(m) /\ CausedBy(m, cause) # {}) \/ p = stopped(m)
  <2> HIDE DEF members, contenders, cause
  <2>1. \E m \in DOMAIN members :
          p = IF CausedBy(m, cause) # {} THEN linked(m) ELSE stopped(m)
    BY <1>4, Zenon DEF OutcomesBy
  <2> HIDE DEF linked, stopped
  <2> QED BY <2>1
<1>6. members[m] \in group
  BY MembersAre DEF IsStatement
<1>7. p = linked(m) /\ CausedBy(m, cause) # {}
  <2>1. stopped(m).outcome = "residue"
    BY DEF Residue
  <2> HIDE DEF linked, stopped, members, cause
  <2> QED BY <1>5, <2>1
<1> HIDE DEF members, cause, later
<1>8. /\ p.who = members[m].who /\ p.window = members[m].window
      /\ p.address = members[m].address /\ p.changes = CausedBy(m, cause)
  BY <1>7 DEF Linked
<1> QED BY <1>5, <1>6, <1>7, <1>8, Zenon DEF IsLinkOf, group, members, cause

(* The groups a window's amendments are resolved in are given changes of   *)
(* one cause, apart from those that hold sections.                         *)
LEMMA MatchedHaveOneCause ==
  ASSUME NEW views, SoundViews(views), NEW said, IsStatement(said),
         NEW w, \A v \in views : v.window = w => Stays(v),
         NEW p \in Matched(views, said), p.outcome = "linked", p.window = w,
         NEW q \in Matched(views, said), q.outcome = "linked", q.window = w,
         p.who # q.who, NEW c \in p.changes \cap q.changes
  PROVE  EditedInPlace(c) \/ HoldsSections(c, p, q)
<1> DEFINE places == AllPlaces(views, said)
           resolved == AllResolved(views, said, places)
           of(r) == GroupOf(resolved, r)
           members(g) == Members(g, said)
           contenders(g) == Contenders(g, said)
<1>1. p \in AllOutcomes(views, said, places, resolved)
      /\ q \in AllOutcomes(views, said, places, resolved)
  BY Zenon DEF Matched, MatchedAt
<1>2. PICK r \in resolved : \E m : IsLinkOf(p, of(r), said, m)
  <2> HIDE DEF places, resolved
  <2> QED BY <1>1, LinkedIsOf
<1>3. PICK m : IsLinkOf(p, of(r), said, m)
  BY <1>2
<1>4. PICK s \in resolved : \E k : IsLinkOf(q, of(s), said, k)
  <2> HIDE DEF places, resolved
  <2> QED BY <1>1, LinkedIsOf
<1>5. PICK k : IsLinkOf(q, of(s), said, k)
  BY <1>4
<1> DEFINE x == members(of(r))[m]
           y == members(of(s))[k]
<1>6. /\ x \in resolved /\ x.window = w /\ x.window = r.window /\ x.section = r.section
      /\ y \in resolved /\ y.window = w /\ y.window = s.window /\ y.section = s.section
  <2> HIDE DEF resolved
  <2>1. x \in of(r) /\ p.window = x.window /\ y \in of(s) /\ q.window = y.window
    BY <1>3, <1>5 DEF IsLinkOf
  <2> HIDE DEF x, y
  <2> QED BY <2>1 DEF GroupOf
<1>7. \A z \in resolved : z.window = w => SoundPlace(z)
  <2> SUFFICES ASSUME NEW z \in resolved, z.window = w PROVE SoundPlace(z)
    OBVIOUS
  <2> QED BY ResolvedIsSound
<1> HIDE DEF resolved, places
<1>8. CASE r.section = s.section
  <2>1. of(r) = of(s)
    <3> HIDE DEF x, y
    <3> QED BY <1>6, <1>8 DEF GroupOf
  <2> DEFINE group == of(r)
  <2>2. m # k /\ m \in DOMAIN members(group) /\ k \in DOMAIN members(group)
    <3> QED BY <1>3, <1>5, <2>1 DEF IsLinkOf
  <2>3. HasAddresses(contenders(group))
    <3> SUFFICES ASSUME NEW who \in DOMAIN members(group)
                 PROVE  contenders(group)[who].address \in Path
      BY DEF HasAddresses, Path, Segment, Contenders
    <3>1. members(group)[who] \in group
      BY MembersAre DEF IsStatement
    <3>2. members(group)[who].address \in Path
      <4> HIDE DEF members
      <4>1. members(group)[who] \in resolved /\ members(group)[who].window = w
        <5> HIDE DEF x, y
        <5> QED BY <1>6, <3>1 DEF GroupOf
      <4> QED BY <1>7, <4>1 DEF SoundPlace, IsAddress, IsPath
    <3>3. contenders(group)[who] = Contender(said[members(group)[who].who], members(group)[who])
      BY DEF Contenders
    <3> HIDE DEF members, contenders
    <3> QED BY <3>2, <3>3 DEF Contender
  <2>4. DOMAIN contenders(group) = DOMAIN members(group)
    BY DEF Contenders
  <2>5. c \in CausedBy(m, Resolved(contenders(group))) \cap CausedBy(k, Resolved(contenders(group)))
    <3> QED BY <1>3, <1>5, <2>1 DEF IsLinkOf
  <2> HIDE DEF members, contenders, group
  <2>6. EditedInPlace(c)
    BY <2>2, <2>3, <2>4, <2>5, ResolvedIsOne
  <2> QED BY <2>6
<1>9. CASE r.section # s.section
  <2>1. ASSUME NEW g, NEW n, c \in CausedBy(n, Resolved(contenders(g)))
        PROVE  c \in members(g)[n].candidates
    <3>1. c \in contenders(g)[n].candidates /\ n \in DOMAIN contenders(g)
      <4> HIDE DEF contenders
      <4> QED BY <2>1, CausedAmongCandidates
    <3>2. contenders(g)[n] = Contender(said[members(g)[n].who], members(g)[n])
      BY <3>1 DEF Contenders
    <3> HIDE DEF members, contenders
    <3> QED BY <3>1, <3>2 DEF Contender
  <2>2. c \in x.candidates /\ c \in y.candidates
    <3>1. /\ c \in CausedBy(m, Resolved(contenders(of(r))))
          /\ c \in CausedBy(k, Resolved(contenders(of(s))))
      BY <1>3, <1>5 DEF IsLinkOf
    <3> HIDE DEF members, contenders, of
    <3> QED BY <2>1, <3>1 DEF x, y
  <2>3. x.address = p.address /\ y.address = q.address
    BY <1>3, <1>5 DEF IsLinkOf
  <2> HIDE DEF x, y
  <2>4. SoundPlace(x) /\ SoundPlace(y) /\ x.section # y.section
    BY <1>6, <1>7, <1>9
  <2>5. /\ c.whole = "added" /\ \A n \in DOMAIN c.path : c.path[n].level # "section"
        /\ IsStrictPrefix(c.path, x.address) /\ IsStrictPrefix(c.path, y.address)
    BY <2>2, <2>4, PlacesApart
  <2> QED BY <2>3, <2>5 DEF HoldsSections
<1> QED BY <1>8, <1>9

-----------------------------------------------------------------------------
(* What is done to a printing leaves a tree.                               *)

(* A printing is a tree of provisions.                                     *)
IsDoc(doc) ==
  Tree(doc) /\ \A i \in DOMAIN doc : {"path", "above", "words"} \subseteq DOMAIN doc[i]

(* A provision reworded leaves a tree.                                     *)
LEMMA RewordedKeeps ==
  ASSUME NEW doc, IsDoc(doc), NEW i, NEW words
  PROVE  IsDoc([doc EXCEPT ![i].words = words])
<1> DEFINE new == [doc EXCEPT ![i].words = words]
<1>1. DOMAIN new = DOMAIN doc
  OBVIOUS
<1>2. ASSUME NEW j \in DOMAIN doc
      PROVE  /\ DOMAIN new[j] = DOMAIN doc[j]
             /\ new[j].path = doc[j].path /\ new[j].above = doc[j].above
  <2>1. new[j] = IF j = i THEN [doc[j] EXCEPT !.words = words] ELSE doc[j]
    OBVIOUS
  <2>2. {"path", "above"} \subseteq DOMAIN doc[j]
    BY DEF IsDoc
  <2> HIDE DEF new
  <2> QED BY <2>1, <2>2
<1> HIDE DEF new
<1>3. Tree(new)
  <2>1. Tree(doc)
    BY DEF IsDoc
  <2>2. ASSUME NEW j \in DOMAIN doc
        PROVE  /\ j \in Nat \ {0} /\ doc[j].above \in DOMAIN doc \cup {0}
               /\ doc[j].path \in Path /\ OneSection(doc[j].path)
               /\ j # Root => doc[j].path # <<>>
               /\ doc[j].above # 0 => IsPrefix(doc[doc[j].above].path, doc[j].path)
    BY <2>1 DEF Tree
  <2>3. ASSUME NEW j \in DOMAIN doc, doc[j].above # 0
        PROVE  new[doc[j].above].path = doc[doc[j].above].path
    BY <1>2, <2>2, <2>3
  <2> QED BY <1>1, <1>2, <2>2, <2>3 DEF Tree
<1> QED BY <1>1, <1>2, <1>3 DEF IsDoc, new

(* A provision struck leaves a tree, and takes all under it along.         *)
LEMMA StruckKeeps ==
  ASSUME NEW doc, IsDoc(doc), NEW i \in DOMAIN doc
  PROVE  IsDoc(Restrict(doc, DOMAIN doc \ AtOrUnder(doc, i)))
<1> DEFINE left == DOMAIN doc \ AtOrUnder(doc, i)
           new == Restrict(doc, left)
<1>1. DOMAIN new = left /\ \A j \in left : new[j] = doc[j] /\ j \in DOMAIN doc
  BY DEF Restrict
<1>2. ASSUME NEW j \in DOMAIN doc
      PROVE  /\ j \in Nat \ {0} /\ doc[j].above \in DOMAIN doc \cup {0}
             /\ doc[j].path \in Path /\ OneSection(doc[j].path)
             /\ j # Root => doc[j].path # <<>>
             /\ doc[j].above # 0 => IsPrefix(doc[doc[j].above].path, doc[j].path)
  BY DEF Tree, IsDoc
<1>3. ASSUME NEW j \in left, doc[j].above # 0 PROVE doc[j].above \in left
  <2> DEFINE k == doc[j].above
  <2>1. k \in DOMAIN doc /\ IsPrefix(doc[k].path, doc[j].path)
    BY <1>1, <1>2, <1>3
  <2>2. ASSUME k \in AtOrUnder(doc, i) PROVE FALSE
    <3>1. IsPrefix(doc[i].path, doc[k].path)
      BY <2>2 DEF AtOrUnder, IsAtOrBelow
    <3>2. IsPrefix(doc[i].path, doc[j].path)
      BY <1>1, <1>2, <2>1, <3>1, PrefixOfPrefix
    <3> QED BY <3>2 DEF AtOrUnder, IsAtOrBelow
  <2> QED BY <2>1, <2>2
<1> HIDE DEF left, new
<1>4. Tree(new)
  <2>1. ASSUME NEW j \in left, doc[j].above # 0
        PROVE  new[doc[j].above].path = doc[doc[j].above].path
    BY <1>1, <1>3, <2>1
  <2> QED BY <1>1, <1>2, <1>3, <2>1 DEF Tree
<1> QED BY <1>1, <1>4 DEF IsDoc, new, left

(* A provision inserted under one that has none of that number leaves a    *)
(* tree.                                                                   *)
LEMMA InsertedKeeps ==
  ASSUME NEW doc, IsDoc(doc), NEW e, IsEdit(e), e.what = "add", At(doc, e.path) # {},
         \A i \in DOMAIN e.new : i \notin DOMAIN doc
  PROVE  IsDoc(Inserted(doc, e.new))
<1> DEFINE all == DOMAIN doc \cup DOMAIN e.new
           holder(path) == CHOOSE j \in all : PathIn(doc, e.new, j) = Front(path)
           one(i) == IF i \in DOMAIN doc THEN doc[i]
                     ELSE [path |-> e.new[i].path, above |-> holder(e.new[i].path),
                           words |-> e.new[i].words]
           new == Inserted(doc, e.new)
<1>1. new = [i \in all |-> one(i)]
  BY Zenon DEF Inserted
<1>2. ASSUME NEW j \in DOMAIN doc
      PROVE  /\ j \in Nat \ {0} /\ doc[j].above \in DOMAIN doc \cup {0}
             /\ doc[j].path \in Path /\ OneSection(doc[j].path)
             /\ j # Root => doc[j].path # <<>>
             /\ doc[j].above # 0 => IsPrefix(doc[doc[j].above].path, doc[j].path)
  BY DEF Tree, IsDoc
<1>3. ASSUME NEW i \in DOMAIN e.new
      PROVE  /\ i \in Nat \ {0} /\ e.new[i].path \in Path /\ e.new[i].path # <<>>
             /\ OneSection(e.new[i].path)
             /\ \/ Front(e.new[i].path) = e.path
                \/ \E j \in DOMAIN e.new : e.new[j].path = Front(e.new[i].path)
  BY DEF IsEdit
<1>4. ASSUME NEW i \in DOMAIN e.new
      PROVE  /\ holder(e.new[i].path) \in all
             /\ PathIn(doc, e.new, holder(e.new[i].path)) = Front(e.new[i].path)
  <2>1. PICK h \in DOMAIN doc : doc[h].path = e.path
    BY DEF At
  <2>2. \E j \in all : PathIn(doc, e.new, j) = Front(e.new[i].path)
    <3>1. CASE Front(e.new[i].path) = e.path
      BY <2>1, <3>1 DEF PathIn
    <3>2. CASE \E j \in DOMAIN e.new : e.new[j].path = Front(e.new[i].path)
      <4>1. PICK j \in DOMAIN e.new : e.new[j].path = Front(e.new[i].path)
        BY <3>2
      <4>2. PathIn(doc, e.new, j) = e.new[j].path
        BY DEF PathIn
      <4> QED BY <4>1, <4>2
    <3> QED BY <1>3, <3>1, <3>2
  <2> HIDE DEF all
  <2> QED BY <2>2
<1> HIDE DEF holder
<1>5. /\ DOMAIN new = all
      /\ \A j \in DOMAIN doc : new[j] = doc[j]
      /\ \A j \in DOMAIN e.new : /\ new[j].path = e.new[j].path
                                 /\ new[j].above = holder(e.new[j].path)
                                 /\ DOMAIN new[j] = {"path", "above", "words"}
      /\ \A j \in all : new[j].path = PathIn(doc, e.new, j)
  <2>1. DOMAIN new = all /\ \A j \in all : new[j] = one(j)
    BY <1>1
  <2>2. ASSUME NEW j \in DOMAIN e.new
        PROVE  one(j) = [path |-> e.new[j].path, above |-> holder(e.new[j].path),
                         words |-> e.new[j].words]
    OBVIOUS
  <2>3. \A j \in DOMAIN doc : one(j) = doc[j]
    OBVIOUS
  <2> HIDE DEF one, new
  <2> QED BY <2>1, <2>2, <2>3 DEF PathIn
<1> HIDE DEF new
<1>6. ASSUME NEW i \in DOMAIN e.new PROVE IsPrefix(Front(e.new[i].path), e.new[i].path)
  <2> DEFINE path == e.new[i].path
  <2>1. path \in Path /\ Len(path) # 0 /\ Len(path) \in Nat
    BY <1>3 DEF Path
  <2> HIDE DEF path
  <2>2. /\ Front(path) \in Path /\ Len(Front(path)) = Len(path) - 1
        /\ \A k \in 1..(Len(path) - 1) : Front(path)[k] = path[k]
    BY <2>1, FrontIs
  <2>3. IsPrefix(Front(path), path)
    BY <2>1, <2>2, PrefixIs
  <2> QED BY <2>3 DEF path
<1>7. ASSUME NEW i \in all
      PROVE  /\ i \in Nat \ {0} /\ new[i].above \in all \cup {0}
             /\ new[i].path \in Path /\ OneSection(new[i].path)
             /\ i # Root => new[i].path # <<>>
             /\ new[i].above # 0 => IsPrefix(new[new[i].above].path, new[i].path)
             /\ {"path", "above", "words"} \subseteq DOMAIN new[i]
  <2>1. CASE i \in DOMAIN doc
    <3>1. {"path", "above", "words"} \subseteq DOMAIN doc[i]
      BY <2>1 DEF IsDoc
    <3>2. doc[i].above # 0 => new[doc[i].above] = doc[doc[i].above]
      BY <1>2, <1>5, <2>1
    <3> QED BY <1>2, <1>5, <2>1, <3>1, <3>2
  <2>2. CASE i \in DOMAIN e.new
    <3>1. new[new[i].above].path = Front(e.new[i].path) /\ new[i].above \in all
      BY <1>4, <1>5, <2>2
    <3> QED BY <1>3, <1>5, <1>6, <2>2, <3>1
  <2> QED BY <2>1, <2>2
<1> HIDE DEF all
<1>8. Tree(new)
  BY <1>5, <1>7 DEF Tree
<1> QED BY <1>5, <1>7, <1>8 DEF IsDoc, new

(* What is at or under one path, under the other its last segment makes.   *)
CarriedTo(s, segment, t) == Append(Front(s), segment) \o Below(t, Len(s))

(* It differs in one segment.                                              *)
OneSegment(s, segment, t, u) ==
  /\ u \in Path /\ Len(u) = Len(t)
  /\ \A k \in 1..Len(t) : (k = Len(s) => u[k] = segment) /\ (k # Len(s) => u[k] = t[k])

(* A path carried to another number is one of the same levels.             *)
LEMMA CarriedIs ==
  ASSUME NEW s \in Path, s # <<>>, NEW segment \in Segment, NEW t \in Path, IsPrefix(s, t)
  PROVE  OneSegment(s, segment, t, CarriedTo(s, segment, t))
<1> DEFINE n == Len(s)
           front == Front(s)
           head == Append(front, segment)
           rest == Below(t, n)
           u == CarriedTo(s, segment, t)
<1>1. /\ n \in Nat \ {0} /\ Len(t) \in Nat /\ n <= Len(t)
      /\ \A k \in 1..n : s[k] = t[k]
  <2>1. Len(s) \in Nat \ {0} /\ Len(t) \in Nat
    BY DEF Path
  <2> QED BY <2>1, PrefixIs
<1>2. /\ front \in Path /\ Len(front) = n - 1 /\ \A k \in 1..(n - 1) : front[k] = s[k]
  BY <1>1, FrontIs
<1>3. /\ rest \in Path /\ Len(rest) = Len(t) - n
      /\ \A k \in 1..Len(rest) : rest[k] = t[n + k]
  BY <1>1 DEF Below, Path
<1> HIDE DEF front, rest
<1>4. /\ head \in Path /\ Len(head) = n /\ head[n] = segment
      /\ \A k \in 1..(n - 1) : head[k] = s[k]
  <2>1. front \in Seq(Segment)
    BY <1>2 DEF Path
  <2>2. /\ head \in Seq(Segment) /\ Len(head) = Len(front) + 1
        /\ head[Len(front) + 1] = segment
        /\ \A k \in 1..Len(front) : head[k] = front[k]
    BY <2>1
  <2> HIDE DEF head
  <2>3. Len(head) = n /\ head[n] = segment /\ Len(front) = n - 1
    BY <1>1, <1>2, <2>2
  <2> QED BY <1>2, <2>2, <2>3 DEF Path
<1> HIDE DEF head
<1>5. u = head \o rest
  BY DEF head, front, rest, CarriedTo
<1> HIDE DEF u
<1>6. /\ u \in Path /\ Len(u) = Len(head) + Len(rest)
      /\ \A k \in 1..Len(head) : u[k] = head[k]
      /\ \A k \in 1..Len(rest) : u[Len(head) + k] = rest[k]
  <2>1. head \in Seq(Segment) /\ rest \in Seq(Segment)
    BY <1>3, <1>4 DEF Path
  <2>2. /\ head \o rest \in Seq(Segment) /\ Len(head \o rest) = Len(head) + Len(rest)
        /\ \A k \in 1..Len(head) : (head \o rest)[k] = head[k]
        /\ \A k \in 1..Len(rest) : (head \o rest)[Len(head) + k] = rest[k]
    BY <2>1
  <2> QED BY <1>5, <2>2 DEF Path
<1>7. Len(u) = Len(t)
  BY <1>1, <1>3, <1>4, <1>6
<1>8. ASSUME NEW k \in 1..Len(t) PROVE (k = n => u[k] = segment) /\ (k # n => u[k] = t[k])
  <2>1. CASE k <= n
    <3>1. u[k] = head[k]
      BY <1>1, <1>4, <1>6, <2>1
    <3> QED BY <1>1, <1>4, <2>1, <3>1
  <2>2. CASE k > n
    <3> DEFINE j == k - n
    <3> HIDE DEF n
    <3>1. j \in 1..Len(rest) /\ n + j = k /\ k # n
      BY <1>1, <1>3, <2>2
    <3> HIDE DEF j
    <3>2. u[Len(head) + j] = rest[j] /\ rest[j] = t[n + j] /\ Len(head) = n
      BY <1>3, <1>4, <1>6, <3>1
    <3> QED BY <3>1, <3>2
  <2>3. k <= n \/ k > n
    BY <1>1
  <2> HIDE DEF n
  <2> QED BY <2>1, <2>2, <2>3
<1> QED BY <1>6, <1>7, <1>8 DEF OneSegment, n, u

(* A provision renumbered, to a number nothing beside it has, leaves a     *)
(* tree.                                                                   *)
LEMMA RenamedKeeps ==
  ASSUME NEW doc, IsDoc(doc), NEW i \in DOMAIN doc, doc[i].path # <<>>,
         NEW segment \in Segment, segment.level = Last(doc[i].path).level
  PROVE  IsDoc(Renamed(doc, i, segment))
<1> DEFINE s == doc[i].path
           n == Len(s)
           to(p) == Append(Front(s), segment) \o Below(p, n)
           new == Renamed(doc, i, segment)
           moved == AtOrUnder(doc, i)
<1>1. ASSUME NEW j \in DOMAIN doc
      PROVE  /\ j \in Nat \ {0} /\ doc[j].above \in DOMAIN doc \cup {0}
             /\ doc[j].path \in Path /\ OneSection(doc[j].path)
             /\ j # Root => doc[j].path # <<>>
             /\ doc[j].above # 0 => IsPrefix(doc[doc[j].above].path, doc[j].path)
             /\ {"path", "above", "words"} \subseteq DOMAIN doc[j]
  BY DEF Tree, IsDoc
<1>2. new = [j \in DOMAIN doc |-> IF j \in moved
               THEN [doc[j] EXCEPT !.path = to(@)] ELSE doc[j]]
  BY Zenon DEF Renamed
<1> HIDE DEF to, moved
<1>3. ASSUME NEW j \in DOMAIN doc
      PROVE  /\ new[j].path = IF j \in moved THEN to(doc[j].path) ELSE doc[j].path
             /\ new[j].above = doc[j].above /\ DOMAIN new[j] = DOMAIN doc[j]
  <2>1. new[j] = IF j \in moved THEN [doc[j] EXCEPT !.path = to(doc[j].path)] ELSE doc[j]
    BY <1>2
  <2> HIDE DEF new
  <2>2. {"path", "above"} \subseteq DOMAIN doc[j]
    BY <1>1
  <2> QED BY <2>1, <2>2
<1>4. DOMAIN new = DOMAIN doc
  BY <1>2
<1> HIDE DEF new
<1>5. ASSUME NEW j \in moved PROVE j \in DOMAIN doc /\ IsPrefix(s, doc[j].path)
  BY DEF moved, AtOrUnder, IsAtOrBelow
<1>6. ASSUME NEW j \in DOMAIN doc, IsPrefix(s, doc[j].path) PROVE j \in moved
  BY <1>6 DEF moved, AtOrUnder, IsAtOrBelow
<1>7. s \in Path /\ s # <<>> /\ n \in Nat \ {0}
  BY <1>1 DEF Path
<1> HIDE DEF s
<1>8. ASSUME NEW j \in moved
      PROVE  /\ to(doc[j].path) \in Path /\ Len(to(doc[j].path)) = Len(doc[j].path)
             /\ \A k \in 1..Len(doc[j].path) :
                  /\ k = n => to(doc[j].path)[k] = segment
                  /\ k # n => to(doc[j].path)[k] = doc[j].path[k]
  <2>1. doc[j].path \in Path /\ IsPrefix(s, doc[j].path)
    BY <1>1, <1>5
  <2> DEFINE t == doc[j].path
  <2>2. to(t) = CarriedTo(s, segment, t)
    BY DEF to, n, CarriedTo
  <2>3. OneSegment(s, segment, t, CarriedTo(s, segment, t))
    BY <1>7, <2>1, CarriedIs
  <2> HIDE DEF t
  <2>4. OneSegment(s, segment, t, to(t))
    BY <2>2, <2>3
  <2> QED BY <2>4 DEF OneSegment, n, t
<1>9. ASSUME NEW j \in DOMAIN doc
      PROVE  new[j].path \in Path /\ Len(new[j].path) = Len(doc[j].path)
  BY <1>1, <1>3, <1>8
<1>10. ASSUME NEW j \in DOMAIN doc
       PROVE  OneSection(new[j].path)
  <2>1. CASE j \in moved
    <3> DEFINE p == doc[j].path  q == new[j].path
    <3>1. p \in Path /\ q \in Path /\ Len(q) = Len(p) /\ OneSection(p)
      BY <1>1, <1>9
    <3>2. \A k \in 1..Len(p) : (k = n => q[k] = segment) /\ (k # n => q[k] = p[k])
      BY <1>3, <1>8, <2>1
    <3>3. IsPrefix(s, p)
      BY <1>5, <2>1
    <3> HIDE DEF p, q
    <3>4. n \in 1..Len(p) /\ s[n] = p[n] /\ Len(p) \in Nat
      <4>1. Len(p) \in Nat
        BY <3>1 DEF Path
      <4>2. n <= Len(p) /\ \A k \in 1..n : s[k] = p[k]
        BY <1>7, <3>1, <3>3, PrefixIs
      <4> QED BY <1>7, <4>1, <4>2
    <3>5. segment.level = p[n].level
      BY <3>4 DEF Last, s, n
    <3>6. DOMAIN p = 1..Len(p) /\ DOMAIN q = 1..Len(p)
      BY <3>1 DEF Path
    <3>7. \A k \in DOMAIN q : k \in DOMAIN p /\ q[k].level = p[k].level
      BY <3>2, <3>5, <3>6
    <3>8. OneSection(q)
      BY <3>1, <3>7 DEF OneSection
    <3> QED BY <3>8 DEF q
  <2>2. CASE j \notin moved
    BY <1>1, <1>3, <2>2
  <2> QED BY <2>1, <2>2
<1>11. ASSUME NEW j \in DOMAIN doc, doc[j].above # 0
       PROVE  IsPrefix(new[doc[j].above].path, new[j].path)
  <2> DEFINE h == doc[j].above
             p == doc[j].path  q == new[j].path
             a == doc[h].path  b == new[h].path
  <2>1. h \in DOMAIN doc /\ IsPrefix(a, p)
    BY <1>1, <1>11
  <2>2. /\ p \in Path /\ q \in Path /\ a \in Path /\ b \in Path
        /\ Len(q) = Len(p) /\ Len(b) = Len(a)
    BY <1>1, <1>9, <2>1
  <2>3. Len(p) \in Nat /\ Len(a) \in Nat
    BY <2>2 DEF Path
  <2>4. Len(a) <= Len(p) /\ \A k \in 1..Len(a) : a[k] = p[k]
    BY <2>1, <2>2, PrefixIs
  <2>5. \A k \in 1..Len(p) : q[k] = IF j \in moved /\ k = n THEN segment ELSE p[k]
    BY <1>3, <1>8
  <2>6. \A k \in 1..Len(a) : b[k] = IF h \in moved /\ k = n THEN segment ELSE a[k]
    BY <1>3, <1>8, <2>1
  <2>7. h \in moved => j \in moved
    <3> SUFFICES ASSUME h \in moved PROVE j \in moved
      OBVIOUS
    <3>1. IsPrefix(s, a)
      BY <1>5
    <3>2. IsPrefix(s, p)
      BY <1>7, <2>1, <2>2, <3>1, PrefixOfPrefix
    <3> QED BY <1>6, <3>2
  <2>8. ASSUME j \in moved, h \notin moved PROVE Len(a) < n
    <3>1. IsPrefix(s, p) /\ ~IsPrefix(s, a)
      BY <1>5, <1>6, <2>1, <2>8
    <3>2. Len(s) <= Len(a) => IsPrefix(s, a)
      BY <1>7, <2>1, <2>2, <3>1, PrefixesMeet
    <3> QED BY <1>7, <2>3, <3>1, <3>2 DEF n
  <2>9. \A k \in 1..Len(a) : b[k] = q[k]
    <3> SUFFICES ASSUME NEW k \in 1..Len(a) PROVE b[k] = q[k]
      OBVIOUS
    <3>1. k \in 1..Len(p) /\ a[k] = p[k]
      BY <2>3, <2>4
    <3>2. q[k] = (IF j \in moved /\ k = n THEN segment ELSE p[k])
          /\ b[k] = (IF h \in moved /\ k = n THEN segment ELSE a[k])
      BY <2>5, <2>6, <3>1
    <3> HIDE DEF p, q, a, b, h, n
    <3>3. (j \in moved /\ h \notin moved) => k # n
      BY <1>7, <2>3, <2>8
    <3> QED BY <2>7, <3>1, <3>2, <3>3
  <2> HIDE DEF p, q, a, b
  <2>10. IsPrefix(b, q)
    BY <2>2, <2>3, <2>4, <2>9, PrefixIs
  <2> QED BY <2>10 DEF b, q
<1>12. ASSUME NEW j \in DOMAIN doc, j # Root PROVE new[j].path # <<>>
  <2>1. doc[j].path # <<>> /\ doc[j].path \in Path
    BY <1>1, <1>12
  <2>2. Len(doc[j].path) # 0
    BY <2>1 DEF Path
  <2> QED BY <1>9, <2>2
<1>13. Tree(new)
  BY <1>1, <1>3, <1>4, <1>9, <1>10, <1>11, <1>12 DEF Tree
<1> QED BY <1>1, <1>3, <1>4, <1>13 DEF IsDoc, new

(* So does whatever an edit does.                                          *)
LEMMA DoneKeeps ==
  ASSUME NEW doc, IsDoc(doc), NEW e, IsEdit(e), NEW r \in Done(doc, e)
  PROVE  IsDoc(r.doc)
<1> DEFINE here == At(doc, e.path)
           free(path) == At(doc, path) = {}
           result(d, on) == [doc |-> d, on |-> on]
           reworded(i, words) == result([doc EXCEPT ![i].words = words], {i})
<1>1. \/ /\ e.what = "reword"
         /\ r \in {reworded(i, ReplaceFirstSubSeq(e.inserted, e.struck, doc[i].words)) :
                     i \in {i \in here : ContainsRun(doc[i].words, e.struck)}}
      \/ e.what = "rewrite" /\ r \in {reworded(i, e.inserted) : i \in here}
      \/ /\ e.what = "strike"
         /\ r \in {result(Restrict(doc, DOMAIN doc \ AtOrUnder(doc, i)),
                          AtOrUnder(doc, i)) : i \in here}
      \/ /\ e.what = "add"
         /\ r \in IF here # {} /\ \A i \in DOMAIN e.new : i \notin DOMAIN doc /\ free(e.new[i].path)
                  THEN {result(Inserted(doc, e.new), DOMAIN e.new)} ELSE {}
      \/ /\ e.what = "renumber"
         /\ r \in {result(Renamed(doc, i, e.to), {i}) :
                     i \in {i \in here : free(Append(Front(e.path), e.to))}}
  <2>1. e.what \in {"reword", "rewrite", "strike", "add", "renumber"}
    BY DEF IsEdit
  <2> HIDE DEF here, free, result, reworded
  <2> QED BY <2>1, Zenon DEF Done, here, free, result, reworded
<1>2. \A i \in here : i \in DOMAIN doc /\ doc[i].path = e.path
  BY DEF At
<1> HIDE DEF here
<1>3. CASE \E i, words : r = reworded(i, words)
  <2>1. PICK i, words : r = reworded(i, words)
    BY <1>3
  <2>2. r.doc = [doc EXCEPT ![i].words = words]
    BY <2>1
  <2> QED BY <2>2, RewordedKeeps
<1>4. CASE e.what = "strike" /\ r \in {result(Restrict(doc, DOMAIN doc \ AtOrUnder(doc, i)),
                                              AtOrUnder(doc, i)) : i \in here}
  <2>1. PICK i \in here : r = result(Restrict(doc, DOMAIN doc \ AtOrUnder(doc, i)),
                                     AtOrUnder(doc, i))
    BY <1>4
  <2>2. r.doc = Restrict(doc, DOMAIN doc \ AtOrUnder(doc, i))
    BY <2>1
  <2> QED BY <1>2, <2>2, StruckKeeps
<1>5. CASE /\ e.what = "add"
           /\ r \in IF here # {} /\ \A i \in DOMAIN e.new : i \notin DOMAIN doc /\ free(e.new[i].path)
                    THEN {result(Inserted(doc, e.new), DOMAIN e.new)} ELSE {}
  <2>1. /\ here # {} /\ \A i \in DOMAIN e.new : i \notin DOMAIN doc
        /\ r = result(Inserted(doc, e.new), DOMAIN e.new)
    BY <1>5
  <2>2. r.doc = Inserted(doc, e.new)
    BY <2>1
  <2>3. At(doc, e.path) # {} /\ \A i \in DOMAIN e.new : i \notin DOMAIN doc
    BY <2>1 DEF here
  <2> QED BY <1>5, <2>2, <2>3, InsertedKeeps
<1>6. CASE /\ e.what = "renumber"
           /\ r \in {result(Renamed(doc, i, e.to), {i}) :
                       i \in {i \in here : free(Append(Front(e.path), e.to))}}
  <2>1. PICK i \in here : r = result(Renamed(doc, i, e.to), {i})
    BY <1>6
  <2>2. r.doc = Renamed(doc, i, e.to)
    BY <2>1
  <2>3. /\ i \in DOMAIN doc /\ doc[i].path # <<>> /\ e.to \in Segment
        /\ e.to.level = Last(doc[i].path).level
    BY <1>2, <1>6 DEF IsEdit
  <2> QED BY <2>2, <2>3, RenamedKeeps
<1> HIDE DEF free, result, reworded
<1>8. ASSUME r \in {reworded(i, ReplaceFirstSubSeq(e.inserted, e.struck, doc[i].words)) :
                      i \in {i \in here : ContainsRun(doc[i].words, e.struck)}}
      PROVE  \E i, words : r = reworded(i, words)
  BY <1>8, Zenon
<1>9. ASSUME r \in {reworded(i, e.inserted) : i \in here}
      PROVE  \E i, words : r = reworded(i, words)
  BY <1>9, Zenon
<1> QED BY <1>1, <1>3, <1>4, <1>5, <1>6, <1>8, <1>9

(* What amendments do to a printing leaves one.                            *)
LEMMA AllDoneKeeps ==
  ASSUME NEW doc, IsDoc(doc), NEW edits, Len(edits) \in Nat,
         \A n \in 1..Len(edits) : IsEdit(edits[n]),
         NEW result \in AllDone(doc, edits)
  PROVE  IsDoc(result.doc)
<1> DEFINE N == Len(edits)
           after(S, n) == UNION {{[doc |-> d.doc, on |-> r.on \cup d.on] : d \in Done(r.doc, edits[n])} :
                                   r \in S}
           next(S, n) == IF n = 0 THEN {[doc |-> doc, on |-> {}]} ELSE after(S, n)
           rec(f) == f = [n \in 0..N |-> next(f[n - 1], n)]
           upto(n) == \E f : DOMAIN f = 0..n /\ \A k \in 0..n : f[k] = next(f[k - 1], k)
           open == {n \in Nat : n <= N /\ ~upto(n)}
           done == CHOOSE f : rec(f)
<1>1. open = {}
  <2> SUFFICES ASSUME open # {} PROVE FALSE
    OBVIOUS
  <2>1. PICK n \in open : \A m \in open : n <= m
    <3>1. open \in SUBSET Nat
      OBVIOUS
    <3> HIDE DEF open
    <3> QED BY <3>1, LeastMember
  <2>2. n # 0
    <3> DEFINE first == {[doc |-> doc, on |-> {}]}
               f == [k \in 0..0 |-> first]
    <3>1. DOMAIN f = 0..0 /\ \A k \in 0..0 : f[k] = next(f[k - 1], k)
      <4> HIDE DEF after
      <4> QED OBVIOUS
    <3> HIDE DEF f, next
    <3>2. upto(0)
      BY <3>1
    <3> HIDE DEF upto
    <3> QED BY <2>1, <3>2
  <2>3. n \in 1..N /\ n - 1 \in Nat /\ n - 1 \notin open /\ n - 1 <= N
    <3> HIDE DEF upto
    <3> QED BY <2>1, <2>2
  <2>4. PICK f : DOMAIN f = 0..(n - 1) /\ \A k \in 0..(n - 1) : f[k] = next(f[k - 1], k)
    <3>1. upto(n - 1)
      <4> HIDE DEF upto
      <4> QED BY <2>3
    <3> QED BY <3>1
  <2> DEFINE last == next(f[n - 1], n)
             g == [k \in 0..n |-> IF k = n THEN last ELSE f[k]]
  <2> HIDE DEF next
  <2>5. DOMAIN g = 0..n /\ g[n] = last /\ \A k \in 0..(n - 1) : g[k] = f[k]
    BY <2>3
  <2>6. ASSUME NEW k \in 0..n PROVE g[k] = next(g[k - 1], k)
    <3>1. CASE k = n
      BY <2>3, <2>5, <3>1
    <3>2. CASE k # n /\ k # 0
      <4>1. k \in 0..(n - 1) /\ k - 1 \in 0..(n - 1)
        BY <2>3, <3>2
      <4> HIDE DEF g
      <4> QED BY <2>4, <2>5, <4>1
    <3>3. CASE k # n /\ k = 0
      <4>1. \A S : next(S, 0) = {[doc |-> doc, on |-> {}]}
        BY DEF next
      <4>2. 0 \in 0..(n - 1)
        BY <2>3
      <4> HIDE DEF g
      <4> QED BY <2>4, <2>5, <3>3, <4>1, <4>2
    <3> QED BY <3>1, <3>2, <3>3
  <2> HIDE DEF g
  <2>7. upto(n)
    BY <2>5, <2>6
  <2> HIDE DEF upto
  <2> QED BY <2>1, <2>7
<1>2. PICK f : DOMAIN f = 0..N /\ \A k \in 0..N : f[k] = next(f[k - 1], k)
  <2>1. upto(N)
    <3> HIDE DEF upto, N
    <3> QED BY <1>1 DEF N
  <2> QED BY <2>1
<1> HIDE DEF next
<1> DEFINE h == [n \in 0..N |-> f[n]]
<1>3. rec(h)
  <2>1. ASSUME NEW n \in 0..N PROVE h[n] = next(h[n - 1], n)
    <3>1. CASE n # 0
      <4>1. n - 1 \in 0..N
        BY <3>1
      <4> QED BY <1>2, <4>1
    <3>2. CASE n = 0
      <4>1. \A S : next(S, 0) = {[doc |-> doc, on |-> {}]}
        BY DEF next
      <4> QED BY <1>2, <3>2, <4>1
    <3> QED BY <3>1, <3>2
  <2> QED BY <2>1
<1>4. rec(done)
  <2> HIDE DEF rec
  <2> QED BY <1>3
<1>5. \A n \in 0..N : done[n] = next(done[n - 1], n)
  <2> HIDE DEF done
  <2> QED BY <1>4
<1>6. AllDone(doc, edits) = done[N]
  BY Zenon DEF AllDone, next
<1> HIDE DEF done
<1> DEFINE sound(S) == \A r \in S : IsDoc(r.doc)
           wrong == {n \in Nat : n <= N /\ ~sound(done[n])}
<1>7. ASSUME NEW n \in 0..N, NEW S, n # 0 => sound(S) PROVE sound(next(S, n))
  <2>1. CASE n = 0
    <3>1. next(S, n) = {[doc |-> doc, on |-> {}]}
      BY <2>1 DEF next
    <3> QED BY <3>1
  <2>2. CASE n # 0
    <3>1. next(S, n) = after(S, n)
      <4> HIDE DEF after
      <4> QED BY <2>2 DEF next
    <3>2. ASSUME NEW x \in after(S, n) PROVE IsDoc(x.doc)
      <4>3. PICK r \in S : x \in {[doc |-> d.doc, on |-> r.on \cup d.on] : d \in Done(r.doc, edits[n])}
        OBVIOUS
      <4>1. PICK d \in Done(r.doc, edits[n]) : x = [doc |-> d.doc, on |-> r.on \cup d.on]
        BY <4>3
      <4>2. IsDoc(d.doc)
        <5>1. IsDoc(r.doc) /\ IsEdit(edits[n])
          BY <1>7, <2>2
        <5> QED BY <5>1, DoneKeeps
      <4> QED BY <4>1, <4>2
    <3> HIDE DEF after
    <3> QED BY <3>1, <3>2
  <2> QED BY <2>1, <2>2
<1>8. wrong = {}
  <2> SUFFICES ASSUME wrong # {} PROVE FALSE
    OBVIOUS
  <2>1. PICK n \in wrong : \A m \in wrong : n <= m
    <3>1. wrong \in SUBSET Nat
      OBVIOUS
    <3> HIDE DEF wrong
    <3> QED BY <3>1, LeastMember
  <2> HIDE DEF sound
  <2>2. n \in 0..N /\ ~sound(done[n])
    BY <2>1
  <2>3. n # 0 => sound(done[n - 1])
    <3> SUFFICES ASSUME n # 0 PROVE sound(done[n - 1])
      OBVIOUS
    <3>1. n - 1 \in Nat /\ n - 1 <= N /\ n - 1 \notin wrong
      BY <2>1, <2>2
    <3> QED BY <3>1
  <2>4. sound(next(done[n - 1], n))
    BY <1>7, <2>2, <2>3
  <2>5. sound(done[n])
    BY <1>5, <2>2, <2>4
  <2> QED BY <2>2, <2>5
<1>9. sound(done[N])
  <2> HIDE DEF sound, N
  <2> QED BY <1>8 DEF N
<1> QED BY <1>6, <1>9

-----------------------------------------------------------------------------
(* The answers are of the printings, the laws held and what took effect.   *)

(* What the matcher answers, of the state it reads.                        *)
AmendmentsOf(laws) == UNION {{l} \X DOMAIN laws[l] : l \in DOMAIN laws}

RenumberedBy(laws, eff, act, holding, w, i) ==
  {a \in AmendmentsOf(laws) :
     /\ a[1] \in holding /\ eff[a] = w
     /\ \E e \in Range(laws[a[1]][a[2]].does) : e.what = "renumber"
     /\ i \in act[a]}

MovesFrom(laws, eff, act, docs, holding, w) ==
  LET old == docs[w]
      new == docs[w + 1]
      by(i) == RenumberedBy(laws, eff, act, holding, w, i)
      moved == {i \in (DOMAIN old \cap DOMAIN new) \ {Root} :
                  Number(old, i) # Number(new, i) /\ by(i) # {}}
  IN {[from |-> old[i].path, to |-> new[i].path,
       by |-> {laws[a[1]][a[2]].states.id : a \in by(i)}] : i \in moved}

ViewFrom(docs, w, moves) ==
  [window |-> w, from |-> w, to |-> w + 1, earlier |-> docs[w],
   later |-> docs[w + 1], moves |-> moves,
   changes |-> ChangesOf(docs[w], docs[w + 1], moves)]

OutcomesFrom(laws, eff, act, docs, holding, amendments) ==
  Matched({ViewFrom(docs, w, MovesFrom(laws, eff, act, docs, holding, w)) :
             w \in 1..Len(docs) - 1}, amendments)

(* The outcomes are those of the state.                                    *)
LEMMA OutcomesAre ==
  OutcomesOf(printings, held, stated)
    = OutcomesFrom(book, effect, acted, printings, held, stated)
BY Zenon DEF OutcomesOf, Views, View, Moves, OutcomesFrom, ViewFrom, MovesFrom, RenumberedBy,
             AmendmentsOf, Amendment, Laws, States

(* And after a step those of the next.                                     *)
LEMMA OutcomesWillBe ==
  OutcomesOf(printings, held, stated)'
    = OutcomesFrom(book', effect', acted', printings', held', stated')
BY Zenon DEF OutcomesOf, Views, View, Moves, OutcomesFrom, ViewFrom, MovesFrom, RenumberedBy,
             AmendmentsOf, Amendment, Laws, States

(* And of whatever printings and laws are asked about.                     *)
LEMMA OutcomesOfAny ==
  \A docs, laws, amendments :
    OutcomesOf(docs, laws, amendments)
      = OutcomesFrom(book, effect, acted, docs, laws, amendments)
BY Zenon DEF OutcomesOf, Views, View, Moves, OutcomesFrom, ViewFrom, MovesFrom, RenumberedBy,
             AmendmentsOf, Amendment, Laws, States

(* What took effect after the last printing is not in what it answers.     *)
LEMMA OutcomesStand ==
  ASSUME NEW laws, NEW eff, NEW act, NEW eff2, NEW act2, NEW docs, NEW holding, NEW amendments,
         \A a \in AmendmentsOf(laws) : \A w \in 1..Len(docs) - 1 :
           (eff[a] = w <=> eff2[a] = w) /\ (eff[a] = w => act2[a] = act[a])
  PROVE  OutcomesFrom(laws, eff, act, docs, holding, amendments)
           = OutcomesFrom(laws, eff2, act2, docs, holding, amendments)
<1> DEFINE windows == 1..Len(docs) - 1
           moves(e, x, w) == MovesFrom(laws, e, x, docs, holding, w)
<1>1. ASSUME NEW w \in windows PROVE moves(eff, act, w) = moves(eff2, act2, w)
  <2> DEFINE old == docs[w]
             new == docs[w + 1]
             by(e, x, i) == RenumberedBy(laws, e, x, holding, w, i)
             moved(e, x) == {i \in (DOMAIN old \cap DOMAIN new) \ {Root} :
                               Number(old, i) # Number(new, i) /\ by(e, x, i) # {}}
             made(e, x, i) == [from |-> old[i].path, to |-> new[i].path,
                               by |-> {laws[a[1]][a[2]].states.id : a \in by(e, x, i)}]
  <2>1. ASSUME NEW i PROVE by(eff, act, i) = by(eff2, act2, i)
    <3> HIDE DEF old, new
    <3> QED BY DEF RenumberedBy
  <2>2. /\ moves(eff, act, w) = {made(eff, act, i) : i \in moved(eff, act)}
        /\ moves(eff2, act2, w) = {made(eff2, act2, i) : i \in moved(eff2, act2)}
    BY Zenon DEF MovesFrom
  <2> HIDE DEF by, moves, old, new
  <2>3. moved(eff, act) = moved(eff2, act2)
    BY <2>1
  <2>4. ASSUME NEW i PROVE made(eff, act, i) = made(eff2, act2, i)
    BY <2>1
  <2> HIDE DEF made, moved
  <2>5. {made(eff, act, i) : i \in moved(eff, act)}
          = {made(eff2, act2, i) : i \in moved(eff2, act2)}
    BY <2>3, <2>4
  <2> QED BY <2>2, <2>5
<1> DEFINE views(e, x) == {ViewFrom(docs, w, moves(e, x, w)) : w \in windows}
<1>2. /\ OutcomesFrom(laws, eff, act, docs, holding, amendments)
           = Matched(views(eff, act), amendments)
      /\ OutcomesFrom(laws, eff2, act2, docs, holding, amendments)
           = Matched(views(eff2, act2), amendments)
  BY Zenon DEF OutcomesFrom
<1> HIDE DEF moves, windows
<1>3. views(eff, act) = views(eff2, act2)
  BY <1>1
<1> HIDE DEF views
<1> QED BY <1>2, <1>3

-----------------------------------------------------------------------------
(* The printings are trees, what is stated names paths, and the answers    *)
(* are of the printings and the laws held, or none are given.              *)
PrintingsAreDocs ==
  /\ IsList(printings) /\ \A w \in DOMAIN printings : IsDoc(printings[w])
  /\ IsDoc(draft)

AnswersAreOfThese ==
  outcomes = {} \/ outcomes = OutcomesOf(printings, held, stated)

MatchInv ==
  /\ book \in Books /\ DOMAIN effect = Amendment /\ DOMAIN acted = Amendment
  /\ PrintingsAreDocs /\ IsStatement(stated) /\ AnswersAreOfThese

(* Nothing stated yet is a list.                                           *)
LEMMA EmptyList == IsList(<<>>) /\ DOMAIN <<>> = {}
BY DEF IsList

(* The invariant holds of the first printing.                              *)
LEMMA MatchInvInit == Init => MatchInv
<1> SUFFICES ASSUME Init PROVE MatchInv
  OBVIOUS
<1>1. IsDoc(FirstDoc)
  <2>1. ASSUME NEW i \in DOMAIN FirstDoc
        PROVE  {"path", "above", "words"} \subseteq DOMAIN FirstDoc[i]
    <3>1. FirstDoc[i] \in Provision
      BY DocAssumption
    <3> QED BY <3>1 DEF Provision
  <2> QED BY <2>1, DocAssumption DEF IsDoc
<1>2. IsList(<<FirstDoc>>) /\ \A w \in DOMAIN <<FirstDoc>> : <<FirstDoc>>[w] = FirstDoc
  <2>1. DOMAIN <<FirstDoc>> = 1..1 /\ <<FirstDoc>> = [w \in 1..1 |-> <<FirstDoc>>[w]]
    OBVIOUS
  <2>2. IsList(<<FirstDoc>>)
    BY <2>1, ListOf
  <2>3. \A w \in 1..1 : <<FirstDoc>>[w] = FirstDoc
    OBVIOUS
  <2> QED BY <2>1, <2>2, <2>3
<1>3. PrintingsAreDocs
  BY <1>1, <1>2 DEF Init, PrintingsAreDocs
<1>4. IsStatement(stated)
  BY EmptyList DEF Init, IsStatement
<1>5. book \in Books /\ DOMAIN effect = Amendment /\ DOMAIN acted = Amendment
  BY DEF Init
<1>6. AnswersAreOfThese
  BY DEF Init, AnswersAreOfThese
<1> QED BY <1>3, <1>4, <1>5, <1>6 DEF MatchInv

(* Nothing the matcher reads changed, or nothing but what took effect      *)
(* after the last printing.                                                *)
LEMMA AnswersStand ==
  ASSUME AnswersAreOfThese, UNCHANGED <<book, printings, held, stated, outcomes>>,
         \A a \in Amendment : \A w \in 1..Len(printings) - 1 :
           (effect[a] = w <=> effect'[a] = w) /\ (effect[a] = w => acted'[a] = acted[a])
  PROVE  AnswersAreOfThese'
<1>1. AmendmentsOf(book) = Amendment
  BY Zenon DEF AmendmentsOf, Amendment, Laws
<1>2. OutcomesFrom(book, effect, acted, printings, held, stated)
        = OutcomesFrom(book, effect', acted', printings, held, stated)
  BY <1>1, OutcomesStand
<1>3. OutcomesOf(printings, held, stated)' = OutcomesOf(printings, held, stated)
  BY <1>2, OutcomesAre, OutcomesWillBe
<1> QED BY <1>3 DEF AnswersAreOfThese

(* The matcher was asked again.                                            *)
LEMMA AnswersAnew ==
  ASSUME UNCHANGED <<book, effect, acted>>, outcomes' = OutcomesOf(printings', held', stated')
  PROVE  AnswersAreOfThese'
<1>1. OutcomesOf(printings', held', stated')
        = OutcomesFrom(book, effect, acted, printings', held', stated')
  BY OutcomesOfAny
<1>2. outcomes' = OutcomesOf(printings, held, stated)'
  BY <1>1, OutcomesWillBe
<1> QED BY <1>2 DEF AnswersAreOfThese

(* The amendments are the book's.                                          *)
LEMMA SameBook == ASSUME book' = book PROVE Amendment' = Amendment
BY DEF Amendment, Laws

(* A list with one more is a list.                                         *)
LEMMA ListGrows ==
  ASSUME NEW s, IsList(s), NEW x
  PROVE  /\ IsList(Append(s, x))
         /\ \A n \in DOMAIN Append(s, x) :
              Append(s, x)[n] = x \/ (n \in DOMAIN s /\ Append(s, x)[n] = s[n])
<1> DEFINE S == Range(s) \cup {x}
           t == Append(s, x)
<1>1. s \in Seq(S) /\ x \in S
  <2>1. s \in Seq(Range(s)) /\ Range(s) \subseteq S /\ x \in S
    BY DEF IsList
  <2> HIDE DEF S
  <2> QED BY <2>1
<1> HIDE DEF S
<1>2. /\ t \in Seq(S) /\ Len(t) = Len(s) + 1 /\ t[Len(s) + 1] = x
      /\ \A n \in 1..Len(s) : t[n] = s[n]
      /\ Len(s) \in Nat /\ DOMAIN s = 1..Len(s) /\ DOMAIN t = 1..Len(t)
  BY <1>1
<1> HIDE DEF t
<1>3. IsList(t)
  <2>1. t = [n \in 1..Len(t) |-> t[n]] /\ Len(t) \in Nat
    BY <1>2
  <2> QED BY <1>2, <2>1, ListOf
<1>4. ASSUME NEW n \in DOMAIN t PROVE t[n] = x \/ (n \in DOMAIN s /\ t[n] = s[n])
  BY <1>2
<1> QED BY <1>3, <1>4 DEF t

(* Each step keeps it: an edit leaves the draft a tree, a bill added       *)
(* states paths, and a printing or a bill is answered anew.                *)
LEMMA MatchInvStep == MatchInv /\ [Next]_vars => MatchInv'
<1> SUFFICES ASSUME MatchInv, [Next]_vars PROVE MatchInv'
  OBVIOUS
<1>1. /\ book \in Books /\ DOMAIN effect = Amendment /\ DOMAIN acted = Amendment
      /\ PrintingsAreDocs /\ IsStatement(stated) /\ AnswersAreOfThese
  BY DEF MatchInv
<1>2. ASSUME UNCHANGED <<book, printings, draft, held, effect, acted, stated, outcomes>>
      PROVE  MatchInv'
  <2>1. AnswersAreOfThese'
    BY <1>1, <1>2, AnswersStand
  <2> QED BY <1>1, <1>2, <2>1, SameBook DEF MatchInv, PrintingsAreDocs, IsStatement
<1>3. CASE UNCHANGED vars
  BY <1>2, <1>3 DEF vars
<1>4. ASSUME NEW l \in Laws, Enact(l) PROVE MatchInv'
  BY <1>2, <1>4 DEF Enact
<1>5. ASSUME NEW l \in Laws, AddBill(l) PROVE MatchInv'
  <2>1. /\ UNCHANGED <<book, printings, draft, enacted, effect, acted>>
        /\ held' = held \cup {l} /\ stated' = StatedBy(held \cup {l})
        /\ outcomes' = OutcomesOf(printings, held \cup {l}, StatedBy(held \cup {l}))
    BY <1>5 DEF AddBill
  <2>2. IsStatement(stated)'
    BY <1>1, <2>1, StatedByKeeps DEF IsStatement
  <2>3. AnswersAreOfThese'
    BY <2>1, AnswersAnew
  <2> QED BY <1>1, <2>1, <2>2, <2>3, SameBook DEF MatchInv, PrintingsAreDocs
<1>6. ASSUME NEW a \in Amendment, TakeEffect(a) PROVE MatchInv'
  <2> DEFINE edits == book[a[1]][a[2]].does
  <2>1. PICK result \in AllDone(draft, edits) :
          draft' = result.doc /\ acted' = [acted EXCEPT ![a] = result.on]
    BY <1>6 DEF TakeEffect
  <2>2. /\ effect[a] = 0 /\ effect' = [effect EXCEPT ![a] = Len(printings)]
        /\ UNCHANGED <<book, printings, enacted, held, stated, outcomes>>
    BY <1>6 DEF TakeEffect, Last1
  <2>3. Len(edits) \in Nat /\ \A k \in 1..Len(edits) : IsEdit(edits[k])
    <3>1. a[1] \in DOMAIN book /\ a[2] \in DOMAIN book[a[1]]
      <4>1. PICK l \in DOMAIN book : a \in {l} \X DOMAIN book[l]
        BY DEF Amendment, Laws
      <4> QED BY <4>1
    <3>2. IsLaw(a[1], book[a[1]])
      BY <1>1, <3>1, BooksAssumption
    <3> QED BY <3>1, <3>2 DEF IsLaw
  <2>4. IsDoc(draft')
    <3> HIDE DEF edits
    <3>1. IsDoc(result.doc)
      BY <1>1, <2>3, AllDoneKeeps DEF PrintingsAreDocs
    <3> QED BY <2>1, <3>1
  <2>5. ASSUME NEW b \in Amendment, NEW w \in 1..Len(printings) - 1
        PROVE  (effect[b] = w <=> effect'[b] = w) /\ (effect[b] = w => acted'[b] = acted[b])
    <3>1. Len(printings) \in Nat
      BY <1>1 DEF PrintingsAreDocs, IsList
    <3>2. CASE b = a
      <4>1. effect'[b] = Len(printings)
        BY <1>1, <2>2, <3>2
      <4> QED BY <2>2, <3>1, <3>2, <4>1
    <3>3. CASE b # a
      BY <1>1, <2>1, <2>2, <3>3
    <3> QED BY <3>2, <3>3
  <2>6. AnswersAreOfThese'
    BY <1>1, <2>2, <2>5, AnswersStand
  <2>7. DOMAIN effect' = DOMAIN effect /\ DOMAIN acted' = DOMAIN acted
    BY <2>1, <2>2
  <2> QED BY <1>1, <2>2, <2>4, <2>6, <2>7, SameBook DEF MatchInv, PrintingsAreDocs, IsStatement
<1>7. ASSUME Publish PROVE MatchInv'
  <2>1. /\ printings' = Append(printings, draft)
        /\ UNCHANGED <<book, draft, enacted, held, effect, acted, stated>>
        /\ outcomes' = OutcomesOf(Append(printings, draft), held, stated)
    BY <1>7 DEF Publish
  <2>2. /\ IsList(Append(printings, draft))
        /\ \A w \in DOMAIN Append(printings, draft) : IsDoc(Append(printings, draft)[w])
    BY <1>1, ListGrows DEF PrintingsAreDocs
  <2>3. PrintingsAreDocs'
    BY <1>1, <2>1, <2>2 DEF PrintingsAreDocs
  <2>4. AnswersAreOfThese'
    BY <2>1, AnswersAnew
  <2> QED BY <1>1, <2>1, <2>3, <2>4, SameBook DEF MatchInv, IsStatement
<1> QED BY <1>3, <1>4, <1>5, <1>6, <1>7 DEF Next

(* What the dataset makes of its printings, for the lemmas above.          *)
LEMMA AnswersAreSound ==
  ASSUME MatchInv
  PROVE  /\ SoundViews(Views(printings, held)) /\ IsStatement(stated)
         /\ \A p \in Links : /\ p \in Matched(Views(printings, held), stated)
                             /\ p.outcome = "linked"
         /\ \A w : SectionsStay(w) =>
              \A v \in Views(printings, held) : v.window = w => Stays(v)
<1> DEFINE views == Views(printings, held)
<1>1. \A p \in Links : p \in Matched(views, stated) /\ p.outcome = "linked"
  BY DEF MatchInv, AnswersAreOfThese, Links, OutcomesOf
<1>2. \A v \in views : \E w \in 1..Len(printings) - 1 : v = View(printings, held, w)
  BY DEF Views
<1>3. ASSUME NEW w
      PROVE  /\ View(printings, held, w).window = w
             /\ View(printings, held, w).moves = Moves(printings, held, w)
  <2>1. View(printings, held, w)
          = ViewFrom(printings, w, Moves(printings, held, w))
    BY Zenon DEF View, ViewFrom
  <2> QED BY <2>1 DEF ViewFrom
<1>4. SoundViews(views)
  <2>1. ASSUME NEW w \in 1..Len(printings) - 1 PROVE SoundView(View(printings, held, w))
    <3>1. w \in DOMAIN printings /\ w + 1 \in DOMAIN printings
      BY DEF MatchInv, PrintingsAreDocs, IsList
    <3>2. Tree(printings[w]) /\ Tree(printings[w + 1])
      BY <3>1 DEF MatchInv, PrintingsAreDocs, IsDoc
    <3> QED BY <3>2, ViewsAreSound
  <2> HIDE DEF views
  <2> QED BY <1>2, <1>3, <2>1 DEF SoundViews
<1>5. ASSUME NEW w, SectionsStay(w) PROVE \A v \in views : v.window = w => Stays(v)
  <2> HIDE DEF views
  <2> QED BY <1>2, <1>3, <1>5 DEF SectionsStay, Stays
<1>6. IsStatement(stated)
  BY DEF MatchInv
<1> HIDE DEF views
<1> QED BY <1>1, <1>4, <1>5, <1>6 DEF views

(* Answers of trees have one cause.                                        *)
LEMMA AnswersHaveOneCause == MatchInv => OneCause
<1> SUFFICES ASSUME MatchInv,
                    NEW p \in Links, NEW q \in Links, p.who # q.who, p.window = q.window,
                    SectionsStay(p.window), NEW c \in p.changes \cap q.changes
             PROVE  EditedInPlace(c) \/ HoldsSections(c, p, q)
  BY DEF OneCause
<1> QED BY AnswersAreSound, MatchedHaveOneCause

(* A change that was not edited in place is linked to one amendment, where *)
(* sections stay and but for what was added around them, of any laws and   *)
(* printings.                                                              *)
THEOREM OneCauseAlways == Spec => []OneCause
<1>1. Spec => []MatchInv
  BY MatchInvInit, MatchInvStep, PTL DEF Spec
<1> QED BY <1>1, AnswersHaveOneCause, PTL

-----------------------------------------------------------------------------
(* Links stand.                                                            *)

(* An address is read at one place of a window.                            *)
LEMMA PlacedOnce ==
  ASSUME NEW view, NEW said, NEW n,
         NEW p \in PlacedIn(view, said, n), NEW q \in PlacedIn(view, said, n)
  PROVE  p = q
<1> DEFINE a == said[n]
           named(at) == IF a.asMoved THEN at.under
                        ELSE ThroughLaterRenumberings(at.under, view.moves, said, n)
           place(at) == PlaceAt(view, a, n, at.section,
                                MovedByAnotherLaw(view, at.section, named(at), a.evidence))
<1>1. ASSUME NEW doc, NEW x \in Addressed(doc, a), NEW y \in Addressed(doc, a) PROVE x = y
  <2> DEFINE section == TheOnly(Sections(doc, a.section))
             under == WalkDown(doc, section, a.container)
             one == [section |-> doc[section].path, under |-> doc[under].path]
  <2>1. Addressed(doc, a) = IF under = 0 THEN {} ELSE {one}
    BY Zenon DEF Addressed
  <2> HIDE DEF one, under
  <2> QED BY <1>1, <2>1
<1>2. AddressPath(view, a) = Addressed(view.later, a)
        \/ AddressPath(view, a) = Addressed(view.earlier, a)
  BY DEF AddressPath
<1>3. PlacedIn(view, said, n) = {place(at) : at \in AddressPath(view, a)}
  BY Zenon DEF PlacedIn
<1> HIDE DEF place
<1>4. PICK at \in AddressPath(view, a), other \in AddressPath(view, a) :
        p = place(at) /\ q = place(other)
  BY <1>3
<1> QED BY <1>1, <1>2, <1>4

(* A place is of its window; what encloses it is whole, and goes further   *)
(* than its address.                                                       *)
LEMMA PlaceIs ==
  ASSUME NEW view, NEW said, NEW n, NEW p \in PlacedIn(view, said, n)
  PROVE  /\ p = [who |-> n, window |-> view.window, section |-> p.section,
                 address |-> p.address, candidates |-> p.candidates,
                 enclosing |-> p.enclosing]
         /\ \A c \in p.enclosing : /\ c \in view.changes /\ p.candidates = {}
                                   /\ IsStrictPrefix(c.path, p.address)
<1>1. \E section, under : p = PlaceAt(view, said[n], n, section, under)
  BY Zenon DEF PlacedIn
<1>2. PICK section, under : p = PlaceAt(view, said[n], n, section, under)
  BY <1>1
<1> DEFINE candidates == {c \in view.changes : /\ IsAtOrBelow(c.path, under)
                                               /\ said[n].headingAlone => c.path = under}
           enclosing == {c \in view.changes :
                           candidates = {} /\ c.whole # "no" /\ IsAtOrBelow(under, c.path)}
<1>3. p = [who |-> n, window |-> view.window, section |-> section,
           address |-> under, candidates |-> candidates, enclosing |-> enclosing]
  BY <1>2, Zenon DEF PlaceAt
<1>4. ASSUME NEW c \in enclosing
      PROVE  c \in view.changes /\ candidates = {} /\ IsStrictPrefix(c.path, under)
  <2>1. c \in view.changes /\ candidates = {} /\ IsPrefix(c.path, under)
    BY DEF IsAtOrBelow
  <2>2. CASE c.path = under
    <3>1. c \in candidates
      BY <2>1, <2>2 DEF IsAtOrBelow
    <3> QED BY <2>1, <3>1
  <2>3. CASE c.path # under
    BY <2>1, <2>3 DEF IsStrictPrefix
  <2> QED BY <2>2, <2>3
<1> HIDE DEF candidates, enclosing
<1> QED BY <1>3, <1>4

(* Views of windows, each of one.                                          *)
OnePerWindow(views) ==
  /\ \A v \in views : v.window \in Nat
  /\ \A u, v \in views : u.window = v.window => u = v

(* What is resolved is a place with changes or, where there is none, the   *)
(* oldest of those that something encloses, read inside it.                *)
InsideOf(views, said, n, own, p) ==
  /\ \A q \in own : q.candidates = {}
  /\ p \in Oldest({q \in own : q.enclosing # {}})
  /\ OnlyInserts(said[n]) /\ \A c \in p.enclosing : c.whole = "added"

ViewOf(views, p) == CHOOSE v \in views : v.window = p.window

(* It is the oldest place with changes, or one read inside an addition.    *)
LEMMA ResolvedIs ==
  ASSUME NEW views, NEW said, NEW n, NEW own, NEW r
  PROVE  r \in ResolvedIn(views, said, n, own)
           <=> \/ r.candidates # {} /\ r \in own
                  /\ \A q \in own : q.candidates # {} => r.window <= q.window
               \/ \E p \in own : /\ InsideOf(views, said, n, own, p)
                                 /\ r = AddedInside(ViewOf(views, p), said[n], p)
<1> DEFINE with == {p \in own : p.candidates # {}}
           enclosed == Oldest({p \in own : p.enclosing # {}})
           added(p) == \A c \in p.enclosing : c.whole = "added"
           inside(p) == AddedInside(ViewOf(views, p), said[n], p)
           all == {inside(p) : p \in {p \in enclosed : OnlyInserts(said[n]) /\ added(p)}}
<1>1. ResolvedIn(views, said, n, own) = IF with # {} THEN Oldest(with) ELSE all
  BY Zenon DEF ResolvedIn, ViewOf
<1>2. enclosed \subseteq own
  BY DEF Oldest
<1>3. r \in all <=> \E p \in own : /\ p \in enclosed /\ OnlyInserts(said[n]) /\ added(p)
                                   /\ r = inside(p)
  <2> HIDE DEF enclosed, added, inside
  <2> QED BY <1>2
<1>4. r \in Oldest(with) <=> /\ r.candidates # {} /\ r \in own
                             /\ \A q \in own : q.candidates # {} => r.window <= q.window
  BY DEF Oldest
<1>5. with = {} <=> \A q \in own : q.candidates = {}
  OBVIOUS
<1>6. \A p \in own : InsideOf(views, said, n, own, p)
                       <=> with = {} /\ p \in enclosed /\ OnlyInserts(said[n]) /\ added(p)
  <2> HIDE DEF with
  <2> QED BY <1>5 DEF InsideOf
<1>7. with = {} => Oldest(with) = {}
  BY DEF Oldest
<1>8. r \in Oldest(with) => with # {}
  BY DEF Oldest
<1> HIDE DEF with, enclosed, added, inside, all
<1>9. CASE with # {}
  BY <1>1, <1>4, <1>6, <1>9
<1>10. CASE with = {}
  BY <1>1, <1>3, <1>4, <1>6, <1>7, <1>10 DEF inside
<1> QED BY <1>9, <1>10

(* The places of an amendment are the addresses it is read at in the       *)
(* windows that can hold it.                                               *)
LEMMA PlacesOf ==
  ASSUME NEW views, NEW said, NEW n \in DOMAIN said, NEW p
  PROVE  p \in Of(AllPlaces(views, said), n)
           <=> \E v \in LookedFor(views, said, n) : p \in PlacedIn(v, said, n)
<1> DEFINE at(m) == UNION {PlacedIn(v, said, m) : v \in LookedFor(views, said, m)}
<1>1. AllPlaces(views, said) = UNION {at(m) : m \in DOMAIN said}
  BY Zenon DEF AllPlaces
<1>2. ASSUME NEW m PROVE p \in at(m) <=> \E v \in LookedFor(views, said, m) : p \in PlacedIn(v, said, m)
  OBVIOUS
<1>3. ASSUME NEW m, p \in at(m) PROVE p.who = m
  <2>1. PICK v \in LookedFor(views, said, m) : p \in PlacedIn(v, said, m)
    BY <1>2, <1>3
  <2>2. p = [who |-> m, window |-> v.window, section |-> p.section,
             address |-> p.address, candidates |-> p.candidates, enclosing |-> p.enclosing]
    BY <2>1, PlaceIs
  <2> QED BY <2>2
<1> HIDE DEF at
<1>4. p \in AllPlaces(views, said) <=> \E m \in DOMAIN said : p \in at(m)
  BY <1>1
<1> QED BY <1>2, <1>3, <1>4 DEF Of

(* A place is what is read in its window, and the only one there.          *)
LEMMA PlacesAre ==
  ASSUME NEW views, OnePerWindow(views), NEW said, NEW n \in DOMAIN said,
         NEW p \in Of(AllPlaces(views, said), n)
  PROVE  /\ p = [who |-> n, window |-> p.window, section |-> p.section,
                 address |-> p.address, candidates |-> p.candidates,
                 enclosing |-> p.enclosing]
         /\ p.window \in Nat
         /\ \E v \in views : /\ v.window = p.window
                             /\ \A c \in p.enclosing : /\ c \in v.changes
                                                       /\ IsStrictPrefix(c.path, p.address)
         /\ p.enclosing # {} => p.candidates = {}
         /\ \A q \in Of(AllPlaces(views, said), n) : q.window = p.window => q = p
<1> DEFINE own == Of(AllPlaces(views, said), n)
<1>1. ASSUME NEW q \in own
      PROVE  \E v \in views : q \in PlacedIn(v, said, n) /\ q.window = v.window
  <2>1. PICK v \in LookedFor(views, said, n) : q \in PlacedIn(v, said, n)
    BY <1>1, PlacesOf
  <2>2. v \in views
    BY <2>1 DEF LookedFor
  <2>3. q = [who |-> n, window |-> v.window, section |-> q.section,
             address |-> q.address, candidates |-> q.candidates, enclosing |-> q.enclosing]
    BY <2>1, PlaceIs
  <2>4. q.window = v.window
    BY <2>3
  <2> QED BY <2>1, <2>2, <2>4
<1> HIDE DEF own
<1>2. PICK v \in views : p \in PlacedIn(v, said, n) /\ p.window = v.window
  BY <1>1 DEF own
<1>3. /\ p = [who |-> n, window |-> v.window, section |-> p.section,
              address |-> p.address, candidates |-> p.candidates,
              enclosing |-> p.enclosing]
      /\ \A c \in p.enclosing : /\ c \in v.changes /\ p.candidates = {}
                                /\ IsStrictPrefix(c.path, p.address)
  BY <1>2, PlaceIs
<1>4. ASSUME NEW q \in own, q.window = p.window PROVE q = p
  <2>1. PICK u \in views : q \in PlacedIn(u, said, n) /\ q.window = u.window
    BY <1>1
  <2>2. u = v
    BY <1>2, <1>4, <2>1 DEF OnePerWindow
  <2> QED BY <1>2, <2>1, <2>2, PlacedOnce
<1>5. p.window \in Nat
  BY <1>2 DEF OnePerWindow
<1> QED BY <1>2, <1>3, <1>4, <1>5 DEF own

(* What is resolved of an amendment is of a place of its own.              *)
LEMMA ResolvedAt ==
  ASSUME NEW views, OnePerWindow(views), NEW said,
         NEW r \in AllResolved(views, said, AllPlaces(views, said))
  PROVE  /\ r.who \in DOMAIN said
         /\ r \in ResolvedIn(views, said, r.who, Of(AllPlaces(views, said), r.who))
         /\ \E p \in Of(AllPlaces(views, said), r.who) :
              r.window = p.window /\ r.section = p.section /\ r.address = p.address
<1> DEFINE own(n) == Of(AllPlaces(views, said), n)
<1>1. PICK n \in DOMAIN said : r \in ResolvedIn(views, said, n, own(n))
  BY DEF AllResolved
<1>2. \/ r \in own(n)
      \/ \E p \in own(n) : r = AddedInside(ViewOf(views, p), said[n], p)
  <2> HIDE DEF own
  <2> QED BY <1>1, ResolvedIs
<1>3. ASSUME NEW p \in own(n), NEW view, r = AddedInside(view, said[n], p)
      PROVE  r.who = n /\ r.window = p.window /\ r.section = p.section /\ r.address = p.address
  <2>1. \E made : r = [p EXCEPT !.candidates = made]
    BY <1>3, Zenon DEF AddedInside
  <2>2. p = [who |-> n, window |-> p.window, section |-> p.section,
             address |-> p.address, candidates |-> p.candidates, enclosing |-> p.enclosing]
    BY PlacesAre
  <2> QED BY <2>1, <2>2
<1>4. CASE r \in own(n)
  <2>1. r.who = n
    BY <1>4 DEF Of
  <2> HIDE DEF own
  <2> QED BY <1>1, <1>4, <2>1 DEF own
<1>5. CASE \E p \in own(n) : r = AddedInside(ViewOf(views, p), said[n], p)
  <2>1. PICK p \in own(n) : r = AddedInside(ViewOf(views, p), said[n], p)
    BY <1>5
  <2>2. r.who = n /\ r.window = p.window /\ r.section = p.section /\ r.address = p.address
    BY <1>3, <2>1
  <2> HIDE DEF own
  <2> QED BY <1>1, <2>1, <2>2 DEF own
<1> QED BY <1>2, <1>4, <1>5

(* It is resolved in one window at most.                                   *)
LEMMA ResolvedOnce ==
  ASSUME NEW views, OnePerWindow(views), NEW said,
         NEW r \in AllResolved(views, said, AllPlaces(views, said)),
         NEW q \in AllResolved(views, said, AllPlaces(views, said)), r.who = q.who
  PROVE  r = q
<1> DEFINE n == r.who
           own == Of(AllPlaces(views, said), n)
<1>1. n \in DOMAIN said
  BY ResolvedAt
<1> HIDE DEF n
<1>2. r \in ResolvedIn(views, said, n, own) /\ q \in ResolvedIn(views, said, n, own)
  BY ResolvedAt DEF n
<1>3. ASSUME NEW x \in own, NEW y \in own, x.window <= y.window, y.window <= x.window
      PROVE  x = y
  <2>1. x.window \in Nat /\ y.window \in Nat
    BY <1>1, PlacesAre
  <2>2. x.window = y.window
    BY <1>3, <2>1
  <2> QED BY <1>1, <2>2, PlacesAre
<1> HIDE DEF own
<1>4. ASSUME NEW x \in own, NEW y \in own,
             InsideOf(views, said, n, own, x), InsideOf(views, said, n, own, y)
      PROVE  x = y
  BY <1>3, <1>4 DEF InsideOf, Oldest
<1>5. ASSUME NEW x, NEW y, InsideOf(views, said, n, own, y), x \in own, x.candidates # {}
      PROVE  FALSE
  BY <1>5 DEF InsideOf
<1>6. CASE r \in own /\ r.candidates # {} /\ \A x \in own : x.candidates # {} => r.window <= x.window
  <2>1. /\ q \in own /\ q.candidates # {}
        /\ \A x \in own : x.candidates # {} => q.window <= x.window
    BY <1>2, <1>5, <1>6, ResolvedIs
  <2> QED BY <1>3, <1>6, <2>1
<1>7. CASE \E p \in own : /\ InsideOf(views, said, n, own, p)
                          /\ r = AddedInside(ViewOf(views, p), said[n], p)
  <2>1. PICK p \in own : /\ InsideOf(views, said, n, own, p)
                         /\ r = AddedInside(ViewOf(views, p), said[n], p)
    BY <1>7
  <2>2. \E y \in own : /\ InsideOf(views, said, n, own, y)
                       /\ q = AddedInside(ViewOf(views, y), said[n], y)
    BY <1>2, <1>5, <2>1, ResolvedIs
  <2> QED BY <1>4, <2>1, <2>2
<1> QED BY <1>2, <1>6, <1>7, ResolvedIs

(* What is resolved is a member of its group.                              *)
LEMMA ResolvedIsMember ==
  ASSUME NEW views, OnePerWindow(views), NEW said, IsStatement(said),
         NEW r \in AllResolved(views, said, AllPlaces(views, said))
  PROVE  \E m : LET members == Members(GroupOf(AllResolved(views, said, AllPlaces(views, said)), r), said)
                IN m \in DOMAIN members /\ members[m] = r
<1> DEFINE resolved == AllResolved(views, said, AllPlaces(views, said))
           group == GroupOf(resolved, r)
           of(n) == IF Of(group, n) = {} THEN <<>> ELSE <<CHOOSE p \in Of(group, n) : TRUE>>
           seqs == [n \in DOMAIN said |-> of(n)]
           members == Members(group, said)
<1>1. Len(said) \in Nat /\ DOMAIN said = 1..Len(said)
  BY DEF IsStatement, IsList
<1>2. r.who \in DOMAIN said
  BY ResolvedAt
<1>3. r \in Of(group, r.who) /\ \A q \in Of(group, r.who) : q = r
  <2>1. group \subseteq resolved
    BY DEF GroupOf
  <2>2. r \in group
    BY DEF GroupOf
  <2>3. \A q \in resolved : q.who = r.who => q = r
    BY ResolvedOnce
  <2> HIDE DEF group, resolved
  <2> QED BY <2>1, <2>2, <2>3 DEF Of
<1> HIDE DEF group
<1>4. of(r.who) = <<r>>
  BY <1>3
<1>5. ASSUME NEW n \in DOMAIN said PROVE of(n) \in Seq(group)
  <2>1. CASE Of(group, n) = {}
    BY <2>1
  <2>2. CASE Of(group, n) # {}
    <3>1. (CHOOSE p \in Of(group, n) : TRUE) \in group
      BY <2>2 DEF Of
    <3> QED BY <2>2, <3>1
  <2> QED BY <2>1, <2>2
<1> HIDE DEF of
<1>6. seqs \in Seq(Seq(group)) /\ DOMAIN seqs = DOMAIN said
  BY <1>1, <1>5
<1>7. members = FlattenSeq(seqs)
  BY Zenon DEF Members, of
<1>8. seqs[r.who] = <<r>>
  BY <1>2, <1>4
<1> HIDE DEF seqs
<1>9. members \in Seq(group) /\ Range(members) = UNION {Range(seqs[i]) : i \in DOMAIN seqs}
  BY <1>6, <1>7, FlattenSeqIs
<1>10. r \in Range(seqs[r.who])
  BY <1>8 DEF Range
<1>11. r \in Range(members)
  BY <1>2, <1>6, <1>9, <1>10
<1> HIDE DEF members
<1>12. \E m \in DOMAIN members : members[m] = r
  BY <1>11 DEF Range
<1> QED BY <1>12 DEF members, group

(* Each member of a group has an outcome: a link to what it was given, if  *)
(* anything.                                                               *)
IsOutcomeOf(o, group, said, m) ==
  LET members == Members(group, said)
      caused == CausedBy(m, Resolved(Contenders(group, said)))
  IN /\ o.who = members[m].who /\ o.window = members[m].window
     /\ o.address = members[m].address
     /\ caused # {} => o.outcome = "linked" /\ o.changes = caused

(* Whatever it was given.                                                  *)
LEMMA MemberHasOutcome ==
  ASSUME NEW views, NEW said, NEW places, NEW resolved, NEW r \in resolved,
         NEW m \in DOMAIN Members(GroupOf(resolved, r), said)
  PROVE  \E o \in AllOutcomes(views, said, places, resolved) :
           IsOutcomeOf(o, GroupOf(resolved, r), said, m)
<1> DEFINE of(x) == {q \in resolved : q.window = x.window /\ q.section = x.section}
           groups == {of(x) : x \in resolved}
           left == DOMAIN said \ {x.who : x \in resolved}
           group == GroupOf(resolved, r)
           members == Members(group, said)
           contenders == Contenders(group, said)
           cause == Resolved(contenders)
           later(x) == {q.window : q \in {q \in places :
                          q.who = x.who /\ q.candidates # {} /\ q.window > x.window}}
           linked(k) == Linked(members[k].who, members[k], CausedBy(k, cause), later(members[k]))
           stopped(k) == Residue(members[k].who, members[k].address, "resolve",
                                 WhyStopped(contenders, k, cause), FALSE,
                                 members[k].window, Paths(members[k].candidates))
           one(k) == IF CausedBy(k, cause) # {} THEN linked(k) ELSE stopped(k)
<1>1. GroupOutcomes(group, places, said) \subseteq AllOutcomes(views, said, places, resolved)
  <2> DEFINE A == {GroupOutcomes(x, places, said) : x \in groups}
             B == {Unplaced(views, said, n, Of(places, n)) : n \in left}
  <2>1. AllOutcomes(views, said, places, resolved) = (UNION A) \cup UNION B
    BY Zenon DEF AllOutcomes
  <2>2. group \in groups
    BY DEF GroupOf
  <2> HIDE DEF group, groups
  <2>3. GroupOutcomes(group, places, said) \in A
    BY <2>2
  <2> HIDE DEF A, B
  <2> QED BY <2>1, <2>3
<1> HIDE DEF group
<1>2. GroupOutcomes(group, places, said) = OutcomesBy(cause, members, contenders, places)
  BY Zenon DEF GroupOutcomes, Contenders
<1>3. m \in DOMAIN members
  BY DEF group
<1> HIDE DEF members, contenders, cause
<1>4. one(m) \in OutcomesBy(cause, members, contenders, places)
  <2>1. OutcomesBy(cause, members, contenders, places) = {one(k) : k \in DOMAIN members}
    BY Zenon DEF OutcomesBy
  <2> HIDE DEF one
  <2> QED BY <1>3, <2>1
<1> HIDE DEF later
<1>5. /\ one(m).who = members[m].who /\ one(m).window = members[m].window
      /\ one(m).address = members[m].address
      /\ CausedBy(m, cause) # {} => /\ one(m).outcome = "linked"
                                    /\ one(m).changes = CausedBy(m, cause)
  <2>1. CASE CausedBy(m, cause) # {}
    BY <2>1 DEF Linked
  <2>2. CASE CausedBy(m, cause) = {}
    BY <2>2 DEF Residue
  <2> QED BY <2>1, <2>2
<1> HIDE DEF one
<1>6. IsOutcomeOf(one(m), group, said, m)
  BY <1>5, Zenon DEF IsOutcomeOf, members, cause, contenders
<1>7. one(m) \in AllOutcomes(views, said, places, resolved)
  BY <1>1, <1>2, <1>4
<1> QED BY <1>6, <1>7 DEF group

(* One more view, of a window after the others, adds places in its window. *)
LEMMA PlacesGrow ==
  ASSUME NEW views, OnePerWindow(views), NEW new, new.window \in Nat,
         \A v \in views : v.window < new.window,
         NEW said, NEW n \in DOMAIN said
  PROVE  LET own == Of(AllPlaces(views, said), n)
             own2 == Of(AllPlaces(views \cup {new}, said), n)
         IN /\ OnePerWindow(views \cup {new}) /\ own \subseteq own2
            /\ \A p \in own : p.window < new.window
            /\ \A p \in own2 : p \in own \/ p.window = new.window
<1> DEFINE own == Of(AllPlaces(views, said), n)
           own2 == Of(AllPlaces(views \cup {new}, said), n)
<1>1. OnePerWindow(views \cup {new})
  <2>1. \A v \in views : v.window # new.window
    BY DEF OnePerWindow
  <2> QED BY <2>1 DEF OnePerWindow
<1>2. own \subseteq own2
  <2>1. LookedFor(views, said, n) \subseteq LookedFor(views \cup {new}, said, n)
    BY DEF LookedFor
  <2> HIDE DEF own, own2
  <2>2. ASSUME NEW p \in own PROVE p \in own2
    <3>1. \E v \in LookedFor(views, said, n) : p \in PlacedIn(v, said, n)
      BY PlacesOf DEF own
    <3>2. \E v \in LookedFor(views \cup {new}, said, n) : p \in PlacedIn(v, said, n)
      BY <2>1, <3>1
    <3> QED BY <3>2, PlacesOf DEF own2
  <2> QED BY <2>2
<1>3. ASSUME NEW p \in own PROVE p.window < new.window
  <2>1. PICK v \in views : v.window = p.window
    BY PlacesAre
  <2> QED BY <2>1
<1>4. ASSUME NEW p \in own2 PROVE p \in own \/ p.window = new.window
  <2>1. PICK v \in LookedFor(views \cup {new}, said, n) : p \in PlacedIn(v, said, n)
    BY PlacesOf
  <2>2. CASE v = new
    <3>1. p = [who |-> n, window |-> v.window, section |-> p.section,
               address |-> p.address, candidates |-> p.candidates, enclosing |-> p.enclosing]
      BY <2>1, PlaceIs
    <3>2. p.window = v.window
      BY <3>1
    <3> QED BY <2>2, <3>2
  <2>3. CASE v # new
    <3>1. v \in LookedFor(views, said, n)
      BY <2>1, <2>3 DEF LookedFor
    <3> QED BY <2>1, <3>1, PlacesOf
  <2> QED BY <2>2, <2>3
<1> HIDE DEF own, own2
<1> QED BY <1>1, <1>2, <1>3, <1>4 DEF own, own2

(* No amendment is read inside what a window added.                        *)
NoneInside(views, said, w) ==
  \A n \in DOMAIN said : LET own == Of(AllPlaces(views, said), n) IN
    \A p \in own : p.window = w => ~InsideOf(views, said, n, own, p)

(* A window that none is read inside resolves the same places when one     *)
(* more is published after it.                                             *)
LEMMA ResolvedStands ==
  ASSUME NEW views, OnePerWindow(views), NEW new, new.window \in Nat,
         \A v \in views : v.window < new.window,
         NEW said, NEW w, w # new.window, NoneInside(views, said, w),
         NEW r, r.window = w
  PROVE  r \in AllResolved(views, said, AllPlaces(views, said))
           <=> r \in AllResolved(views \cup {new}, said, AllPlaces(views \cup {new}, said))
<1> DEFINE all == views \cup {new}
           own(n) == Of(AllPlaces(views, said), n)
           own2(n) == Of(AllPlaces(all, said), n)
           standing(n, S) == r.candidates # {} /\ r \in S
                               /\ \A q \in S : q.candidates # {} => r.window <= q.window
<1>1. OnePerWindow(all) \/ DOMAIN said = {}
  BY PlacesGrow
<1> HIDE DEF own, own2
<1>2. ASSUME NEW n \in DOMAIN said
      PROVE  /\ own(n) \subseteq own2(n) /\ OnePerWindow(all)
             /\ \A p \in own(n) : p.window < new.window /\ p.window \in Nat
             /\ \A p \in own2(n) : (p \in own(n) \/ p.window = new.window) /\ p.window \in Nat
  <2>1. /\ own(n) \subseteq own2(n) /\ OnePerWindow(all)
        /\ \A p \in own(n) : p.window < new.window
        /\ \A p \in own2(n) : p \in own(n) \/ p.window = new.window
    BY PlacesGrow DEF own, own2
  <2>2. \A p \in own(n) : p.window \in Nat
    BY PlacesAre DEF own
  <2> QED BY <2>1, <2>2
<1>3. ASSUME NEW n \in DOMAIN said, NEW p \in own(n), InsideOf(views, said, n, own(n), p)
      PROVE  p.window # w
  BY <1>3 DEF NoneInside, own
<1>4. ASSUME NEW n \in DOMAIN said, NEW p \in own2(n), InsideOf(all, said, n, own2(n), p)
      PROVE  p.window # w
  <2> SUFFICES ASSUME p.window = w PROVE FALSE
    OBVIOUS
  <2>1. p \in own(n)
    BY <1>2
  <2>2. InsideOf(views, said, n, own(n), p)
    BY <1>2, <1>4, <2>1 DEF InsideOf, Oldest
  <2> QED BY <1>3, <2>1, <2>2
<1>5. ASSUME NEW n \in DOMAIN said PROVE standing(n, own(n)) <=> standing(n, own2(n))
  BY <1>2
<1>6. ASSUME NEW v, NEW n, NEW p, NEW view, OnePerWindow(v), n \in DOMAIN said,
             p \in Of(AllPlaces(v, said), n), r = AddedInside(view, said[n], p)
      PROVE  p.window = w
  <2>1. \E made : r = [p EXCEPT !.candidates = made]
    BY <1>6, Zenon DEF AddedInside
  <2>2. p = [who |-> n, window |-> p.window, section |-> p.section,
             address |-> p.address, candidates |-> p.candidates, enclosing |-> p.enclosing]
    BY <1>6, PlacesAre
  <2> QED BY <2>1, <2>2
<1>7. ASSUME NEW n \in DOMAIN said
      PROVE  r \in ResolvedIn(views, said, n, own(n)) <=> standing(n, own(n))
  <2>1. ASSUME NEW p \in own(n), InsideOf(views, said, n, own(n), p),
               r = AddedInside(ViewOf(views, p), said[n], p)
        PROVE  FALSE
    BY <1>3, <1>6, <2>1 DEF own
  <2> QED BY <2>1, ResolvedIs
<1>8. ASSUME NEW n \in DOMAIN said
      PROVE  r \in ResolvedIn(all, said, n, own2(n)) <=> standing(n, own2(n))
  <2>1. ASSUME NEW p \in own2(n), InsideOf(all, said, n, own2(n), p),
               r = AddedInside(ViewOf(all, p), said[n], p)
        PROVE  FALSE
    BY <1>2, <1>4, <1>6, <2>1 DEF own2
  <2> HIDE DEF all
  <2> QED BY <2>1, ResolvedIs
<1> HIDE DEF standing, all
<1>9. /\ AllResolved(views, said, AllPlaces(views, said))
           = UNION {ResolvedIn(views, said, n, own(n)) : n \in DOMAIN said}
      /\ AllResolved(all, said, AllPlaces(all, said))
           = UNION {ResolvedIn(all, said, n, own2(n)) : n \in DOMAIN said}
  BY DEF AllResolved, own, own2
<1>10. \A n \in DOMAIN said : r \in ResolvedIn(views, said, n, own(n))
                               <=> r \in ResolvedIn(all, said, n, own2(n))
  BY <1>5, <1>7, <1>8
<1> QED BY <1>9, <1>10 DEF all

(* Links of a window that none is read inside stand when one more is       *)
(* published after it.                                                     *)
LEMMA LinkStands ==
  ASSUME NEW views, OnePerWindow(views), NEW new, new.window \in Nat,
         \A v \in views : v.window < new.window,
         NEW said, IsStatement(said),
         NEW p \in Matched(views, said), p.outcome = "linked",
         NoneInside(views, said, p.window)
  PROVE  \E q \in Matched(views \cup {new}, said) :
           /\ q.outcome = "linked" /\ q.who = p.who /\ q.window = p.window
           /\ q.changes = p.changes
<1> DEFINE all == views \cup {new}
           places == AllPlaces(views, said)
           resolved == AllResolved(views, said, places)
           places2 == AllPlaces(all, said)
           resolved2 == AllResolved(all, said, places2)
<1>1. /\ Matched(views, said) = AllOutcomes(views, said, places, resolved)
      /\ Matched(all, said) = AllOutcomes(all, said, places2, resolved2)
  BY Zenon DEF Matched, MatchedAt
<1>2. PICK r \in resolved : \E m : IsLinkOf(p, GroupOf(resolved, r), said, m)
  <2> HIDE DEF places, resolved
  <2> QED BY <1>1, LinkedIsOf
<1>3. PICK m : IsLinkOf(p, GroupOf(resolved, r), said, m)
  BY <1>2
<1>4. r.window = p.window
  <2> HIDE DEF resolved
  <2> QED BY <1>3 DEF IsLinkOf, GroupOf
<1>5. r.window # new.window
  <2>1. r.who \in DOMAIN said /\ \E x \in Of(places, r.who) : r.window = x.window
    BY ResolvedAt
  <2>2. \A x \in Of(places, r.who) : x.window < new.window /\ x.window \in Nat
    BY <2>1, PlacesGrow, PlacesAre
  <2> HIDE DEF places, resolved
  <2> QED BY <2>1, <2>2
<1>6. \A x : x.window = r.window => (x \in resolved <=> x \in resolved2)
  BY <1>4, <1>5, ResolvedStands
<1> HIDE DEF all, places, resolved, places2, resolved2
<1>7. r \in resolved2 /\ GroupOf(resolved2, r) = GroupOf(resolved, r)
  BY <1>6 DEF GroupOf
<1> DEFINE group == GroupOf(resolved, r)
<1>8. /\ m \in DOMAIN Members(group, said)
      /\ p.who = Members(group, said)[m].who /\ p.window = Members(group, said)[m].window
      /\ p.changes = CausedBy(m, Resolved(Contenders(group, said)))
      /\ p.changes # {}
  BY <1>3 DEF IsLinkOf
<1>9. \E o \in AllOutcomes(all, said, places2, resolved2) :
        IsOutcomeOf(o, GroupOf(resolved2, r), said, m)
  BY <1>7, <1>8, MemberHasOutcome
<1>10. PICK o \in Matched(all, said) : IsOutcomeOf(o, group, said, m)
  BY <1>1, <1>7, <1>9
<1>11. /\ o.who = Members(group, said)[m].who /\ o.window = Members(group, said)[m].window
       /\ CausedBy(m, Resolved(Contenders(group, said))) # {}
            => /\ o.outcome = "linked"
               /\ o.changes = CausedBy(m, Resolved(Contenders(group, said)))
  BY <1>10 DEF IsOutcomeOf
<1> HIDE DEF group
<1> QED BY <1>8, <1>10, <1>11 DEF all

(* What an amendment is read inside is a provision the window added around *)
(* its address.                                                            *)
LEMMA InsideIsAdded ==
  ASSUME NEW views, OnePerWindow(views), NEW said, IsStatement(said), NEW w,
         \A o \in Matched(views, said), v \in views : v.window = w =>
           \A c \in v.changes : c.whole = "added" => ~IsStrictPrefix(c.path, o.address)
  PROVE  NoneInside(views, said, w)
<1> DEFINE places == AllPlaces(views, said)
           resolved == AllResolved(views, said, places)
           own(n) == Of(places, n)
<1> SUFFICES ASSUME NEW n \in DOMAIN said, NEW p \in own(n), p.window = w,
                    InsideOf(views, said, n, own(n), p)
             PROVE  FALSE
  BY DEF NoneInside
<1>1. /\ p = [who |-> n, window |-> p.window, section |-> p.section,
              address |-> p.address, candidates |-> p.candidates,
              enclosing |-> p.enclosing]
      /\ \E v \in views : /\ v.window = p.window
                          /\ \A c \in p.enclosing : /\ c \in v.changes
                                                    /\ IsStrictPrefix(c.path, p.address)
  BY PlacesAre
<1>2. p.enclosing # {} /\ \A c \in p.enclosing : c.whole = "added"
  BY DEF InsideOf, Oldest
<1> DEFINE r == AddedInside(ViewOf(views, p), said[n], p)
<1>3. r \in resolved
  <2>1. r \in ResolvedIn(views, said, n, own(n))
    <3> HIDE DEF own, r
    <3> QED BY ResolvedIs DEF r
  <2>2. resolved = UNION {ResolvedIn(views, said, k, own(k)) : k \in DOMAIN said}
    BY Zenon DEF AllResolved
  <2> HIDE DEF resolved, own, r
  <2> QED BY <2>1, <2>2
<1>4. r.address = p.address
  <2>1. \E made : r = [p EXCEPT !.candidates = made]
    BY Zenon DEF AddedInside
  <2> HIDE DEF r
  <2> QED BY <1>1, <2>1
<1> HIDE DEF r
<1>5. PICK m : m \in DOMAIN Members(GroupOf(resolved, r), said)
                 /\ Members(GroupOf(resolved, r), said)[m] = r
  BY <1>3, ResolvedIsMember
<1> HIDE DEF resolved, places
<1>6. PICK o \in AllOutcomes(views, said, places, resolved) :
        IsOutcomeOf(o, GroupOf(resolved, r), said, m)
  BY <1>3, <1>5, MemberHasOutcome
<1>7. o.address = p.address
  BY <1>4, <1>5, <1>6 DEF IsOutcomeOf
<1>8. o \in Matched(views, said)
  BY <1>6, Zenon DEF Matched, MatchedAt, places, resolved
<1>9. PICK v \in views : /\ v.window = p.window
                         /\ \A c \in p.enclosing : /\ c \in v.changes
                                                   /\ IsStrictPrefix(c.path, p.address)
  BY <1>1
<1> QED BY <1>2, <1>7, <1>8, <1>9

(* A window's view is of the two printings it is between.                  *)
LEMMA SameView ==
  ASSUME NEW docs, NEW other, NEW laws, NEW w, docs[w] = other[w], docs[w + 1] = other[w + 1]
  PROVE  View(docs, laws, w) = View(other, laws, w)
BY Zenon DEF View, Moves

(* And of its window.                                                      *)
LEMMA WindowOfView == ASSUME NEW docs, NEW laws, NEW w PROVE View(docs, laws, w).window = w
<1>1. View(docs, laws, w) = ViewFrom(docs, w, Moves(docs, laws, w))
  BY Zenon DEF View, ViewFrom
<1> QED BY <1>1 DEF ViewFrom

(* A dataset has one view of each window.                                  *)
LEMMA ViewsAreOne == ASSUME MatchInv PROVE OnePerWindow(Views(printings, held))
<1> DEFINE views == Views(printings, held)
<1>1. Len(printings) \in Nat
  BY DEF MatchInv, PrintingsAreDocs, IsList
<1>2. \A v \in views : \E w \in 1..Len(printings) - 1 : v = View(printings, held, w)
  BY DEF Views
<1> HIDE DEF views
<1>3. \A v \in views : \E w \in 1..Len(printings) - 1 :
        v = View(printings, held, w) /\ v.window = w
  BY <1>2, WindowOfView
<1>4. OnePerWindow(views)
  BY <1>1, <1>3 DEF OnePerWindow
<1> QED BY <1>4 DEF views

(* A printing more leaves a dataset's links standing.                      *)
LEMMA PublishedLinksStand ==
  ASSUME MatchInv, Publish, NEW p \in Links
  PROVE  Kept(p)' \/ ~NothingAddedAround(p.window)
<1> SUFFICES ASSUME NothingAddedAround(p.window) PROVE Kept(p)'
  OBVIOUS
<1> DEFINE N == Len(printings)
           docs == Append(printings, draft)
           views == Views(printings, held)
           new == View(docs, held, N)
<1>1. /\ IsList(printings) /\ N \in Nat /\ DOMAIN printings = 1..N /\ IsStatement(stated)
  BY DEF MatchInv, PrintingsAreDocs, IsList
<1>2. /\ outcomes = Matched(views, stated) /\ p \in Matched(views, stated)
      /\ p.outcome = "linked"
  BY DEF Links, MatchInv, AnswersAreOfThese, OutcomesOf
<1>3. OnePerWindow(views)
  BY ViewsAreOne
<1>4. \A v \in views : v.window < new.window
  <2>1. \A v \in views : \E w \in 1..N - 1 : v = View(printings, held, w)
    BY DEF Views
  <2>2. new.window = N
    BY WindowOfView
  <2> HIDE DEF views, new
  <2> QED BY <1>1, <2>1, <2>2, WindowOfView
<1>5. new.window = N
  BY WindowOfView
<1>6. N >= 1
  <2>1. CASE N = 0
    <3>1. views = {}
      BY <2>1 DEF Views
    <3> HIDE DEF views
    <3>2. PICK r \in AllResolved(views, stated, AllPlaces(views, stated)) : TRUE
      <4>1. p \in AllOutcomes(views, stated, AllPlaces(views, stated),
                             AllResolved(views, stated, AllPlaces(views, stated)))
        BY <1>2, Zenon DEF Matched, MatchedAt
      <4> QED BY <1>1, <1>2, <4>1, LinkedIsOf
    <3>3. PICK x \in Of(AllPlaces(views, stated), r.who) : r.who \in DOMAIN stated
      BY <1>3, ResolvedAt
    <3> QED BY <1>3, <3>1, <3>3, PlacesAre
  <2> QED BY <1>1, <2>1
<1>7. Views(docs, held) = views \cup {new}
  <2>1. /\ Len(docs) = N + 1 /\ \A k \in 1..N : docs[k] = printings[k]
    BY <1>1 DEF IsList
  <2>2. ASSUME NEW w \in 1..N - 1 PROVE View(docs, held, w) = View(printings, held, w)
    <3>1. docs[w] = printings[w] /\ docs[w + 1] = printings[w + 1]
      BY <1>1, <2>1
    <3> HIDE DEF docs
    <3> QED BY <3>1, SameView
  <2> HIDE DEF docs
  <2>3. Views(docs, held) = {View(docs, held, w) : w \in 1..N}
    BY <1>1, <2>1 DEF Views
  <2>4. 1..N = (1..N - 1) \cup {N}
    BY <1>1, <1>6
  <2> HIDE DEF N
  <2>5. Views(docs, held) = {View(docs, held, w) : w \in 1..N - 1} \cup {new}
    BY <2>3, <2>4
  <2>6. {View(docs, held, w) : w \in 1..N - 1} = {View(printings, held, w) : w \in 1..N - 1}
    BY <2>2
  <2> QED BY <2>5, <2>6 DEF Views, N
<1>8. NoneInside(views, stated, p.window)
  <2>1. \A o \in Matched(views, stated), c \in View(printings, held, p.window).changes :
          c.whole = "added" => ~IsStrictPrefix(c.path, o.address)
    BY <1>2 DEF NothingAddedAround
  <2>2. \A v \in views : v = View(printings, held, v.window)
    <3>1. \A v \in views : \E w \in 1..N - 1 : v = View(printings, held, w)
      BY DEF Views
    <3> HIDE DEF views
    <3> QED BY <3>1, WindowOfView
  <2> HIDE DEF views
  <2>3. \A o \in Matched(views, stated), v \in views : v.window = p.window =>
          \A c \in v.changes : c.whole = "added" => ~IsStrictPrefix(c.path, o.address)
    BY <2>1, <2>2
  <2> QED BY <1>1, <1>3, <2>3, InsideIsAdded
<1> HIDE DEF views, new
<1>9. PICK q \in Matched(views \cup {new}, stated) :
        /\ q.outcome = "linked" /\ q.who = p.who /\ q.window = p.window
        /\ q.changes = p.changes
  BY <1>1, <1>2, <1>3, <1>4, <1>5, <1>8, LinkStands
<1>10. outcomes' = Matched(views \cup {new}, stated)
  BY <1>7 DEF Publish, OutcomesOf
<1> QED BY <1>9, <1>10 DEF Kept, Links

(* Any other step leaves the links, or holds a law more.                   *)
LEMMA LinksStandStep ==
  MatchInv /\ [Next]_vars =>
    [UNCHANGED held => \A p \in Links : Kept(p)' \/ ~NothingAddedAround(p.window)]_vars
<1> SUFFICES ASSUME MatchInv, [Next]_vars, UNCHANGED held, NEW p \in Links
             PROVE  Kept(p)' \/ ~NothingAddedAround(p.window)
  OBVIOUS
<1>1. ASSUME UNCHANGED outcomes PROVE Kept(p)'
  BY <1>1 DEF Kept, Links
<1>2. CASE UNCHANGED vars
  BY <1>1, <1>2 DEF vars
<1>3. ASSUME NEW l \in Laws, Enact(l) PROVE Kept(p)'
  BY <1>1, <1>3 DEF Enact
<1>4. ASSUME NEW l \in Laws, AddBill(l) PROVE FALSE
  BY <1>4 DEF AddBill
<1>5. ASSUME NEW a \in Amendment, TakeEffect(a) PROVE Kept(p)'
  BY <1>1, <1>5 DEF TakeEffect
<1>6. CASE Publish
  BY <1>6, PublishedLinksStand
<1> QED BY <1>2, <1>3, <1>4, <1>5, <1>6 DEF Next

(* A printing more leaves every link standing, but for those of amendments *)
(* that are read inside what a window added, of any laws and printings.    *)
THEOREM LinksStandAlways == Spec => LinksStand
<1>1. Spec => []MatchInv
  BY MatchInvInit, MatchInvStep, PTL DEF Spec
<1> QED BY <1>1, LinksStandStep, PTL DEF Spec, LinksStand

-----------------------------------------------------------------------------
(* What is done with the answers.                                         *)

(* The work done on a dataset leaves the laws, the printings and what the  *)
(* matcher answers as the matching has them: a command writes nothing of   *)
(* those, and no law, bill or printing comes in the middle of one.         *)
THEOREM WorkLeavesMatching == WorkSpec => Spec
<1>1. Init /\ WorkInit => Init
  OBVIOUS
<1>2. [WorkNext]_all_vars => [Next]_vars
  <2> SUFFICES ASSUME [WorkNext]_all_vars PROVE [Next]_vars
    OBVIOUS
  <2>1. CASE UNCHANGED all_vars
    BY <2>1 DEF all_vars, vars
  <2>2. CASE StartRun \/ Raise \/ \E l \in links : Settle(l)
    BY <2>2 DEF StartRun, Raise, Settle, Command
  <2>3. CASE WriteOne \/ EndRun \/ Kill
    BY <2>3 DEF WriteOne, EndRun, Kill
  <2>4. CASE \E a \in Amendment : NoLink(a) \/ \E w \in PublishedWindows : LinkAmendment(a, w)
    BY <2>4 DEF NoLink, LinkAmendment, Command
  <2>5. CASE \E id \in noLinks : SettleNoLink(id)
    BY <2>5 DEF SettleNoLink, Command
  <2>6. CASE Idle /\ Next /\ listed' = Listed(printings', held') /\ UNCHANGED work_vars
    BY <2>6
  <2> QED BY <2>1, <2>2, <2>3, <2>4, <2>5, <2>6 DEF WorkNext
<1> QED BY <1>1, <1>2, PTL DEF WorkSpec, Spec

(* So a change has one cause whatever was linked, settled or killed since. *)
COROLLARY WorkHasOneCause == WorkSpec => []OneCause
BY WorkLeavesMatching, OneCauseAlways, PTL

(* So links stand whatever was linked, settled or killed since.            *)
COROLLARY WorkKeepsLinks == WorkSpec => LinksStand
BY WorkLeavesMatching, LinksStandAlways, PTL

-----------------------------------------------------------------------------
(* What is left to do.                                                     *)

(* An amendment or item with no standing link of its own is not linked:    *)
(* whatever standing link settles it would be one of its own.              *)
LEMMA NoneStandsNotLinked ==
  ASSUME NEW o \in outcomes,
         NEW own,
         own = {l \in Naming(links, IdOf(o)) :
                  \/ ~stated[o.who].item \/ SectionOf(o) = NoSection
                  \/ IsInSection(l.path, SectionOf(o))},
         own \cap Standing = {}
  PROVE  ~IsLinked(o)
<1>1. \A l \in Naming(Standing, IdOf(o)) : l \in Naming(links, IdOf(o)) /\ l \in Standing
  BY DEF Naming, Standing
<1>2. CASE ~stated[o.who].item
  <2>1. Naming(Standing, IdOf(o)) = {}
    BY <1>1, <1>2
  <2> QED BY <1>2, <2>1 DEF IsLinked
<1>3. CASE stated[o.who].item
  <2>1. SectionOf(o) # NoSection
    => \A l \in Naming(Standing, IdOf(o)) : ~IsInSection(l.path, SectionOf(o))
    BY <1>1
  <2>2. SectionOf(o) = NoSection => Naming(Standing, IdOf(o)) = {}
    BY <1>1
  <2> QED BY <1>3, <2>1, <2>2 DEF IsLinked, ItemIsLinked
<1> QED BY <1>2, <1>3

(* An amendment whose every link was refuted is work in every state        *)
(* (residue/mod.rs 44-50), not only in those that can be reached.          *)
LEMMA RefutedIsAnyWork == RefutedIsWork
<1> SUFFICES ASSUME NEW o \in outcomes,
                    NEW own,
                    own = {l \in Naming(links, IdOf(o)) :
                             \/ ~stated[o.who].item \/ SectionOf(o) = NoSection
                             \/ IsInSection(l.path, SectionOf(o))},
                    own # {}, own \cap Standing = {}, IdOf(o) \notin noLinks
             PROVE  \E row \in ResidueRows : row.who = o.who /\ row.category = "work"
  BY DEF RefutedIsWork
<1>1. ~IsLinked(o)
  BY NoneStandsNotLinked
<1>2. PICK l \in own : TRUE
  OBVIOUS
<1>3. l \in RefutedOf(o)
  BY <1>2 DEF RefutedOf, Naming
<1>4. Category(o) = "work"
  BY <1>3 DEF Category
<1>5. WorkRow(o, Category(o), o.under) \in ResidueRows
  BY <1>1 DEF ResidueRows
<1>6. /\ WorkRow(o, Category(o), o.under).who = o.who
      /\ WorkRow(o, Category(o), o.under).category = "work"
  BY <1>4 DEF WorkRow
<1> QED BY <1>5, <1>6

(* An amendment whose every link was refuted is work at every moment.      *)
THEOREM RefutedIsAlwaysWork == WorkSpec => []RefutedIsWork
BY RefutedIsAnyWork, PTL

-----------------------------------------------------------------------------
(* What a newer version no longer makes.                                   *)

(* Links that say the same are one, and none is newer than the matcher.    *)
OneEach == \A k, l \in links : Says(k) = Says(l) => k = l

NoneNewer == /\ version \in Nat
             /\ \A l \in links : l.maker.method = "evidence"
                                   => l.maker.version \in Nat /\ l.maker.version <= version

(* What was gone through is held and published, by a version there was.    *)
ConsideredIsHeld ==
  \A c \in considered : /\ c[1] \in held /\ c[2] \in PublishedWindows
                        /\ c[3] \in Nat /\ c[3] <= version

PrintingsAreSeq == \E S : printings \in Seq(S)

(* What a run has found is what the matcher makes, and what it does not    *)
(* have to write any more is written.                                      *)
RunWrites ==
  /\ Idle => toWrite = {}
  /\ ~Idle => toWrite \subseteq LinksMade /\ LinksMade \ toWrite \subseteq links

(* A link says what each link of the newest matcher says, and is stamped   *)
(* with its version or was added by an agent after it.                     *)
IsSaid(m) ==
  \E l \in links : /\ Says(l) = Says(m)
                   /\ l.maker = m.maker \/ l.maker.method # "evidence"

CoveredIsSaid == Idle /\ ~torn /\ Covered => \A m \in LinksMade : IsSaid(m)

WorkInv ==
  /\ OneEach /\ NoneNewer /\ ConsideredIsHeld /\ PrintingsAreSeq
  /\ reading \subseteq held /\ RunWrites /\ CoveredIsSaid

LEMMA MakerOfMade ==
  ASSUME NEW m \in LinksMade
  PROVE  m.maker = [method |-> "evidence", version |-> version]
BY DEF LinksMade

LEMMA MadeSaysOne ==
  ASSUME NEW k \in LinksMade, NEW m \in LinksMade, Says(k) = Says(m)
  PROVE  k = m
BY DEF LinksMade, Says

LEMMA StoredSays ==
  ASSUME NEW l, OneEach
  PROVE  \A j, k \in Stored(links, l) : Says(j) = Says(k) => j = k
BY DEF Stored, OneEach

(* Storing a link keeps what is said, if an agent's or one of the newest   *)
(* version.                                                                *)
LEMMA StoredKeepsSaid ==
  ASSUME NEW l, NEW m \in LinksMade, IsSaid(m),
         \/ l.maker.method # "evidence"
         \/ l.maker = [method |-> "evidence", version |-> version]
  PROVE  \E k \in Stored(links, l) : /\ Says(k) = Says(m)
                                     /\ k.maker = m.maker \/ k.maker.method # "evidence"
<1>1. PICK k \in links : Says(k) = Says(m) /\ (k.maker = m.maker \/ k.maker.method # "evidence")
  BY DEF IsSaid
<1>2. CASE Says(k) = Says(l)
  <2>1. l \in Stored(links, l)
    BY DEF Stored
  <2> QED BY <1>1, <1>2, <2>1, MakerOfMade
<1>3. CASE Says(k) # Says(l)
  <2>1. k \in Stored(links, l)
    BY <1>3 DEF Stored
  <2> QED BY <1>1, <2>1
<1> QED BY <1>2, <1>3

LEMMA WorkInvInit == Init /\ WorkInit => WorkInv
<1> SUFFICES ASSUME Init, WorkInit PROVE WorkInv
  OBVIOUS
<1>1. /\ links = {} /\ version = 1 /\ considered = {} /\ reading = {} /\ held = {}
  BY DEF Init, WorkInit
<1>2. printings \in Seq({FirstDoc})
  BY DEF Init
<1>3. PrintingsAreSeq
  BY <1>2 DEF PrintingsAreSeq
<1>4. OneEach /\ NoneNewer /\ ConsideredIsHeld /\ reading \subseteq held
  BY <1>1 DEF OneEach, NoneNewer, ConsideredIsHeld
<1>5. RunWrites /\ CoveredIsSaid
  BY <1>1 DEF WorkInit, RunWrites, CoveredIsSaid, Idle, Covered
<1> QED BY <1>3, <1>4, <1>5 DEF WorkInv

(* A step that changes none of these keeps what is made, covered and said. *)
LEMMA SameAnswers ==
  ASSUME UNCHANGED <<outcomes, stated, version>>
  PROVE  LinksMade' = LinksMade
BY DEF LinksMade, Links, IdOf

LEMMA WorkUnchanged ==
  ASSUME WorkInv, UNCHANGED <<links, considered, reading, held, printings, outcomes, stated,
                              version, toWrite, torn>>
  PROVE  WorkInv'
<1>1. LinksMade' = LinksMade
  BY SameAnswers
<1>2. PublishedWindows' = PublishedWindows
  BY DEF PublishedWindows
<1>3. OneEach' /\ NoneNewer' /\ ConsideredIsHeld' /\ PrintingsAreSeq'
  BY <1>2 DEF WorkInv, OneEach, NoneNewer, ConsideredIsHeld, PrintingsAreSeq
<1>4. RunWrites' /\ reading' \subseteq held'
  BY <1>1 DEF WorkInv, RunWrites, Idle
<1>5. CoveredIsSaid'
  BY <1>1, <1>2 DEF WorkInv, CoveredIsSaid, IsSaid, Idle, Covered
<1> QED BY <1>3, <1>4, <1>5 DEF WorkInv

(* A step of the laws and printings, between runs.                         *)
LEMMA GrowthKeeps ==
  ASSUME WorkInv, Idle, Next, UNCHANGED work_vars
  PROVE  WorkInv'
<1> USE DEF work_vars
<1>1. ASSUME NEW l \in Laws, Enact(l) PROVE WorkInv'
  BY <1>1, WorkUnchanged DEF Enact
<1>2. ASSUME NEW a \in Amendment, TakeEffect(a) PROVE WorkInv'
  BY <1>2, WorkUnchanged DEF TakeEffect
<1>3. ASSUME NEW l \in Laws, AddBill(l) PROVE WorkInv'
  <2>1. /\ l \notin held /\ held' = held \cup {l}
        /\ PublishedWindows' = PublishedWindows /\ printings' = printings
    BY <1>3 DEF AddBill, PublishedWindows
  <2>2. OneEach' /\ NoneNewer' /\ PrintingsAreSeq' /\ ConsideredIsHeld'
    BY <2>1 DEF WorkInv, OneEach, NoneNewer, PrintingsAreSeq, ConsideredIsHeld
  <2>3. reading' \subseteq held' /\ RunWrites'
    BY <2>1 DEF WorkInv, RunWrites, Idle
  <2>4. ~Covered'
    <3> SUFFICES ASSUME Covered' PROVE FALSE
      OBVIOUS
    <3>1. PICK w \in PublishedWindows : TRUE
      BY <2>1 DEF Covered
    <3>2. <<l, w, version>> \in considered
      BY <2>1, <3>1 DEF Covered
    <3> QED BY <2>1, <3>2 DEF WorkInv, ConsideredIsHeld
  <2> QED BY <2>2, <2>3, <2>4 DEF WorkInv, CoveredIsSaid
<1>4. CASE Publish
  <2>1. held' = held /\ printings' = Append(printings, draft)
    BY <1>4 DEF Publish
  <2>2. PICK S : printings \in Seq(S)
    BY DEF WorkInv, PrintingsAreSeq
  <2>3. printings \in Seq(S \cup {draft})
    BY <2>2
  <2>4. /\ Append(printings, draft) \in Seq(S \cup {draft})
        /\ Len(Append(printings, draft)) = Len(printings) + 1 /\ Len(printings) \in Nat
    BY <2>3
  <2>5. /\ PublishedWindows' = 1..Len(printings)
        /\ PublishedWindows = 1..Len(printings) - 1
    BY <2>1, <2>4 DEF PublishedWindows
  <2>6. PrintingsAreSeq'
    BY <2>1, <2>4 DEF PrintingsAreSeq
  <2>7. OneEach' /\ NoneNewer'
    BY DEF WorkInv, OneEach, NoneNewer
  <2>8. ConsideredIsHeld'
    BY <2>1, <2>4, <2>5 DEF WorkInv, ConsideredIsHeld
  <2>9. reading' \subseteq held' /\ RunWrites'
    BY <2>1 DEF WorkInv, RunWrites, Idle
  <2>10. ~Covered'
    <3> SUFFICES ASSUME Covered' PROVE FALSE
      OBVIOUS
    <3>1. PICK l \in held : TRUE
      BY <2>1 DEF Covered
    <3>2. Len(printings) \in PublishedWindows'
      BY <2>4, <2>5 DEF Covered
    <3>3. <<l, Len(printings), version>> \in considered
      BY <2>1, <3>1, <3>2 DEF Covered
    <3>4. Len(printings) \in PublishedWindows
      BY <3>3 DEF WorkInv, ConsideredIsHeld
    <3> QED BY <2>4, <2>5, <3>4
  <2> QED BY <2>6, <2>7, <2>8, <2>9, <2>10 DEF WorkInv, CoveredIsSaid
<1> QED BY <1>1, <1>2, <1>3, <1>4 DEF Next

(* An agent's link.                                                        *)
LEMMA AgentKeeps ==
  ASSUME WorkInv, NEW a \in Amendment, NEW w \in PublishedWindows, LinkAmendment(a, w)
  PROVE  WorkInv'
<1> DEFINE of(path) == [window |-> w, path |-> path, who |-> States(a).id,
                        maker |-> [method |-> "agent", version |-> 1]]
<1>1. PICK path : links' = Stored(links, of(path))
  BY DEF LinkAmendment
<1>2. /\ Idle /\ UNCHANGED <<vars, listed, refuted, noLinks, version, toWrite, reading,
                             torn, considered>>
  BY DEF LinkAmendment, Command
<1>3. LinksMade' = LinksMade /\ PublishedWindows' = PublishedWindows
  BY <1>2, SameAnswers DEF vars, PublishedWindows
<1>4. OneEach'
  BY <1>1, StoredSays DEF WorkInv, OneEach
<1>5. of(path).maker.method # "evidence"
  OBVIOUS
<1>6. NoneNewer'
  BY <1>1, <1>2, <1>5 DEF WorkInv, NoneNewer, Stored
<1>7. ConsideredIsHeld' /\ PrintingsAreSeq' /\ reading' \subseteq held' /\ RunWrites'
  BY <1>2, <1>3 DEF WorkInv, ConsideredIsHeld, PrintingsAreSeq, RunWrites, Idle, vars
<1>8. CoveredIsSaid'
  <2> SUFFICES ASSUME Idle', ~torn', Covered', NEW m \in LinksMade PROVE IsSaid(m)'
    BY <1>3 DEF CoveredIsSaid
  <2>1. IsSaid(m)
    BY <1>2, <1>3 DEF WorkInv, CoveredIsSaid, Idle, Covered, vars
  <2> QED BY <1>1, <1>5, <2>1, StoredKeepsSaid DEF IsSaid
<1> QED BY <1>4, <1>6, <1>7, <1>8 DEF WorkInv

LEMMA WorkInvStep == WorkInv /\ [WorkNext]_all_vars => WorkInv'
<1> SUFFICES ASSUME WorkInv, [WorkNext]_all_vars PROVE WorkInv'
  OBVIOUS
<1>1. CASE UNCHANGED all_vars
  BY <1>1, WorkUnchanged DEF all_vars, vars, work_vars
<1>2. CASE StartRun
  <2>1. /\ reading' = held /\ toWrite' = LinksMade /\ held # {}
        /\ UNCHANGED <<vars, links, version, torn, considered>>
    BY <1>2 DEF StartRun, Command
  <2>2. LinksMade' = LinksMade /\ PublishedWindows' = PublishedWindows
    BY <2>1, SameAnswers DEF vars, PublishedWindows
  <2>3. RunWrites' /\ reading' \subseteq held' /\ ~Idle'
    BY <2>1, <2>2 DEF RunWrites, Idle, vars
  <2> QED BY <2>1, <2>2, <2>3
        DEF WorkInv, OneEach, NoneNewer, ConsideredIsHeld, PrintingsAreSeq, CoveredIsSaid, vars
<1>3. CASE WriteOne
  <2>1. PICK l \in toWrite : links' = Stored(links, l) /\ toWrite' = toWrite \ {l}
    BY <1>3 DEF WriteOne
  <2>2. UNCHANGED <<vars, version, reading, torn, considered>>
    BY <1>3 DEF WriteOne
  <2>3. LinksMade' = LinksMade /\ PublishedWindows' = PublishedWindows
    BY <2>2, SameAnswers DEF vars, PublishedWindows
  <2>4. ~Idle
    BY <2>1 DEF WorkInv, RunWrites
  <2>5. l \in LinksMade /\ l.maker = [method |-> "evidence", version |-> version]
    BY <2>1, <2>4, MakerOfMade DEF WorkInv, RunWrites
  <2>6. OneEach'
    BY <2>1, StoredSays DEF WorkInv, OneEach
  <2>7. NoneNewer'
    BY <2>1, <2>2, <2>5 DEF WorkInv, NoneNewer, Stored
  <2>8. RunWrites'
    <3>1. ASSUME NEW m \in LinksMade, m \notin toWrite' PROVE m \in links'
      <4>1. CASE m = l
        BY <2>1, <4>1 DEF Stored
      <4>2. CASE m # l
        <5>1. m \in links
          BY <2>1, <2>4, <3>1, <4>2 DEF WorkInv, RunWrites
        <5>2. Says(m) # Says(l)
          BY <2>5, <4>2, MadeSaysOne
        <5> QED BY <2>1, <5>1, <5>2 DEF Stored
      <4> QED BY <4>1, <4>2
    <3> QED BY <2>1, <2>2, <2>3, <2>4, <3>1 DEF WorkInv, RunWrites, Idle
  <2>9. ConsideredIsHeld' /\ PrintingsAreSeq' /\ reading' \subseteq held' /\ ~Idle'
    BY <2>2, <2>3, <2>4 DEF WorkInv, ConsideredIsHeld, PrintingsAreSeq, Idle, vars
  <2> QED BY <2>6, <2>7, <2>8, <2>9 DEF WorkInv, CoveredIsSaid
<1>4. CASE EndRun
  <2>1. /\ ~Idle /\ toWrite = {} /\ reading' = {}
        /\ considered' = considered \cup (reading \X PublishedWindows \X {version})
        /\ UNCHANGED <<vars, links, version, toWrite>>
    BY <1>4 DEF EndRun
  <2>2. LinksMade' = LinksMade /\ PublishedWindows' = PublishedWindows
    BY <2>1, SameAnswers DEF vars, PublishedWindows
  <2>3. LinksMade \subseteq links
    BY <2>1 DEF WorkInv, RunWrites
  <2>4. CoveredIsSaid'
    BY <2>1, <2>2, <2>3 DEF CoveredIsSaid, IsSaid
  <2>5. ConsideredIsHeld'
    BY <2>1, <2>2 DEF WorkInv, ConsideredIsHeld, NoneNewer, vars
  <2> QED BY <2>1, <2>2, <2>4, <2>5
        DEF WorkInv, OneEach, NoneNewer, PrintingsAreSeq, RunWrites, Idle, vars
<1>5. CASE Kill
  <2>1. /\ reading' = {} /\ toWrite' = {} /\ torn' = TRUE
        /\ UNCHANGED <<vars, links, version, considered>>
    BY <1>5 DEF Kill
  <2>2. PublishedWindows' = PublishedWindows
    BY <2>1 DEF vars, PublishedWindows
  <2> QED BY <2>1, <2>2
        DEF WorkInv, OneEach, NoneNewer, ConsideredIsHeld, PrintingsAreSeq, RunWrites,
            CoveredIsSaid, Idle, vars
<1>6. CASE Raise
  <2>1. /\ Idle /\ version' = version + 1
        /\ UNCHANGED <<vars, links, toWrite, reading, torn, considered>>
    BY <1>6 DEF Raise, Command
  <2>2. PublishedWindows' = PublishedWindows
    BY <2>1 DEF vars, PublishedWindows
  <2>3. ~Covered'
    <3> SUFFICES ASSUME Covered' PROVE FALSE
      OBVIOUS
    <3>1. PICK l \in held, w \in PublishedWindows : TRUE
      BY <2>1, <2>2 DEF Covered, vars
    <3>2. <<l, w, version + 1>> \in considered
      BY <2>1, <2>2, <3>1 DEF Covered, vars
    <3> QED BY <3>2 DEF WorkInv, ConsideredIsHeld, NoneNewer
  <2>4. NoneNewer' /\ ConsideredIsHeld'
    BY <2>1, <2>2 DEF WorkInv, NoneNewer, ConsideredIsHeld, vars
  <2> QED BY <2>1, <2>3, <2>4
        DEF WorkInv, OneEach, PrintingsAreSeq, RunWrites, CoveredIsSaid, Idle, vars
<1>7. ASSUME NEW a \in Amendment, NoLink(a) PROVE WorkInv'
  BY <1>7, WorkUnchanged DEF NoLink, Command, vars
<1>8. ASSUME NEW a \in Amendment, NEW w \in PublishedWindows, LinkAmendment(a, w)
      PROVE  WorkInv'
  BY <1>8, AgentKeeps
<1>9. ASSUME NEW l \in links, Settle(l) PROVE WorkInv'
  BY <1>9, WorkUnchanged DEF Settle, Command, vars
<1>10. ASSUME NEW id \in noLinks, SettleNoLink(id) PROVE WorkInv'
  BY <1>10, WorkUnchanged DEF SettleNoLink, Command, vars
<1>11. CASE Idle /\ Next /\ listed' = Listed(printings', held') /\ UNCHANGED work_vars
  BY <1>11, GrowthKeeps
<1> QED BY <1>1, <1>2, <1>3, <1>4, <1>5, <1>6, <1>7, <1>8, <1>9, <1>10, <1>11 DEF WorkNext

(* A link flagged would have the newest version and an older one.          *)
LEMMA SaidIsNotOutdated == WorkInv => OutdatedIsTrue
<1> SUFFICES ASSUME WorkInv, Idle, ~torn, Covered,
                    NEW l \in Outdated, NEW m \in LinksMade, Says(l) = Says(m)
             PROVE  FALSE
  BY DEF OutdatedIsTrue
<1>1. PICK k \in links : Says(k) = Says(m) /\ (k.maker = m.maker \/ k.maker.method # "evidence")
  BY DEF WorkInv, CoveredIsSaid, IsSaid
<1>2. l \in links /\ l.maker.method = "evidence"
  BY DEF Outdated
<1>3. k = l
  BY <1>1, <1>2 DEF WorkInv, OneEach
<1>4. l.maker.version = version
  BY <1>1, <1>2, <1>3, MakerOfMade
<1>5. PICK j \in links : j.maker.method = "evidence" /\ j.maker.version > l.maker.version
  BY DEF Outdated
<1> QED BY <1>4, <1>5 DEF WorkInv, NoneNewer

(* The report of outdated links never names one that the newest matcher    *)
(* makes, where it went through every law and printing (outdated.rs).      *)
THEOREM OutdatedIsAlwaysTrue == WorkSpec => []OutdatedIsTrue
<1>1. WorkSpec => []WorkInv
  BY WorkInvInit, WorkInvStep, PTL DEF WorkSpec
<1> QED BY <1>1, SaidIsNotOutdated, PTL

-----------------------------------------------------------------------------
(* A link is in the section its amendment names.                           *)

(* A section, or in one: a chapter is neither.                             *)
InSomeSection(path) == \E n \in DOMAIN path : path[n].level = "section"

(* The section of a place is the one the amendment names.                  *)
LEMMA PlacedAsNamed ==
  ASSUME NEW view, SoundView(view), NEW said, NEW n, said[n].container \in Path,
         NEW place \in PlacedIn(view, said, n)
  PROVE  Last(place.section) = said[n].section
<1> DEFINE a == said[n]
           named(at) == IF a.asMoved THEN at.under
                        ELSE ThroughLaterRenumberings(at.under, view.moves, said, n)
           under(at) == MovedByAnotherLaw(view, at.section, named(at), a.evidence)
<1>1. PICK at \in AddressPath(view, a) : place = PlaceAt(view, a, n, at.section, under(at))
  BY Zenon DEF PlacedIn
<1>2. at \in Addressed(view.later, a) \/ at \in Addressed(view.earlier, a)
  BY DEF AddressPath
<1>3. Last(at.section) = a.section
  BY <1>2, AddressedInSection DEF SoundView
<1> HIDE DEF under
<1>4. place.section = at.section
  BY <1>1 DEF PlaceAt
<1> QED BY <1>3, <1>4

(* So is that of what is resolved.                                         *)
LEMMA ResolvedAsNamed ==
  ASSUME NEW views, SoundViews(views), OnePerWindow(views), NEW said, IsStatement(said),
         NEW r \in AllResolved(views, said, AllPlaces(views, said))
  PROVE  Last(r.section) = said[r.who].section
<1>1. PICK p \in Of(AllPlaces(views, said), r.who) : r.who \in DOMAIN said /\ r.section = p.section
  BY ResolvedAt
<1>2. PICK v \in LookedFor(views, said, r.who) : p \in PlacedIn(v, said, r.who)
  BY <1>1, PlacesOf
<1>3. SoundView(v) /\ said[r.who].container \in Path
  BY <1>1, <1>2 DEF LookedFor, SoundViews, IsStatement
<1> QED BY <1>1, <1>2, <1>3, PlacedAsNamed

(* What is reached from a place is in its section, or is a provision added *)
(* around it.                                                              *)
LEMMA ReachedIsInSection ==
  ASSUME NEW place, IsAddress(place.section, place.address), NEW c, Reached(place, c)
  PROVE  \/ Last(place.section) \in Range(c.path)
         \/ c.whole = "added" /\ ~InSomeSection(c.path)
<1> DEFINE s == place.section  u == place.address  t == c.path
           k == Len(s)
<1>1. /\ s \in Path /\ u \in Path /\ t \in Path /\ OneSection(u) /\ s # <<>>
      /\ s[k].level = "section" /\ IsPrefix(s, u)
  BY DEF IsAddress, IsSection, IsPath, Reached
<1>2. /\ k \in Nat \ {0} /\ Len(u) \in Nat /\ Len(t) \in Nat
      /\ DOMAIN u = 1..Len(u) /\ DOMAIN t = 1..Len(t)
  BY <1>1 DEF Path
<1>3. Last(s) = s[k]
  BY DEF Last
<1>4. k <= Len(u) /\ u[k] = s[k]
  BY <1>1, <1>2, PrefixIs
<1> HIDE DEF s, u, t, k
<1>5. CASE IsPrefix(u, t)
  <2>1. k \in DOMAIN t /\ t[k] = s[k]
    BY <1>1, <1>2, <1>4, <1>5, PrefixIs
  <2> QED BY <1>3, <2>1 DEF Range, s, t
<1>6. CASE c.whole = "added" /\ IsPrefix(t, u)
  <2>1. \A n \in DOMAIN t : n \in DOMAIN u /\ t[n] = u[n]
    BY <1>1, <1>2, <1>6, PrefixIs
  <2>2. ASSUME NEW n \in DOMAIN t, t[n].level = "section" PROVE n = k /\ t[k] = s[k]
    <3>1. n \in DOMAIN u /\ k \in DOMAIN u /\ u[n].level = "section" /\ u[k].level = "section"
      BY <1>1, <1>2, <1>4, <2>1, <2>2
    <3>2. n = k
      BY <1>1, <3>1 DEF OneSection
    <3> QED BY <1>4, <2>1, <2>2, <3>2
  <2>3. CASE \E n \in DOMAIN t : t[n].level = "section"
    <3>1. k \in DOMAIN t /\ t[k] = s[k]
      BY <2>2, <2>3
    <3> QED BY <1>3, <3>1 DEF Range, s, t
  <2>4. CASE ~\E n \in DOMAIN t : t[n].level = "section"
    BY <1>6, <2>4 DEF InSomeSection, t
  <2> QED BY <2>3, <2>4
<1>7. IsPrefix(u, t) \/ (c.whole = "added" /\ IsPrefix(t, u))
  BY DEF Reached, t, u
<1> QED BY <1>5, <1>6, <1>7

(* A link of a window where sections stay is in the section its amendment  *)
(* names.                                                                  *)
LEMMA LinkedInSection ==
  ASSUME NEW views, SoundViews(views), OnePerWindow(views), NEW said, IsStatement(said),
         NEW p \in Matched(views, said), p.outcome = "linked",
         \A v \in views : v.window = p.window => Stays(v),
         NEW c \in p.changes
  PROVE  /\ said[p.who].section.level = "section"
         /\ \/ said[p.who].section \in Range(c.path)
            \/ c.whole = "added" /\ ~InSomeSection(c.path)
<1> DEFINE places == AllPlaces(views, said)
           resolved == AllResolved(views, said, places)
<1>1. p \in AllOutcomes(views, said, places, resolved)
  BY Zenon DEF Matched, MatchedAt
<1>2. PICK r \in resolved : \E m : IsLinkOf(p, GroupOf(resolved, r), said, m)
  <2> HIDE DEF places, resolved
  <2> QED BY <1>1, LinkedIsOf
<1> DEFINE group == GroupOf(resolved, r)
           members == Members(group, said)
           contenders == Contenders(group, said)
<1>3. PICK m : IsLinkOf(p, group, said, m)
  BY <1>2
<1> DEFINE x == members[m]
<1>4. /\ m \in DOMAIN members /\ x \in group /\ p.who = x.who /\ p.window = x.window
      /\ p.changes = CausedBy(m, Resolved(contenders))
  BY <1>3 DEF IsLinkOf
<1>5. x \in resolved
  <2> HIDE DEF x, resolved
  <2> QED BY <1>4 DEF GroupOf
<1>6. SoundPlace(x) /\ Last(x.section) = said[x.who].section
  <2>1. x.window = p.window
    BY <1>4
  <2> HIDE DEF x
  <2> QED BY <1>5, <2>1, ResolvedIsSound, ResolvedAsNamed
<1>7. c \in x.candidates
  <2> HIDE DEF members, contenders
  <2>1. c \in contenders[m].candidates /\ m \in DOMAIN contenders
    BY <1>4, CausedAmongCandidates
  <2>2. contenders[m] = Contender(said[members[m].who], members[m])
    BY <2>1 DEF contenders, members, Contenders
  <2> QED BY <2>1, <2>2 DEF Contender
<1> HIDE DEF x
<1>8. IsAddress(x.section, x.address) /\ Reached(x, c)
  BY <1>6, <1>7 DEF SoundPlace
<1>9. Last(x.section).level = "section"
  BY <1>8 DEF IsAddress, IsSection, Last
<1> QED BY <1>4, <1>6, <1>8, <1>9, ReachedIsInSection

(* A change linked to an amendment is in the section its words or the      *)
(* OLRC's table give it, by the path that the list of what is left reads   *)
(* (is_in_section), where no section was renumbered in the window; but for *)
(* a provision added that holds sections.                                  *)
LinksSitInSection ==
  \A p \in Links : SectionsStay(p.window) =>
    \A c \in p.changes : \/ IsInSection(c.path, SectionOf(p))
                         \/ c.whole = "added" /\ ~InSomeSection(c.path)

(* The matcher's answer does, of any printings that are trees.             *)
LEMMA AnswersSitInSection ==
  ASSUME MatchInv, NEW p \in Links, SectionsStay(p.window), NEW c \in p.changes
  PROVE  /\ SectionOf(p) # NoSection
         /\ \/ IsInSection(c.path, SectionOf(p))
            \/ c.whole = "added" /\ ~InSomeSection(c.path)
<1>1. /\ stated[p.who].section.level = "section"
      /\ \/ stated[p.who].section \in Range(c.path)
         \/ c.whole = "added" /\ ~InSomeSection(c.path)
  BY AnswersAreSound, ViewsAreOne, LinkedInSection
<1>2. NoSection.level # "section"
  BY DEF NoSection
<1> QED BY <1>1, <1>2 DEF SectionOf, IsInSection

(* So it is of any laws and printings, whatever the commands given.        *)
THEOREM LinksAlwaysSitInSection == WorkSpec => []LinksSitInSection
<1>1. Spec => []MatchInv
  BY MatchInvInit, MatchInvStep, PTL DEF Spec
<1>2. MatchInv => LinksSitInSection
  BY AnswersSitInSection DEF LinksSitInSection
<1> QED BY <1>1, <1>2, WorkLeavesMatching, PTL

(* Once the newest matcher went through all that is held, the list of what *)
(* is left calls no link it made "unwritten" (residue/mod.rs 22-27): a     *)
(* standing link settles the row, or a reviewer refuted one. The run wrote *)
(* its links by address and the list reads them by path; they agree where  *)
(* sections stay and what is linked is not all of provisions that hold     *)
(* sections.                                                               *)
FoundIsSettled ==
  Idle /\ ~torn /\ Covered =>
    \A o \in Links : SectionsStay(o.window) /\ (\E c \in o.changes : InSomeSection(c.path)) =>
      IsLinked(o) \/ RefutedOf(o) # {}

(* What is said of a change in the section is a link that settles the row. *)
LEMMA SaidIsSettled ==
  ASSUME MatchInv, WorkInv, Idle, ~torn, Covered,
         NEW o \in Links, SectionsStay(o.window),
         NEW c \in o.changes, InSomeSection(c.path)
  PROVE  IsLinked(o) \/ RefutedOf(o) # {}
<1> DEFINE m == [window |-> o.window, path |-> c.path, who |-> IdOf(o),
                 maker |-> [method |-> "evidence", version |-> version]]
<1>1. SectionOf(o) # NoSection /\ IsInSection(c.path, SectionOf(o))
  BY AnswersSitInSection
<1>2. m \in LinksMade
  BY DEF LinksMade
<1>3. PICK l \in links : Says(l) = Says(m)
  <2> HIDE DEF m
  <2> QED BY <1>2 DEF WorkInv, CoveredIsSaid, IsSaid
<1>4. l.who = IdOf(o) /\ l.path = c.path
  BY <1>3 DEF Says
<1>5. CASE Says(l) \in refuted
  BY <1>4, <1>5 DEF RefutedOf, Standing
<1>6. CASE Says(l) \notin refuted
  <2>1. l \in Naming(Standing, IdOf(o))
    BY <1>4, <1>6 DEF Naming, Standing
  <2>2. CASE ~stated[o.who].item
    BY <2>1, <2>2 DEF IsLinked
  <2>3. CASE stated[o.who].item
    <3>1. ItemIsLinked(o)
      BY <1>1, <1>4, <2>1 DEF ItemIsLinked
    <3> QED BY <2>3, <3>1 DEF IsLinked
  <2> QED BY <2>2, <2>3
<1> QED BY <1>5, <1>6

(* So it is whatever was reviewed, withdrawn, killed or raised since.      *)
THEOREM FoundIsAlwaysSettled == WorkSpec => []FoundIsSettled
<1>1. Spec => []MatchInv
  BY MatchInvInit, MatchInvStep, PTL DEF Spec
<1>2. WorkSpec => []WorkInv
  BY WorkInvInit, WorkInvStep, PTL DEF WorkSpec
<1>3. MatchInv /\ WorkInv => FoundIsSettled
  BY SaidIsSettled DEF FoundIsSettled
<1> QED BY <1>1, <1>2, <1>3, WorkLeavesMatching, PTL
=============================================================================
