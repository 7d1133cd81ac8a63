------------------------------ MODULE Resolve ------------------------------
(***************************************************************************)
(* The changes under one section in one window, assigned to the amendments *)
(* addressed there, all together (legislature::evidence_matching::resolve).*)
(*                                                                         *)
(* The contenders are a sequence, in the order the laws state them, of     *)
(* [id, law, evidence, address, candidates, onlyRenumbers, unitsNamed,     *)
(* onlyStrikes, onlyInserts, rewrites]; candidates is a set of changes. A  *)
(* cause is a pair of a contender's place and how the change was found:    *)
(* [how, enacted, at], where at is the provision it sits inside.           *)
(***************************************************************************)
EXTENDS QuotedWords

(* A provision's path is a sequence of segments [level, number].           *)
IsBelow(path, above) == IsStrictPrefix(above, path)

IsAtOrBelow(path, above) == IsPrefix(above, path)

(* A text with no words and no marks is blank.                             *)
EditedInPlace(change) == change.before # <<>> /\ change.after # <<>>

RemovesAProvision(change) == change.before # <<>> /\ change.after = <<>>

IsARepealNote(text) ==
  \E n \in 1..2 : /\ n <= Len(text) /\ text[n] = "Repealed"
                  /\ n = 2 => text[1] = "["

AddsWords(change) ==
  ~IsARepealNote(change.after) /\ BringsNewWords(change.before, change.after)

(* step_names: a step gives the number, and the level where it names one.  *)
StepNames(step, segment) ==
  /\ step.number = segment.number
  /\ step.level \in {"any", segment.level}

IsInUnit(path, unit) ==
  \E start \in DOMAIN path :
    /\ start + Len(unit) <= Len(path) + 1
    /\ \A n \in DOMAIN unit : StepNames(unit[n], path[start + n - 1])

WordsCanReach(c, change) ==
  c.unitsNamed = {} \/ \E unit \in c.unitsNamed : IsInUnit(change.path, unit)

CanHaveMade(c, change) ==
  /\ WordsCanReach(c, change)
  /\ ~(c.onlyStrikes /\ AddsWords(change))
  /\ ~(c.onlyInserts /\ RemovesAProvision(change))

(* The words of a contender a change shows, read with the amendments its   *)
(* law makes after it.                                                     *)
ShownOf(change, contenders, who) ==
  LET later == SelectSeq(SubSeq(contenders, who + 1, Len(contenders)),
                         LAMBDA c : c.law = contenders[who].law)
  IN ShownWords(contenders[who].evidence, change,
                [n \in DOMAIN later |-> later[n].evidence])

Renumbering == [how |-> "renumbered", enacted |-> FALSE, at |-> <<>>]

Quoting(shown) == [how |-> "quoted", at |-> <<>>,
                   enacted |-> \E s \in Range(shown) : s.enacted]

Inside(path) == [how |-> "inside", enacted |-> FALSE, at |-> path]

ByAddress == [how |-> "address", enacted |-> FALSE, at |-> <<>>]

(* Found::carries: which changes inside it a provision carries, by rank.   *)
Nothing == 0
Removals == 1
Everything == 2

Carries(found, c) ==
  CASE found.how = "renumbered" -> Everything
    [] found.how = "quoted" ->
         IF found.enacted \/ OpensAProvision(c.evidence)
         THEN Everything ELSE Removals
    [] OTHER -> Nothing

-----------------------------------------------------------------------------
(* Ties.                                                                   *)

(* The only member of a set; none where there are more.                    *)
One(S) == {x \in S : \A y \in S : y = x}

(* Mutant: all that overlap the change most share it.                      *)
LeadersShare(change, contenders, tied) ==
  {who \in tied : \A other \in tied :
     Overlap(contenders[other].evidence, change)[1]
       <= Overlap(contenders[who].evidence, change)[1]}

(* rank_by_overlap: the one that overlaps the change most; a set of at     *)
(* most one.                                                               *)
RankByOverlap(change, contenders, tied) ==
  LET score(who) == Overlap(contenders[who].evidence, change)
      leads(who) == /\ score(who)[1] > 0
                    /\ \A other \in tied : score(other)[1] <= score(who)[1]
  IN IF One(tied) # {} THEN One(tied)
     ELSE One({who \in tied : leads(who)})

NarrowestAddress(contenders, tied) ==
  {who \in tied : \A other \in tied \ {who} :
     IsBelow(contenders[who].address, contenders[other].address)}

(* by_words: the causes the words shown give a change; none when two fit   *)
(* it equally. A claim is [who, shown].                                    *)
ByWords(change, contenders, claims) ==
  LET gives(S) == {<<c.who, Quoting(c.shown)>> : c \in {c \in claims : c.who \in S}}
      rewrote == {c.who : c \in {c \in claims :
                                  \E s \in Range(c.shown) : s.rewrote}}
      own == {c.who : c \in {c \in claims : \E s \in Range(c.shown) :
                \A d \in claims \ {c} :
                  \A t \in Range(d.shown) : ~IsWithin(s, t)}}
      tied == {c.who : c \in {c \in claims :
                 \A d \in claims : Len(d.shown) <= Len(c.shown)}}
      ranked == RankByOverlap(change, contenders, tied)
  IN IF One(rewrote) # {} THEN gives(One(rewrote))
     ELSE IF EditedInPlace(change) /\ own # {} THEN gives(own)
     ELSE IF ranked # {} THEN gives(ranked)
     ELSE gives(NarrowestAddress(contenders, tied))

-----------------------------------------------------------------------------
(* The steps. The causes so far are a function from changes to sets of     *)
(* causes; a change that was held back has none.                           *)

Candidates(contenders) == UNION {c.candidates : c \in Range(contenders)}

Holders(change, contenders) ==
  {who \in DOMAIN contenders : change \in contenders[who].candidates}

(* The causes of more changes.                                             *)
And(cause, more) ==
  [change \in DOMAIN cause \cup DOMAIN more |->
     IF change \in DOMAIN cause THEN cause[change] ELSE more[change]]

(* Step 0: a renumbering that the dataset's link names one amendment for.  *)
NamedBy(change, contenders) ==
  One({who \in Holders(change, contenders) :
         contenders[who].id \in change.renumberedBy})

Step0(contenders) ==
  [change \in {x \in Candidates(contenders) : NamedBy(x, contenders) # {}} |->
     {<<who, Renumbering>> : who \in NamedBy(change, contenders)}]

Claims(change, contenders) ==
  {c \in {[who |-> who, shown |-> ShownOf(change, contenders, who)] :
            who \in Holders(change, contenders)} : c.shown # <<>>}

(* without_few_words.                                                      *)
Strong(claims) ==
  LET full(s) == ~s.few
  IN {c \in {[who |-> c.who, shown |-> SelectSeq(c.shown, full)] : c \in claims} :
        c.shown # <<>>}

(* provisions_that_carry: <<path, who, what it carries>>, the most.        *)
ThatCarry(contenders, cause) ==
  LET all == UNION {{<<change.path, c[1], Carries(c[2], contenders[c[1]])>> :
                       c \in cause[change]} : change \in DOMAIN cause}
  IN {p \in all : \A q \in all : q[1] = p[1] /\ q[2] = p[2] => q[3] <= p[3]}

(* addressed_inside: another amendment is addressed below the provision.   *)
AddressedInside(contenders, change, path, who) ==
  \E other \in Holders(change, contenders) \ {who} :
    \A candidate \in contenders[other].candidates : candidate.path # path

(* inside_carrying: the nearest provision around it that an amendment was  *)
(* given, when one amendment was; a set of at most one <<who, path>>.      *)
InsideCarrying(contenders, carrying, change) ==
  LET around == {p \in carrying : /\ IsBelow(change.path, p[1])
                                  /\ change \in contenders[p[2]].candidates}
      nearest == One({p \in around :
                        \A q \in around : Len(q[1]) <= Len(p[1])})
  IN {<<p[2], p[1]>> : p \in
        {p \in nearest :
           /\ \/ p[3] = Everything
              \/ p[3] = Removals /\ RemovesAProvision(change)
           /\ ~AddressedInside(contenders, change, p[1], p[2])}}

(* Step 1: the words. A change only a few words of a block show waits, and *)
(* goes by them where nothing around it carries it.                        *)
Step1(contenders, cause) ==
  LET asked == {[change |-> change, claims |-> Claims(change, contenders)] :
                  change \in Candidates(contenders) \ DOMAIN cause}
      clear == {q \in asked : Strong(q.claims) # {}}
      claimed(Q, change) == (CHOOSE q \in Q : q.change = change).claims
      said == And(cause, [change \in {q.change : q \in clear} |->
                ByWords(change, contenders, Strong(claimed(clear, change)))])
      carrying == ThatCarry(contenders, said)
      weak == {q \in asked \ clear :
                 /\ q.claims # {}
                 /\ InsideCarrying(contenders, carrying, q.change) = {}}
  IN And(said, [change \in {q.change : q \in weak} |->
                  ByWords(change, contenders, claimed(weak, change))])

(* Step 2: the provision it rewrote.                                       *)
Step2(contenders, cause) ==
  LET carrying == ThatCarry(contenders, cause)
      by(change) == InsideCarrying(contenders, carrying, change)
      carried == {change \in Candidates(contenders) \ DOMAIN cause :
                    by(change) # {}}
  IN And(cause, [change \in carried |->
                   {<<p[1], Inside(p[2])>> : p \in by(change)}])

HoldsEveryCandidate(c, change) ==
  \A other \in c.candidates : IsAtOrBelow(other.path, change.path)

(* The changes elimination leaves to one amendment.                        *)
Free(c, cause, given) ==
  IF c.onlyRenumbers \/ (given /\ ~c.rewrites) THEN {}
  ELSE {change \in c.candidates \ DOMAIN cause :
          /\ given => HoldsEveryCandidate(c, change)
          /\ CanHaveMade(c, change)}

(* Step 3: elimination.                                                    *)
Step3(contenders, cause) ==
  LET given(who) == \E change \in DOMAIN cause :
                      \E c \in cause[change] : c[1] = who
      free(who) == Free(contenders[who], cause, given(who))
      may == {who \in DOMAIN contenders :
                \/ ~QuotesAnything(contenders[who].evidence)
                \/ One(free(who)) # {}}
      wants == UNION {{[who |-> who, change |-> change] : change \in free(who)} :
                        who \in may}
      wanting(change) == {w.who : w \in {w \in wants : w.change = change}}
  IN And(cause, [change \in {w.change : w \in wants} |->
       {<<who, ByAddress>> :
          who \in RankByOverlap(change, contenders, wanting(change))}])

(* resolve: the causes of every change; those of no change were held back  *)
(* or left.                                                                *)
Resolved(contenders) ==
  Step3(contenders, Step2(contenders, Step1(contenders, Step0(contenders))))

(* The changes one contender caused.                                       *)
CausedBy(who, cause) ==
  {change \in DOMAIN cause : \E c \in cause[change] : c[1] = who}

(* why_stopped: what a contender that caused none was stopped by.          *)
WhyStopped(contenders, who, cause) ==
  LET c == contenders[who]
      heldBack == {change \in DOMAIN cause : cause[change] = {}}
  IN CASE c.candidates \cap heldBack # {} -> "tie"
       [] /\ QuotesAnything(c.evidence)
          /\ \A change \in c.candidates :
               ShownOf(change, contenders, who) = <<>> -> "words show nowhere"
       [] \A change \in c.candidates : ~WordsCanReach(c, change) ->
            "other units"
       [] \A change \in c.candidates : ~CanHaveMade(c, change) ->
            "other action"
       [] OTHER -> "another's"
=============================================================================
