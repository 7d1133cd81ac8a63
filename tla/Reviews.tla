------------------------------ MODULE Reviews ------------------------------
(***************************************************************************)
(* Reviews of citation links, and the carry of them across a rebuild.      *)
(*                                                                         *)
(* A review is a link of its own, identified by the link it names, its     *)
(* verdict and its reviewer; its time is provenance and is not part of its *)
(* identity, so the same reviewer saying the same again is one record with *)
(* a new time.  A reader reports the newest record naming a link.          *)
(*                                                                         *)
(* `old` is a dataset, `new` its rebuild, where a citation link may have   *)
(* another id.  settle records a verdict; carry-reviews copies the records *)
(* of `old` to the links of `new` that say the same thing.                 *)
(***************************************************************************)
EXTENDS Naturals

CONSTANTS
  Proc,        \* settle processes
  Reviewer,
  ReviewerOf,  \* the reviewer each process records for
  Link,        \* citation links, by id
  Again,       \* carry's map: <<old link, new link>> that say the same thing;
               \* a link may become several, and several may become one
  Settled,     \* the datasets settle is run on
  MaxTime,     \* bound: how many verdicts are given
  None

ASSUME ReviewerAssumption == ReviewerOf \in [Proc -> Reviewer]
ASSUME AgainAssumption == Again \subseteq Link \X Link
ASSUME SettledAssumption == Settled \subseteq {"old", "new"}
ASSUME MaxTimeAssumption == MaxTime \in Nat

VARIABLES
  reviews,   \* the time each record of each dataset carries, 0 when not held
  said,      \* every verdict given or carried, overwritten or not
  clock,     \* the next moment
  pending,   \* the verdict a settle process has timed and not recorded
  carrying,  \* a carry runs
  read,      \* the records of `old` it has read
  toCarry    \* the copies it has still to record

review_vars == <<reviews, said, clock, pending, carrying, read, toCarry>>

Dataset == {"old", "new"}

Verdict == {"confirmed", "refuted", "disputed"}

(* The three parts of a review a link id hashes.                           *)
Key == [link : Link, verdict : Verdict, reviewer : Reviewer]

(* The review records a dataset holds.                                     *)
Held(d) ==
  {[key |-> k, at |-> reviews[d][k]] : k \in {j \in Key : reviews[d][j] # 0}}

(* review::newest_naming: the newest of the records naming a link. Moments *)
(* differ, so no tie needs the reviewer's name.                            *)
NewestNaming(link, records) ==
  {r \in records :
     /\ r.key.link = link
     /\ \A other \in records : other.key.link = link => other.at <= r.at}

ReviewInit ==
  /\ reviews = [d \in Dataset |-> [k \in Key |-> 0]]
  /\ said = [d \in Dataset |-> {}]
  /\ clock = 1
  /\ pending = [p \in Proc |-> None]
  /\ carrying = FALSE
  /\ read = {}
  /\ toCarry = {}

(* Mutant: a record already held is left as it is.                         *)
WriteOnce(d, r) ==
  /\ reviews' = [reviews EXCEPT ![d][r.key] = IF @ = 0 THEN r.at ELSE @]
  /\ said' = [said EXCEPT ![d] = @ \cup {r}]

(* review::record through add_link. A review is Asserted, which no rule    *)
(* protects, so a record of the same id is replaced.                       *)
Write(d, r) ==
  /\ reviews' = [reviews EXCEPT ![d][r.key] = r.at]
  /\ said' = [said EXCEPT ![d] = @ \cup {r}]

(* settle takes the moment of a verdict,                                   *)
Decide(p) ==
  /\ pending[p] = None /\ clock <= MaxTime
  /\ \E d \in Settled, link \in Link, verdict \in Verdict :
       pending' = [pending EXCEPT ![p] =
         [dataset |-> d,
          key |-> [link |-> link, verdict |-> verdict, reviewer |-> ReviewerOf[p]],
          at |-> clock]]
  /\ clock' = clock + 1
  /\ UNCHANGED <<reviews, said, carrying, read, toCarry>>

(* and records it.                                                         *)
RecordVerdict(p) ==
  /\ pending[p] # None
  /\ Write(pending[p].dataset, [key |-> pending[p].key, at |-> pending[p].at])
  /\ pending' = [pending EXCEPT ![p] = None]
  /\ UNCHANGED <<clock, carrying, read, toCarry>>

Abandon(p) ==
  /\ pending[p] # None
  /\ pending' = [pending EXCEPT ![p] = None]
  /\ UNCHANGED <<reviews, said, clock, carrying, read, toCarry>>

(* Review::about: the same review, of another link.                        *)
About(link, key) ==
  [link |-> link, verdict |-> key.verdict, reviewer |-> key.reviewer]

(* The copies a carry of these records makes: each names a link that says  *)
(* the same, with the same verdict, reviewer and time.                     *)
Copies(records) ==
  {[key |-> About(pair[1][2], pair[2].key), at |-> pair[2].at] :
     pair \in {q \in Again \X records : q[1][1] = q[2].key.link}}

(* Mutant: only the review a reader reports is carried.                    *)
StartCarryReported ==
  /\ ~carrying
  /\ carrying' = TRUE
  /\ read' = Held("old")
  /\ toCarry' = Copies(UNION {NewestNaming(l, Held("old")) : l \in Link})
  /\ UNCHANGED <<reviews, said, clock, pending>>

(* carry reads every record of `old` before it writes one.                 *)
StartCarry ==
  /\ ~carrying
  /\ carrying' = TRUE
  /\ read' = Held("old")
  /\ toCarry' = Copies(Held("old"))
  /\ UNCHANGED <<reviews, said, clock, pending>>

(* One copy, in the order of the records' ids, which nothing fixes.        *)
CarryOne ==
  /\ carrying
  /\ \E r \in toCarry : Write("new", r) /\ toCarry' = toCarry \ {r}
  /\ UNCHANGED <<clock, pending, carrying, read>>

(* Mutant: what a carry read outlives it.                                  *)
EndCarryHolding ==
  /\ carrying
  /\ carrying' = FALSE
  /\ UNCHANGED <<reviews, said, clock, pending, read, toCarry>>

(* The carry ends, or is killed part way; either way it may be run again.  *)
EndCarry ==
  /\ carrying
  /\ carrying' = FALSE /\ read' = {} /\ toCarry' = {}
  /\ UNCHANGED <<reviews, said, clock, pending>>

ReviewNext ==
  \/ \E p \in Proc : Decide(p) \/ RecordVerdict(p) \/ Abandon(p)
  \/ StartCarry \/ CarryOne \/ EndCarry

ReviewSpec == ReviewInit /\ [][ReviewNext]_review_vars
-----------------------------------------------------------------------------
Times == 0..MaxTime

Pending == [dataset : Dataset, key : Key, at : Times \ {0}]

Records == [key : Key, at : Times \ {0}]

(* Every record bears a moment already past, and only a running carry has  *)
(* copies to record.                                                       *)
ReviewTypeOK ==
  /\ reviews \in [Dataset -> [Key -> Times]]
  /\ said \in [Dataset -> SUBSET Records]
  /\ clock \in 1..(MaxTime + 1)
  /\ pending \in [Proc -> Pending \cup {None}]
  /\ carrying \in BOOLEAN
  /\ read \in SUBSET Records
  /\ toCarry \in SUBSET Records
  /\ ~carrying => read = {} /\ toCarry = {}

(* Reviews of two old links that have one copy: the links became one link, *)
(* and one reviewer gave both the same verdict. The copies have one id and *)
(* two times, and the one written last stays, whichever it is.             *)
Merged(key) ==
  \E r, s \in said["old"] :
    /\ r.key.link # s.key.link
    /\ \A t \in {r, s} :
         <<t.key.link, key.link>> \in Again /\ About(key.link, t.key) = key

(* The newest record wins (ADR 0012): the verdict a reader reports of a    *)
(* link is the newest that was ever given of it there, or carried to it    *)
(* ("so the newest review still wins on the new link", carry.rs:21), where *)
(* no reviews of it merge. An overwritten record must never bring an older *)
(* verdict back: carry writes the old time with the old verdict            *)
(* (citation/carry.rs:343), which is safe only where `new` has no later    *)
(* record of the same verdict.                                             *)
NewestStands ==
  \A d \in Dataset, link \in Link :
    (d = "new" => \A key \in Key : key.link = link => ~Merged(key)) =>
      NewestNaming(link, Held(d)) = NewestNaming(link, said[d])

(* A carry that runs to its end leaves no review behind: every record of   *)
(* `old` that it read is on every link of `new` that says the same, with   *)
(* the time of one of the records that have this copy, or said again later,*)
(* whether or not an earlier carry was killed part way.                    *)
CarriedAll ==
  carrying /\ toCarry = {} =>
    \A r \in Copies(read) :
      \E c \in Copies(read) : c.key = r.key /\ reviews["new"][r.key] >= c.at
=============================================================================
