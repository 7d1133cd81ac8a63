------------------------- MODULE SqliteStoreProofs -------------------------
(***************************************************************************)
(* Theorems about SqliteStore: what the index promises, what a load made   *)
(* of several reads promises, and that the file is a dataset in memory.    *)
(***************************************************************************)
EXTENDS SqliteStore, FiniteSetTheorems, TLAPS

USE DEF Ordinal, Row

(* The dataset in the file hangs together as one in memory does.           *)
Sound ==
  /\ \A l \in Link : links[l] # None => expressions[About[l]] # None
  /\ \A l \in runs : links[l] # None

(* At each place of a load, what its runs still need is in the file or has *)
(* been read.                                                              *)
LoadSound ==
  /\ loading.at = "metadata" =>
       \A l \in loading.runs : links[l] # None
  /\ loading.at = "expressions" =>
       \A l \in loading.runs : links[l] # None /\ loading.laws[About[l]] # None
  /\ LoadedRunsHaveLinks

Inv == TypeOK /\ Sound /\ LoadSound

(* The steps that leave the documents as they are.                         *)
Beside ==
  \/ \E p \in Proc : LookUpLink(p) \/ WriteLink(p) \/ KillWriter(p)
  \/ \E l \in Link : RecordRun(l)
  \/ LoadMetadata \/ LoadExpressions \/ LoadLinks \/ EndLoad

LEMMA NoneApart ==
  /\ "machine" # None /\ "human" # None
  /\ \A tree \in Tree : tree # None
  /\ \A node \in Node : node # None
  BY NoneAssumption DEF Verification

(* A tree fits the index: it has nodes, and an ordinal for each.           *)
LEMMA TreeFits ==
  ASSUME NEW tree \in Tree
  PROVE  /\ Len(tree) \in 1..MaxNodes
         /\ \A i \in 1..Len(tree) : tree[i] \in Node
  BY MaxNodesAssumption

LEMMA InitInv == Init => Inv
  BY ExprAssumption, LinkAssumption
  DEF Init, Inv, TypeOK, Sound, LoadSound, LoadedRunsHaveLinks, Loading, NoLoad

LEMMA DatasetParts ==
  ASSUME NEW d \in Saved
  PROVE  /\ d.laws \in [Expr -> Tree \cup {None}]
         /\ d.links \in [Link -> Verification \cup {None}]
         /\ d.runs \in SUBSET Link
         /\ \A l \in Link : d.links[l] # None => d.laws[About[l]] # None
         /\ \A l \in d.runs : d.links[l] # None
  BY SavedAssumption DEF Dataset

LEMMA BesideKeepsInv ==
  ASSUME Inv, Beside
  PROVE  Inv' /\ UNCHANGED <<expressions, index>>
<1> USE DEF Inv, TypeOK, Sound
<1>1. CASE \E p \in Proc : LookUpLink(p)
  <2>1. PICK p \in Proc : LookUpLink(p)
    BY <1>1
  <2>2. PICK l \in Link, v \in Writes :
          /\ expressions[About[l]] # None
          /\ adding' = [adding EXCEPT ![p] = [link |-> l, verification |-> v]]
    BY <2>1 DEF LookUpLink
  <2>3. UNCHANGED <<expressions, index, links, runs, loading>>
    BY <2>1 DEF LookUpLink
  <2>4. /\ adding' \in [Proc -> [link : Link, verification : Writes] \cup {None}]
        /\ \A q \in Proc : adding'[q] # None => expressions[About[adding'[q].link]] # None
    BY <2>2
  <2> QED
    BY <2>3, <2>4 DEF LoadSound, LoadedRunsHaveLinks
<1>2. CASE \E p \in Proc : WriteLink(p)
  <2>1. PICK p \in Proc : WriteLink(p)
    BY <1>2
  <2>2. /\ adding[p] \in [link : Link, verification : Writes]
        /\ links' = [links EXCEPT ![adding[p].link] = adding[p].verification]
        /\ adding' = [adding EXCEPT ![p] = None]
        /\ UNCHANGED <<expressions, index, runs, loading>>
    BY <2>1 DEF WriteLink
  <2>3. adding[p].verification \in Verification /\ adding[p].verification # None
    BY <2>2, LinkAssumption, NoneAssumption
  <2>4. /\ links' \in [Link -> Verification \cup {None}]
        /\ \A l \in Link : links[l] # None => links'[l] # None
        /\ \A l \in Link : links'[l] # None => expressions[About[l]] # None
    BY <2>1, <2>2, <2>3 DEF WriteLink
  <2>5. /\ adding' \in [Proc -> [link : Link, verification : Writes] \cup {None}]
        /\ \A q \in Proc : adding'[q] # None => adding'[q] = adding[q]
    BY <2>2
  <2>6. LoadSound'
    BY <2>2, <2>4 DEF LoadSound, LoadedRunsHaveLinks, Loading, NoLoad
  <2> QED
    BY <2>2, <2>4, <2>5, <2>6
<1>3. CASE \E p \in Proc : KillWriter(p)
  BY <1>3 DEF KillWriter, LoadSound, LoadedRunsHaveLinks
<1>4. CASE \E l \in Link : RecordRun(l)
  BY <1>4 DEF RecordRun, LoadSound, LoadedRunsHaveLinks
<1>5. CASE LoadMetadata
  BY <1>5 DEF LoadMetadata, LoadSound, LoadedRunsHaveLinks, Loading
<1>6. CASE LoadExpressions
  BY <1>6, LinkAssumption DEF LoadExpressions, LoadSound, LoadedRunsHaveLinks, Loading, NoLoad
<1>7. CASE LoadLinks
  BY <1>7 DEF LoadLinks, LoadSound, LoadedRunsHaveLinks, Loading, NoLoad
<1>8. CASE EndLoad
  BY <1>8 DEF EndLoad, LoadSound, LoadedRunsHaveLinks, Loading, NoLoad
<1> QED
  BY <1>1, <1>2, <1>3, <1>4, <1>5, <1>6, <1>7, <1>8 DEF Beside

LEMMA AddKeepsInv ==
  ASSUME Inv, NEW e \in Expr, NEW tree \in Tree, AddExpression(e, tree)
  PROVE  Inv'
<1> USE DEF Inv, TypeOK
<1>1. /\ expressions' = [expressions EXCEPT ![e] = tree]
      /\ UNCHANGED <<links, runs, adding, loading>>
  BY DEF AddExpression
<1>2. /\ expressions' \in [Expr -> Tree \cup {None}]
      /\ \A f \in Expr : expressions[f] # None => expressions'[f] # None
  BY <1>1, NoneApart
<1>3. index' \in [Row -> Node \cup {None}]
  BY TreeFits DEF AddExpression, IndexElement
<1>4. Sound'
  BY <1>1, <1>2, LinkAssumption DEF Sound
<1>5. LoadSound'
  BY <1>1 DEF LoadSound, LoadedRunsHaveLinks
<1>6. \A p \in Proc : adding'[p] # None => expressions'[About[adding'[p].link]] # None
  BY <1>1, <1>2, LinkAssumption
<1> QED
  BY <1>1, <1>2, <1>3, <1>4, <1>5, <1>6

LEMMA SaveKeepsInv ==
  ASSUME Inv, NEW d \in Saved, Save(d)
  PROVE  Inv'
<1> USE DatasetParts DEF Inv, TypeOK
<1>1. index' \in [Row -> Node \cup {None}]
  BY TreeFits DEF Save
<1>2. /\ expressions' \in [Expr -> Tree \cup {None}]
      /\ links' \in [Link -> Verification \cup {None}]
      /\ runs' \in SUBSET Link
      /\ Sound'
  BY DEF Save, Sound
<1>3. /\ adding' \in [Proc -> [link : Link, verification : Writes] \cup {None}]
      /\ \A p \in Proc : adding'[p] = None
  BY DEF Save
<1>4. loading' \in Loading /\ LoadSound'
  BY DEF Save, Loading, LoadSound, LoadedRunsHaveLinks, NoLoad
<1> QED
  BY <1>1, <1>2, <1>3, <1>4

LEMMA NextKinds ==
  Next <=> \/ \E e \in Expr, tree \in Tree : AddExpression(e, tree)
           \/ \E d \in Saved : Save(d)
           \/ Beside
  BY DEF Next, Beside

LEMMA StepInv ==
  ASSUME Inv, [Next]_vars
  PROVE  Inv'
<1>1. CASE UNCHANGED vars
  BY <1>1 DEF vars, Inv, TypeOK, Sound, LoadSound, LoadedRunsHaveLinks
<1> QED
  BY <1>1, NextKinds, AddKeepsInv, SaveKeepsInv, BesideKeepsInv

LEMMA InvAlways == Spec => []Inv
  BY InitInv, StepInv, PTL DEF Spec

(* The tables hold values of their columns whatever the processes do, and  *)
(* no link is about to be written about a law the file does not hold.      *)
THEOREM TypeCorrect == Spec => []TypeOK
  BY InvAlways, PTL DEF Inv

(* A file loaded while it grows gives a dataset whose runs on record have  *)
(* their links, about laws it holds: to_memory reads the metadata first    *)
(* and the links last.                                                     *)
THEOREM LoadedRunsAlwaysHaveLinks == Spec => []LoadedRunsHaveLinks
  BY InvAlways, PTL DEF Inv, LoadSound
-----------------------------------------------------------------------------
LEMMA InitIndex == Init => IndexIsDocuments
  BY DEF Init, IndexIsDocuments

LEMMA StepIndex ==
  ASSUME Inv, IndexIsDocuments, [Next]_vars
  PROVE  IndexIsDocuments'
<1> USE DEF Inv, TypeOK
<1>1. ASSUME NEW e \in Expr, NEW tree \in Tree, AddExpression(e, tree)
      PROVE  IndexIsDocuments'
  <2> SUFFICES ASSUME NEW r \in Row
               PROVE  index'[r] = IF expressions'[r[1]] # None /\ r[2] <= Len(expressions'[r[1]])
                                  THEN expressions'[r[1]][r[2]] ELSE None
    BY DEF IndexIsDocuments
  <2>1. index'[r] = IF r[1] = e
                    THEN IF r[2] <= Len(tree) THEN tree[r[2]] ELSE None
                    ELSE index[r]
    BY <1>1 DEF AddExpression, IndexElement
  <2>2. expressions'[r[1]] = IF r[1] = e THEN tree ELSE expressions[r[1]]
    BY <1>1 DEF AddExpression
  <2> QED
    BY <2>1, <2>2, NoneApart DEF IndexIsDocuments
<1>2. ASSUME NEW d \in Saved, Save(d) PROVE IndexIsDocuments'
  BY <1>2 DEF Save, IndexIsDocuments
<1>3. CASE UNCHANGED <<expressions, index>>
  BY <1>3 DEF IndexIsDocuments
<1> QED
  BY <1>1, <1>2, <1>3, NextKinds, BesideKeepsInv DEF vars

(* The element index holds a row for each node of each document and none   *)
(* other, of however many documents replaced however often.                *)
THEOREM IndexIsAlwaysDocuments == Spec => []IndexIsDocuments
  BY InvAlways, InitIndex, StepIndex, PTL DEF Spec

(* What the index holds, in row form and in document form.                 *)
LEMMA RowsAreNodes ==
  ASSUME TypeOK, IndexIsDocuments
  PROVE  /\ \A r \in Rows :
              /\ r[1] \in Memory!Held /\ r[2] \in DOMAIN expressions[r[1]]
              /\ index[r] = expressions[r[1]][r[2]] /\ index[r] \in Node
         /\ \A e \in Memory!Held : \A i \in DOMAIN expressions[e] :
              \E r \in Rows : r[1] = e /\ r[2] = i
<1> USE DEF TypeOK
<1>1. ASSUME NEW r \in Rows
      PROVE  /\ r[1] \in Memory!Held /\ r[2] \in DOMAIN expressions[r[1]]
             /\ index[r] = expressions[r[1]][r[2]] /\ index[r] \in Node
  <2>1. /\ r[1] \in Memory!Held /\ r[2] \in 1..Len(expressions[r[1]])
        /\ index[r] = expressions[r[1]][r[2]]
    BY TreeFits DEF Rows, IndexIsDocuments, Memory!Held
  <2> QED
    BY <2>1, MaxNodesAssumption DEF Memory!Held, Rows
<1>2. ASSUME NEW e \in Memory!Held, NEW i \in DOMAIN expressions[e]
      PROVE  \E r \in Rows : r[1] = e /\ r[2] = i
  <2>1. e \in Expr /\ expressions[e] \in Tree
    BY DEF Memory!Held
  <2>2. /\ i \in 1..Len(expressions[e]) /\ Len(expressions[e]) \in 1..MaxNodes
        /\ expressions[e][i] \in Node
    BY <2>1, TreeFits, MaxNodesAssumption
  <2>3. PICK r \in Row : r[1] = e /\ r[2] = i
    <3>1. <<e, i>> \in Row
      BY <2>1, <2>2, MaxNodesAssumption
    <3> QED
      BY <3>1
  <2>4. index[r] = expressions[e][i]
    BY <2>1, <2>2, <2>3, NoneApart DEF IndexIsDocuments
  <2> QED
    BY <2>2, <2>3, <2>4, NoneApart DEF Rows
<1> QED
  BY <1>1, <1>2

LEMMA HasNodeSame ==
  ASSUME TypeOK, IndexIsDocuments, NEW path \in Path
  PROVE  SqlHasNode(path) <=> Memory!HasNode(path)
  BY RowsAreNodes DEF SqlHasNode, Memory!HasNode

(* has_node, which SQLite answers from the index without reading a         *)
(* document, is true exactly where a document held has a node at the path. *)
THEOREM HasNodeIsTrue ==
  Spec => [](\A path \in Path : SqlHasNode(path) <=> Memory!HasNode(path))
<1>1. Inv /\ IndexIsDocuments => \A path \in Path : SqlHasNode(path) <=> Memory!HasNode(path)
  BY HasNodeSame DEF Inv
<1> QED
  BY <1>1, InvAlways, IndexIsAlwaysDocuments, PTL
(* What a locator's WHERE clause reaches, the walk's two rules reach too,  *)
(* but for a row that LIKE takes for beneath the path asked and is not.    *)
LEMMA SameScope ==
  ASSUME NEW locator \in Locator, NEW r \in Rows, index[r] \in Node
  PROVE  LET reached == /\ Memory!LocatesExpression(locator, r[1])
                        /\ Memory!LocatesPath(locator, index[r].path)
         IN /\ reached => InScope(locator, r)
            /\ LikeIsExact(locator) => (InScope(locator, r) <=> reached)
<1>1. /\ locator.window \in (Date \X Date) \cup {Every}
      /\ locator.path \in Path \cup {Every}
      /\ locator.matching \in {"exact", "subtree"}
      /\ index[r].path \in Path
  BY DEF Locator, Node
<1>2. r[1] \in Nat \X Nat /\ Date \subseteq Nat
  BY ExprAssumption DEF Date, Rows
<1>3. locator.window # Every =>
        (r[1][2] \in locator.window[1]..locator.window[2]
           <=> r[1][2] >= locator.window[1] /\ r[1][2] <= locator.window[2])
  BY <1>1, <1>2
<1>4. /\ Memory!IsPrefix(locator.path, index[r].path) <=> IsPrefix(locator.path, index[r].path)
      /\ locator.path # Every => IsPrefix(locator.path, locator.path)
  BY <1>1, PathAssumption DEF IsPrefix, Memory!IsPrefix
<1>5. locator.path # Every =>
        (IsPrefix(locator.path, index[r].path)
           => index[r].path = locator.path \/ LikeBeneath(locator.path, index[r].path))
  BY <1>1, LikesAssumption DEF LikeBeneath
<1>6. Memory!LocatesExpression(locator, r[1]) <=>
        /\ locator.work # Every => r[1][1] = locator.work
        /\ locator.window # Every => r[1][2] >= locator.window[1] /\ r[1][2] <= locator.window[2]
  BY <1>3 DEF Memory!LocatesExpression
<1> DEFINE asks == locator.path # Every =>
             \/ index[r].path = locator.path
             \/ locator.matching = "subtree" /\ LikeBeneath(locator.path, index[r].path)
<1>7. /\ Memory!LocatesPath(locator, index[r].path) => asks
      /\ LikeIsExact(locator) => (asks <=> Memory!LocatesPath(locator, index[r].path))
  <2>1. CASE locator.path = Every
    BY <2>1 DEF Memory!LocatesPath
  <2>2. CASE locator.path # Every /\ locator.matching = "exact"
    BY <2>2 DEF Memory!LocatesPath
  <2>3. CASE locator.path # Every /\ locator.matching = "subtree"
    <3>1. Memory!LocatesPath(locator, index[r].path) <=> IsPrefix(locator.path, index[r].path)
      BY <1>4, <2>3 DEF Memory!LocatesPath
    <3>2. LikeIsExact(locator) =>
            (LikeBeneath(locator.path, index[r].path) => IsPrefix(locator.path, index[r].path))
      BY <2>3 DEF LikeIsExact
    <3> QED BY <1>4, <1>5, <2>3, <3>1, <3>2
  <2> QED
    BY <1>1, <2>1, <2>2, <2>3
<1> QED
  BY <1>6, <1>7 DEF InScope

LEMMA HoldsAnySame ==
  ASSUME TypeOK, IndexIsDocuments, NEW locator \in Locator
  PROVE  /\ Memory!HoldsAny(locator) => SqlHoldsAny(locator)
         /\ LikeIsExact(locator) => (SqlHoldsAny(locator) <=> Memory!HoldsAny(locator))
<1> DEFINE reached(r) == /\ Memory!LocatesExpression(locator, r[1])
                         /\ Memory!LocatesPath(locator, index[r].path)
<1>1. \A r \in Rows : /\ reached(r) => InScope(locator, r)
                      /\ LikeIsExact(locator) => (InScope(locator, r) <=> reached(r))
  BY SameScope, RowsAreNodes
<1>2. Memory!HoldsAny(locator) <=> \E r \in Rows : reached(r)
  BY RowsAreNodes DEF Memory!HoldsAny
<1> HIDE DEF reached
<1> QED
  BY <1>1, <1>2 DEF SqlHoldsAny

(* holds_any, which SQLite answers from the index without reading a        *)
(* document, never misses what a walk of the documents finds, and finds no *)
(* more than it under every locator whose path LIKE takes no other path's  *)
(* rows for (storage/sqlite.rs:72).                                        *)
THEOREM HoldsAnyIsTrue ==
  Spec => [](\A locator \in Locator :
               /\ Memory!HoldsAny(locator) => SqlHoldsAny(locator)
               /\ LikeIsExact(locator) => (SqlHoldsAny(locator) <=> Memory!HoldsAny(locator)))
<1>1. Inv /\ IndexIsDocuments =>
        \A locator \in Locator :
          /\ Memory!HoldsAny(locator) => SqlHoldsAny(locator)
          /\ LikeIsExact(locator) => (SqlHoldsAny(locator) <=> Memory!HoldsAny(locator))
  BY HoldsAnySame DEF Inv
<1> QED
  BY <1>1, InvAlways, IndexIsAlwaysDocuments, PTL
-----------------------------------------------------------------------------
(* No command writes a link with a person's verification.                  *)
OnlyMachines == Writes \subseteq {"machine"}

(* What a process has looked up stays free to be written: a link becomes a *)
(* person's only where a dataset is saved, and then nobody is in between.  *)
AddersMayWrite == \A p \in Proc : adding[p] # None => links[adding[p].link] # "human"

LEMMA InitAdders == Init => AddersMayWrite
  BY DEF Init, AddersMayWrite

LEMMA StepAdders ==
  ASSUME OnlyMachines, Inv, AddersMayWrite, [Next]_vars
  PROVE  AddersMayWrite'
<1> USE DEF Inv, TypeOK, AddersMayWrite
<1>1. ASSUME NEW p \in Proc, LookUpLink(p) PROVE AddersMayWrite'
  BY <1>1 DEF LookUpLink
<1>2. ASSUME NEW p \in Proc, WriteLink(p) PROVE AddersMayWrite'
  <2>1. adding[p].verification = "machine"
    BY <1>2 DEF WriteLink, OnlyMachines
  <2> QED
    BY <1>2, <2>1 DEF WriteLink
<1>3. ASSUME NEW p \in Proc, KillWriter(p) PROVE AddersMayWrite'
  BY <1>3 DEF KillWriter
<1>4. ASSUME NEW d \in Saved, Save(d) PROVE AddersMayWrite'
  BY <1>4 DEF Save
<1>5. CASE UNCHANGED <<links, adding>>
  BY <1>5
<1> QED
  BY <1>1, <1>2, <1>3, <1>4, <1>5
  DEF Next, vars, AddExpression, RecordRun, LoadMetadata, LoadExpressions, LoadLinks, EndLoad

LEMMA StepImplements ==
  ASSUME Inv, AddersMayWrite, [Next]_vars
  PROVE  [Memory!Next]_(Memory!vars)
<1> USE DEF Inv, TypeOK
<1>1. ASSUME NEW e \in Expr, NEW tree \in Tree, AddExpression(e, tree) PROVE Memory!Next
  BY <1>1 DEF AddExpression, Memory!Next, Memory!AddExpression
<1>2. ASSUME NEW p \in Proc, WriteLink(p) PROVE Memory!Next
  <2>1. adding[p].link \in Link /\ adding[p].verification \in Writes
    BY <1>2 DEF WriteLink
  <2>2. Memory!AddLink(adding[p].link, adding[p].verification)
    BY <1>2 DEF WriteLink, AddersMayWrite, Memory!AddLink
  <2> QED
    BY <2>1, <2>2 DEF Memory!Next
<1>3. ASSUME NEW l \in Link, RecordRun(l) PROVE Memory!Next
  BY <1>3 DEF RecordRun, Memory!Next, Memory!RecordRun
<1>4. ASSUME NEW d \in Saved, Save(d) PROVE Memory!Next
  BY <1>4 DEF Save, Memory!Next, Memory!BecomeAnother
<1>5. CASE UNCHANGED <<expressions, links, runs>>
  BY <1>5 DEF Memory!vars
<1> QED
  BY <1>1, <1>2, <1>3, <1>4, <1>5
  DEF Next, vars, LookUpLink, KillWriter, LoadMetadata, LoadExpressions, LoadLinks, EndLoad

(* However many commands write links, each in two statements, while        *)
(* readers load the file, the file goes through the states of one dataset  *)
(* in memory, where add_link is one step: if no command writes a link with *)
(* a person's verification, none takes one away.                           *)
THEOREM ImplementsMemory == ASSUME OnlyMachines PROVE Spec => KeepsMemory
<1>1. Init => Memory!Init
  BY DEF Init, Memory!Init
<1>2. Inv /\ AddersMayWrite /\ [Next]_vars => AddersMayWrite'
  BY StepAdders
<1>3. Inv /\ AddersMayWrite /\ [Next]_vars => [Memory!Next]_(Memory!vars)
  BY StepImplements
<1> QED
  BY <1>1, <1>2, <1>3, InvAlways, InitAdders, PTL DEF Spec, KeepsMemory, Memory!Spec
-----------------------------------------------------------------------------
HIDE DEF Ordinal, Row

(* Toward the answers of the two: lists, orders, and lists laid end to     *)
(* end. A list that goes up by an order is determined by its members, so   *)
(* two lists are the same when they both go up and have the same members.  *)

(* A set of numbers that is not empty has a least one.                     *)
LEMMA LeastMember ==
  ASSUME NEW T \in SUBSET Nat, T # {}
  PROVE  \E m \in T : \A k \in T : m <= k
<1> DEFINE R == {ss \in Nat \X Nat : ss[1] < ss[2]}
<1>1. IsWellFoundedOn(R, Nat)
  BY NatLessThanWellFounded DEF OpToRel
<1>2. PICK m \in T : \A k \in T : ~ (<<k, m>> \in R)
  <2> HIDE DEF R
  <2> QED BY <1>1, WFMin
<1>3. ASSUME NEW k \in T PROVE m <= k
  <2>1. k \in Nat /\ m \in Nat
    OBVIOUS
  <2>2. ~ (<<k, m>> \in R)
    BY <1>2
  <2>3. ~ (k < m)
    BY <2>1, <2>2
  <2> QED BY <2>1, <2>3
<1> QED BY <1>3

(* R orders the members of S one after another.                            *)
Orders(R, S) ==
  /\ \A x \in S : <<x, x>> \notin R
  /\ \A x, y, z \in S : <<x, y>> \in R /\ <<y, z>> \in R => <<x, z>> \in R
  /\ \A x, y \in S : x = y \/ <<x, y>> \in R \/ <<y, x>> \in R

Increasing(s, R) == \A i, j \in DOMAIN s : i < j => <<s[i], s[j]>> \in R

Below(S, R, x) == {y \in S : <<y, x>> \in R}

(* InOrder, by a relation instead of an operator.                          *)
Ordered(S, R) ==
  [i \in 1..Cardinality(S) |-> CHOOSE x \in S : Cardinality(Below(S, R, x)) = i - 1]

(* A list of the members of S that goes up is the list of them in order.   *)
LEMMA OnlyOneList ==
  ASSUME NEW S, NEW R, Orders(R, S), NEW s \in Seq(S), Range(s) = S, Increasing(s, R)
  PROVE  s = Ordered(S, R)
<1> DEFINE n == Len(s)
<1>1. n \in Nat /\ DOMAIN s = 1..n /\ \A i \in 1..n : s[i] \in S
  OBVIOUS
<1>2. ASSUME NEW i \in 1..n, NEW j \in 1..n
      PROVE  /\ i < j <=> <<s[i], s[j]>> \in R
             /\ s[i] = s[j] => i = j
  <2>1. i < j \/ i = j \/ j < i
    BY <1>1
  <2> HIDE DEF n
  <2> QED BY <1>1, <2>1 DEF Increasing, Orders
<1> HIDE DEF n
<1>3. ASSUME NEW k \in 0..n
      PROVE  /\ IsFiniteSet({s[i] : i \in 1..k})
             /\ Cardinality({s[i] : i \in 1..k}) = k
  <2> DEFINE T == {s[i] : i \in 1..k}
             f == [i \in 1..k |-> s[i]]
  <2>1. \A i \in 1..k : i \in 1..n
    BY <1>1
  <2>2. f \in Surjection(1..k, T)
    BY DEF Surjection
  <2>3. f \in Injection(1..k, T)
    <3>1. f \in [1..k -> T]
      OBVIOUS
    <3>2. \A i, j \in 1..k : f[i] = f[j] => i = j
      BY <1>2, <2>1
    <3> HIDE DEF f, T
    <3> QED BY <3>1, <3>2 DEF Injection, IsInjective
  <2>4. IsFiniteSet(1..k) /\ Cardinality(1..k) = k
    BY <1>1, FS_Interval
  <2> HIDE DEF T, f
  <2>5. IsFiniteSet(T) /\ Cardinality(T) = Cardinality(1..k)
    BY <2>2, <2>3, <2>4, FS_Surjection
  <2> QED BY <2>4, <2>5 DEF T
<1>4. S = {s[i] : i \in 1..n}
  BY <1>1 DEF Range
<1>5. Cardinality(S) = n
  <2>1. n \in 0..n
    BY <1>1
  <2> QED BY <1>3, <1>4, <2>1
<1>6. ASSUME NEW i \in 1..n PROVE Cardinality(Below(S, R, s[i])) = i - 1
  <2>1. \A j \in 1..n : j \in 1..(i - 1) <=> j < i
    BY <1>1
  <2>2. Below(S, R, s[i]) = {s[j] : j \in 1..(i - 1)}
    <3>1. ASSUME NEW y \in Below(S, R, s[i]) PROVE y \in {s[j] : j \in 1..(i - 1)}
      <4>1. PICK j \in 1..n : y = s[j] /\ <<s[j], s[i]>> \in R
        BY <1>4 DEF Below
      <4> QED BY <1>2, <2>1, <4>1
    <3>2. ASSUME NEW j \in 1..(i - 1) PROVE s[j] \in Below(S, R, s[i])
      <4>1. j \in 1..n /\ j < i
        BY <1>1
      <4> QED BY <1>1, <1>2, <4>1 DEF Below
    <3> QED BY <3>1, <3>2
  <2>3. i - 1 \in 0..n
    BY <1>1
  <2> QED BY <1>3, <2>2, <2>3
<1>7. ASSUME NEW i \in 1..n
      PROVE  s[i] = CHOOSE x \in S : Cardinality(Below(S, R, x)) = i - 1
  <2>1. ASSUME NEW x \in S, Cardinality(Below(S, R, x)) = i - 1 PROVE x = s[i]
    <3>1. PICK j \in 1..n : x = s[j]
      BY <1>4
    <3>2. j - 1 = i - 1
      BY <1>6, <2>1, <3>1
    <3>3. j = i
      BY <1>1, <3>2
    <3> QED BY <3>1, <3>3
  <2> QED BY <1>1, <1>6, <2>1
<1>8. s = [i \in 1..n |-> s[i]]
  BY <1>1
<1> QED BY <1>5, <1>7, <1>8 DEF Ordered

(* And every finite set has one.                                           *)
LEMMA OrderedIs ==
  ASSUME NEW S, IsFiniteSet(S), NEW R, Orders(R, S)
  PROVE  /\ Ordered(S, R) \in Seq(S)
         /\ Range(Ordered(S, R)) = S
         /\ Increasing(Ordered(S, R), R)
<1> DEFINE n == Cardinality(S)
           rank(x) == Cardinality(Below(S, R, x))
           s == Ordered(S, R)
<1>1. n \in Nat
  BY FS_CardinalityType
<1>2. ASSUME NEW x \in S
      PROVE  IsFiniteSet(Below(S, R, x)) /\ rank(x) \in 0..(n - 1)
  <2>1. Below(S, R, x) \in SUBSET S /\ x \notin Below(S, R, x)
    BY DEF Below, Orders
  <2>2. IsFiniteSet(Below(S, R, x)) /\ rank(x) <= n /\ (n = rank(x) => S = Below(S, R, x))
    BY <2>1, FS_Subset
  <2>3. rank(x) \in Nat
    BY <2>2, FS_CardinalityType
  <2>4. n # rank(x)
    BY <2>1, <2>2
  <2> HIDE DEF n, rank
  <2> QED BY <1>1, <2>2, <2>3, <2>4
<1>3. ASSUME NEW x \in S, NEW y \in S, <<x, y>> \in R
      PROVE  rank(x) < rank(y)
  <2>1. Below(S, R, x) \in SUBSET Below(S, R, y) /\ x \in Below(S, R, y) /\ x \notin Below(S, R, x)
    BY <1>3 DEF Below, Orders
  <2>2. rank(x) <= rank(y) /\ rank(x) # rank(y)
    BY <1>2, <2>1, FS_Subset
  <2>3. rank(x) \in Int /\ rank(y) \in Int
    BY <1>2
  <2> HIDE DEF rank
  <2> QED BY <2>2, <2>3
<1> DEFINE f == [x \in S |-> rank(x)]
<1>4. f \in Injection(S, 0..(n - 1))
  <2>1. ASSUME NEW x \in S, NEW y \in S, rank(x) = rank(y) PROVE x = y
    <3>1. rank(x) \in Int /\ rank(y) \in Int
      BY <1>2
    <3>2. <<x, y>> \notin R /\ <<y, x>> \notin R
      <4> HIDE DEF rank
      <4> QED BY <1>3, <2>1, <3>1
    <3> QED BY <3>2 DEF Orders
  <2>2. \A x \in S : f[x] = rank(x) /\ rank(x) \in 0..(n - 1)
    BY <1>2
  <2>3. f \in [S -> 0..(n - 1)]
    BY <2>2
  <2> HIDE DEF rank
  <2>4. \A x, y \in S : f[x] = f[y] => x = y
    BY <2>1, <2>2
  <2> HIDE DEF f
  <2> QED BY <2>3, <2>4 DEF Injection, IsInjective
<1>5. IsFiniteSet(0..(n - 1)) /\ Cardinality(0..(n - 1)) = n
  <2>1. IsFiniteSet(0..(n - 1)) /\ Cardinality(0..(n - 1)) = IF 0 > n - 1 THEN 0 ELSE n - 1 - 0 + 1
    BY <1>1, FS_Interval
  <2> HIDE DEF n
  <2> QED BY <1>1, <2>1
<1>6. f \in Surjection(S, 0..(n - 1))
  <2> HIDE DEF f
  <2> QED BY <1>4, <1>5, FS_Injection
<1>7. ASSUME NEW i \in 1..n
      PROVE  s[i] \in S /\ rank(s[i]) = i - 1
  <2>1. i - 1 \in 0..(n - 1)
    BY <1>1
  <2>2. s[i] = CHOOSE x \in S : rank(x) = i - 1
    BY DEF Ordered
  <2>3. PICK x \in S : f[x] = i - 1
    BY <1>6, <2>1 DEF Surjection
  <2>4. rank(x) = i - 1
    BY <2>3
  <2> HIDE DEF s, rank, f
  <2> QED BY <2>2, <2>4
<1>8. DOMAIN s = 1..n
  BY DEF Ordered
<1>9. s \in Seq(S)
  <2>1. s = [i \in 1..n |-> s[i]]
    BY DEF Ordered
  <2> HIDE DEF s, rank
  <2>2. s \in [1..n -> S]
    BY <1>7, <2>1
  <2> QED BY <1>1, <2>2
<1>10. Range(s) = S
  <2>1. ASSUME NEW x \in S PROVE \E i \in 1..n : s[i] = x
    <3> DEFINE i == f[x] + 1
    <3>1. f[x] \in 0..(n - 1)
      BY <1>2
    <3> HIDE DEF s, f, n
    <3>2. i \in 1..n /\ i - 1 = f[x]
      BY <1>1, <3>1
    <3>3. s[i] \in S /\ rank(s[i]) = f[x]
      <4> HIDE DEF i
      <4> QED BY <1>7, <3>2
    <3>4. f[s[i]] = f[x]
      BY <3>3 DEF f
    <3>5. s[i] = x
      <4> HIDE DEF i
      <4> QED BY <1>4, <3>3, <3>4 DEF Injection, IsInjective
    <3> QED BY <3>2, <3>5
  <2> HIDE DEF s
  <2> QED BY <1>7, <1>8, <2>1 DEF Range
<1>11. Increasing(s, R)
  <2>1. ASSUME NEW i \in 1..n, NEW j \in 1..n, i < j PROVE <<s[i], s[j]>> \in R
    <3>1. i - 1 < j - 1 /\ i - 1 \in Int /\ j - 1 \in Int
      BY <1>1, <2>1
    <3>2. rank(s[i]) < rank(s[j]) /\ rank(s[i]) \in Int /\ rank(s[j]) \in Int
      <4> HIDE DEF rank, s
      <4> QED BY <1>7, <3>1
    <3>3. ~ (<<s[j], s[i]>> \in R) /\ s[i] # s[j]
      <4> HIDE DEF s, n
      <4>1. s[i] \in S /\ s[j] \in S
        BY <1>7
      <4>2. <<s[j], s[i]>> \in R => rank(s[j]) < rank(s[i])
        BY <1>3, <4>1
      <4> HIDE DEF rank
      <4> QED BY <3>2, <4>2
    <3> HIDE DEF s, rank
    <3> QED BY <1>7, <3>3 DEF Orders
  <2> HIDE DEF s
  <2> QED BY <1>8, <2>1 DEF Increasing
<1> QED BY <1>9, <1>10, <1>11

(* Sequences laid end to end, one after another.                           *)
Laid(g, seqs) ==
  \A i \in 1..Len(seqs) : g[i] = IF i = 1 THEN seqs[i] ELSE g[i - 1] \o seqs[i]

(* FlattenSeq is the last of the lists that lay them so.                   *)
LEMMA FlattenIsLaid ==
  ASSUME NEW S, NEW seqs \in Seq(Seq(S)), Len(seqs) # 0
  PROVE  \E g : Laid(g, seqs) /\ FlattenSeq(seqs) = g[Len(seqs)]
<1> DEFINE N == Len(seqs)
           eqn(f, i) == f[i] = IF i = 1 THEN seqs[i] ELSE f[i - 1] \o seqs[i]
           rec(f) == f = [i \in 1..N |-> IF i = 1 THEN seqs[i] ELSE f[i - 1] \o seqs[i]]
           upto(n) == \E f \in [1..n -> Seq(S)] : \A i \in 1..n : eqn(f, i)
           flatten == CHOOSE f : rec(f)
           open == {n \in Nat : n <= N /\ ~upto(n)}
<1>1. N \in Nat \ {0} /\ DOMAIN seqs = 1..N /\ \A i \in 1..N : seqs[i] \in Seq(S)
  OBVIOUS
<1>2. open = {}
  <2>1. SUFFICES ASSUME open # {} PROVE FALSE
    OBVIOUS
  <2>2. PICK n \in open : \A m \in open : n <= m
    <3>1. open \in SUBSET Nat
      OBVIOUS
    <3> HIDE DEF open
    <3> QED BY <2>1, <3>1, LeastMember
  <2>3. n # 0
    <3> DEFINE e == [i \in 1..0 |-> <<>>]
    <3>1. e \in [1..0 -> Seq(S)] /\ 1..0 = {}
      OBVIOUS
    <3> HIDE DEF e
    <3>2. \A i \in 1..0 : eqn(e, i)
      BY <3>1
    <3>3. upto(0)
      BY <3>1, <3>2
    <3> HIDE DEF upto
    <3> QED BY <2>2, <3>3
  <2>4. n \in 1..N /\ n - 1 \in Nat /\ n - 1 <= N /\ n - 1 \notin open
    <3> HIDE DEF upto, N
    <3> QED BY <1>1, <2>2, <2>3
  <2>5. PICK f \in [1..(n - 1) -> Seq(S)] : \A i \in 1..(n - 1) : eqn(f, i)
    <3>1. upto(n - 1)
      <4> HIDE DEF upto
      <4> QED BY <2>4
    <3> QED BY <3>1
  <2> DEFINE last == IF n = 1 THEN seqs[n] ELSE f[n - 1] \o seqs[n]
             g == [i \in 1..n |-> IF i = n THEN last ELSE f[i]]
  <2>6. last \in Seq(S)
    BY <1>1, <2>4, <2>5
  <2> HIDE DEF last
  <2>7. g \in [1..n -> Seq(S)]
    BY <2>4, <2>5, <2>6
  <2>8. \A i \in 1..(n - 1) : g[i] = f[i]
    BY <2>4
  <2>9. g[n] = last
    BY <2>4
  <2> HIDE DEF g
  <2>10. \A i \in 1..n : eqn(g, i)
    <3>1. ASSUME NEW i \in 1..(n - 1) PROVE eqn(g, i)
      <4>1. i # 1 => i - 1 \in 1..(n - 1)
        BY <2>4
      <4> QED BY <2>5, <2>8, <4>1
    <3>2. eqn(g, n)
      <4>1. n # 1 => n - 1 \in 1..(n - 1)
        BY <2>4
      <4> QED BY <2>8, <2>9, <4>1 DEF last
    <3> QED BY <2>4, <3>1, <3>2
  <2> QED BY <2>2, <2>7, <2>10
<1>3. PICK f \in [1..N -> Seq(S)] : \A i \in 1..N : eqn(f, i)
  <2>1. upto(N)
    <3> HIDE DEF upto, N
    <3> QED BY <1>1, <1>2
  <2> QED BY <2>1
<1>4. rec(f)
  BY <1>3
<1>5. rec(flatten)
  <2> HIDE DEF rec
  <2> QED BY <1>4
<1>6. \A i \in 1..N : eqn(flatten, i)
  <2> HIDE DEF flatten
  <2> QED BY <1>5
<1>7. FlattenSeq(seqs) = flatten[N]
  BY DEF FlattenSeq
<1>8. Laid(flatten, seqs)
  BY <1>6 DEF Laid
<1> QED BY <1>7, <1>8

(* A list that goes up, and above it another.                              *)
LEMMA LaidUp ==
  ASSUME NEW S, NEW R, NEW s \in Seq(S), NEW t \in Seq(S),
         Increasing(s, R), Increasing(t, R),
         \A x \in Range(s), y \in Range(t) : <<x, y>> \in R
  PROVE  /\ s \o t \in Seq(S) /\ Range(s \o t) = Range(s) \cup Range(t)
         /\ Increasing(s \o t, R)
<1> DEFINE u == s \o t
<1>1. /\ u \in Seq(S) /\ Len(u) = Len(s) + Len(t)
      /\ \A i \in DOMAIN s : i \in DOMAIN u /\ u[i] = s[i]
      /\ \A i \in DOMAIN t : Len(s) + i \in DOMAIN u /\ u[Len(s) + i] = t[i]
  OBVIOUS
<1>2. \A i \in DOMAIN u :
        \/ i \in DOMAIN s /\ u[i] = s[i] /\ i <= Len(s)
        \/ i - Len(s) \in DOMAIN t /\ u[i] = t[i - Len(s)] /\ i > Len(s)
  OBVIOUS
<1>3. DOMAIN u \in SUBSET Nat /\ Len(s) \in Nat /\ DOMAIN s \in SUBSET Nat /\ DOMAIN t \in SUBSET Nat
  OBVIOUS
<1> HIDE DEF u
<1>4. Range(u) = Range(s) \cup Range(t)
  BY <1>1, <1>2 DEF Range
<1>5. ASSUME NEW i \in DOMAIN u, NEW j \in DOMAIN u, i < j PROVE <<u[i], u[j]>> \in R
  <2>1. CASE i <= Len(s) /\ j <= Len(s)
    BY <1>2, <1>3, <1>5, <2>1 DEF Increasing
  <2>2. CASE i <= Len(s) /\ j > Len(s)
    <3>1. u[i] \in Range(s) /\ u[j] \in Range(t)
      BY <1>2, <1>3, <2>2 DEF Range
    <3> QED BY <3>1
  <2>3. CASE i > Len(s)
    <3>1. /\ i - Len(s) \in DOMAIN t /\ u[i] = t[i - Len(s)]
          /\ j - Len(s) \in DOMAIN t /\ u[j] = t[j - Len(s)]
          /\ i - Len(s) < j - Len(s)
      BY <1>2, <1>3, <1>5, <2>3
    <3> QED BY <3>1 DEF Increasing
  <2> QED BY <1>3, <2>1, <2>2, <2>3
<1> QED BY <1>1, <1>4, <1>5 DEF Increasing, u

(* Lists that go up, each above those before it, go up laid end to end.    *)
LEMMA FlattenGoesUp ==
  ASSUME NEW S, NEW R, NEW seqs \in Seq(Seq(S)),
         \A i \in DOMAIN seqs : Increasing(seqs[i], R),
         \A i, j \in DOMAIN seqs : i < j =>
           \A x \in Range(seqs[i]), y \in Range(seqs[j]) : <<x, y>> \in R
  PROVE  /\ FlattenSeq(seqs) \in Seq(S)
         /\ Range(FlattenSeq(seqs)) = UNION {Range(seqs[i]) : i \in DOMAIN seqs}
         /\ Increasing(FlattenSeq(seqs), R)
<1>1. CASE Len(seqs) = 0
  <2>1. FlattenSeq(seqs) = seqs /\ seqs = <<>>
    BY <1>1 DEF FlattenSeq
  <2> QED BY <2>1 DEF Range, Increasing
<1>2. CASE Len(seqs) # 0
  <2> DEFINE N == Len(seqs)
  <2>1. N \in Nat \ {0} /\ DOMAIN seqs = 1..N /\ \A i \in 1..N : seqs[i] \in Seq(S)
    BY <1>2
  <2>2. PICK g : Laid(g, seqs) /\ FlattenSeq(seqs) = g[N]
    BY <1>2, FlattenIsLaid
  <2>3. \A i \in 1..N : g[i] = IF i = 1 THEN seqs[i] ELSE g[i - 1] \o seqs[i]
    BY <2>2 DEF Laid
  <2> DEFINE told(n) == /\ g[n] \in Seq(S)
                        /\ Range(g[n]) = UNION {Range(seqs[i]) : i \in 1..n}
                        /\ Increasing(g[n], R)
             wrong == {n \in 1..N : ~told(n)}
  <2>4. wrong = {}
    <3>1. SUFFICES ASSUME wrong # {} PROVE FALSE
      OBVIOUS
    <3>2. PICK n \in wrong : \A m \in wrong : n <= m
      <4>1. wrong \in SUBSET Nat
        OBVIOUS
      <4> HIDE DEF wrong
      <4> QED BY <3>1, <4>1, LeastMember
    <3>3. CASE n = 1
      <4>1. 1 \in 1..N
        BY <2>1
      <4>2. g[1] = seqs[1] /\ seqs[1] \in Seq(S) /\ Increasing(seqs[1], R)
        BY <2>1, <2>3, <4>1
      <4>3. UNION {Range(seqs[i]) : i \in 1..1} = Range(seqs[1])
        OBVIOUS
      <4> QED BY <3>2, <3>3, <4>2, <4>3
    <3>4. CASE n # 1
      <4>1. n \in 1..N /\ n - 1 \in 1..N /\ n - 1 \notin wrong
        <5> HIDE DEF told, N
        <5> QED BY <2>1, <3>2, <3>4
      <4>2. told(n - 1) /\ g[n] = g[n - 1] \o seqs[n] /\ seqs[n] \in Seq(S)
            /\ Increasing(seqs[n], R)
        BY <2>1, <2>3, <3>4, <4>1
      <4>3. 1..n = (1..(n - 1)) \cup {n} /\ \A i \in 1..(n - 1) : i \in 1..N /\ i < n
        BY <2>1, <4>1
      <4>4. \A x \in Range(g[n - 1]), y \in Range(seqs[n]) : <<x, y>> \in R
        BY <2>1, <4>1, <4>2, <4>3
      <4>5. /\ g[n] \in Seq(S) /\ Increasing(g[n], R)
            /\ Range(g[n]) = Range(g[n - 1]) \cup Range(seqs[n])
        <5>1. g[n - 1] \in Seq(S) /\ Increasing(g[n - 1], R)
          BY <4>2
        <5>2. LET u == g[n - 1] \o seqs[n] IN
                u \in Seq(S) /\ Range(u) = Range(g[n - 1]) \cup Range(seqs[n]) /\ Increasing(u, R)
          <6> HIDE DEF told
          <6> QED BY <4>2, <4>4, <5>1, LaidUp
        <5> HIDE DEF told
        <5> QED BY <4>2, <5>2
      <4>6. UNION {Range(seqs[i]) : i \in 1..n}
              = (UNION {Range(seqs[i]) : i \in 1..(n - 1)}) \cup Range(seqs[n])
        BY <4>3
      <4> QED BY <3>2, <4>2, <4>5, <4>6
    <3> QED BY <3>3, <3>4
  <2>5. told(N)
    <3>1. N \in 1..N /\ N \notin wrong
      <4> HIDE DEF wrong
      <4> QED BY <2>1, <2>4
    <3> HIDE DEF told, N
    <3> QED BY <3>1
  <2> QED BY <2>1, <2>2, <2>5
<1> QED BY <1>1, <1>2

(* A list with each member replaced by what f makes of it.                 *)
Each(f, s) == [i \in DOMAIN s |-> f[s[i]]]

(* What stands where in two lists laid end to end.                         *)
LEMMA TwoLists ==
  ASSUME NEW S, NEW s \in Seq(S), NEW t \in Seq(S)
  PROVE  /\ s \o t \in Seq(S) /\ Len(s \o t) = Len(s) + Len(t)
         /\ Len(s) \in Nat /\ Len(t) \in Nat
         /\ \A i \in 1..Len(s \o t) : (s \o t)[i] = IF i <= Len(s) THEN s[i] ELSE t[i - Len(s)]
  OBVIOUS

EachOf(f, seqs) == [i \in DOMAIN seqs |-> Each(f, seqs[i])]

(* It makes no difference whether it is done before they are laid or       *)
(* after.                                                                  *)
LEMMA FlattenEach ==
  ASSUME NEW S, NEW T, NEW f \in [S -> T], NEW seqs \in Seq(Seq(S))
  PROVE  FlattenSeq(EachOf(f, seqs)) = Each(f, FlattenSeq(seqs))
<1> DEFINE N == Len(seqs)
           made == EachOf(f, seqs)
<1>0. made = [i \in DOMAIN seqs |-> Each(f, seqs[i])]
  BY DEF EachOf
<1> HIDE DEF made
<1>1. N \in Nat /\ DOMAIN seqs = 1..N /\ \A i \in 1..N : seqs[i] \in Seq(S)
  OBVIOUS
<1>2. ASSUME NEW s \in Seq(S)
      PROVE  /\ Each(f, s) \in Seq(T) /\ Len(Each(f, s)) = Len(s)
             /\ \A i \in 1..Len(s) : Each(f, s)[i] = f[s[i]]
  <2>1. Each(f, s) = [i \in 1..Len(s) |-> f[s[i]]] /\ Len(s) \in Nat
    BY DEF Each
  <2>2. \A i \in 1..Len(s) : f[s[i]] \in T
    OBVIOUS
  <2> QED BY <2>1, <2>2
<1>3. made \in Seq(Seq(T)) /\ Len(made) = N
  BY <1>0, <1>1, <1>2
<1>4. CASE N = 0
  <2>1. seqs = <<>> /\ made = <<>>
    BY <1>3, <1>4
  <2>2. FlattenSeq(seqs) = <<>> /\ FlattenSeq(made) = <<>>
    BY <2>1 DEF FlattenSeq
  <2>3. Each(f, <<>>) = <<>>
    <3>1. <<>> \in Seq(S)
      OBVIOUS
    <3>2. Each(f, <<>>) \in Seq(T) /\ Len(Each(f, <<>>)) = 0
      BY <1>2, <3>1
    <3> QED BY <3>2
  <2> QED BY <1>3, <2>2, <2>3 DEF made
<1>5. CASE N # 0
  <2>1. PICK g : Laid(g, seqs) /\ FlattenSeq(seqs) = g[N]
    BY <1>5, FlattenIsLaid
  <2>2. PICK h : Laid(h, made) /\ FlattenSeq(made) = h[N]
    BY <1>3, <1>5, FlattenIsLaid
  <2>3. \A i \in 1..N : /\ g[i] = IF i = 1 THEN seqs[i] ELSE g[i - 1] \o seqs[i]
                        /\ h[i] = IF i = 1 THEN made[i] ELSE h[i - 1] \o made[i]
    BY <1>3, <2>1, <2>2 DEF Laid
  <2>4. ASSUME NEW s \in Seq(S), NEW t \in Seq(S)
        PROVE  s \o t \in Seq(S) /\ Each(f, s \o t) = Each(f, s) \o Each(f, t)
    <3> DEFINE u == s \o t
               v == Each(f, s) \o Each(f, t)
    <3>1. /\ u \in Seq(S) /\ Len(u) = Len(s) + Len(t) /\ Len(s) \in Nat /\ Len(t) \in Nat
          /\ \A i \in 1..Len(u) : u[i] = IF i <= Len(s) THEN s[i] ELSE t[i - Len(s)]
      BY TwoLists
    <3>2. /\ Each(f, s) \in Seq(T) /\ Each(f, t) \in Seq(T)
          /\ Len(Each(f, s)) = Len(s) /\ Len(Each(f, t)) = Len(t)
      BY <1>2
    <3>3. /\ v \in Seq(T) /\ Len(v) = Len(s) + Len(t)
          /\ \A i \in 1..Len(v) :
               v[i] = IF i <= Len(s) THEN Each(f, s)[i] ELSE Each(f, t)[i - Len(s)]
      <4> DEFINE a == Each(f, s)
                 b == Each(f, t)
      <4>1. a \in Seq(T) /\ b \in Seq(T) /\ Len(a) = Len(s) /\ Len(b) = Len(t) /\ v = a \o b
        BY <3>2
      <4> HIDE DEF a, b, v
      <4>2. /\ a \o b \in Seq(T) /\ Len(a \o b) = Len(a) + Len(b)
            /\ \A i \in 1..Len(a \o b) :
                 (a \o b)[i] = IF i <= Len(a) THEN a[i] ELSE b[i - Len(a)]
        BY <4>1, TwoLists
      <4>3. /\ v \in Seq(T) /\ Len(v) = Len(s) + Len(t)
            /\ \A i \in 1..Len(v) : v[i] = IF i <= Len(s) THEN a[i] ELSE b[i - Len(s)]
        BY <4>1, <4>2
      <4> QED BY <4>3 DEF a, b
    <3> HIDE DEF u, v
    <3>4. ASSUME NEW i \in 1..Len(u) PROVE Each(f, u)[i] = v[i]
      <4>0. Each(f, u)[i] = f[u[i]] /\ i \in 1..Len(v)
        BY <1>2, <3>1, <3>3
      <4>1. CASE i <= Len(s)
        <5>1. i \in 1..Len(s)
          BY <3>1, <4>1
        <5>2. Each(f, s)[i] = f[s[i]]
          BY <1>2, <5>1
        <5> QED BY <3>1, <3>3, <4>0, <4>1, <5>2
      <4>2. CASE i > Len(s)
        <5>1. i - Len(s) \in 1..Len(t) /\ ~(i <= Len(s))
          BY <3>1, <4>2
        <5>2. Each(f, t)[i - Len(s)] = f[t[i - Len(s)]]
          BY <1>2, <5>1
        <5> QED BY <3>1, <3>3, <4>0, <5>1, <5>2
      <4> QED BY <3>1, <4>1, <4>2
    <3>5. Each(f, u) \in Seq(T) /\ Len(Each(f, u)) = Len(v)
      BY <1>2, <3>1, <3>3
    <3>6. Each(f, u) = v
      BY <3>1, <3>3, <3>4, <3>5
    <3> QED BY <3>1, <3>6 DEF u, v
  <2>5. \A i \in 1..N : made[i] = Each(f, seqs[i])
    BY <1>0, <1>1
  <2> DEFINE told(n) == g[n] \in Seq(S) /\ h[n] = Each(f, g[n])
             wrong == {n \in 1..N : ~told(n)}
  <2>6. wrong = {}
    <3>1. SUFFICES ASSUME wrong # {} PROVE FALSE
      OBVIOUS
    <3>2. PICK n \in wrong : \A m \in wrong : n <= m
      <4>1. wrong \in SUBSET Nat
        OBVIOUS
      <4> HIDE DEF wrong
      <4> QED BY <3>1, <4>1, LeastMember
    <3>3. CASE n = 1
      BY <1>1, <2>3, <2>5, <3>2, <3>3
    <3>4. CASE n # 1
      <4>1. n \in 1..N /\ n - 1 \in 1..N /\ n - 1 \notin wrong
        <5> HIDE DEF told, N
        <5> QED BY <1>1, <3>2, <3>4
      <4>2. told(n - 1) /\ seqs[n] \in Seq(S)
        BY <1>1, <4>1
      <4>3. g[n] = g[n - 1] \o seqs[n] /\ h[n] = h[n - 1] \o made[n] /\ made[n] = Each(f, seqs[n])
        BY <2>3, <2>5, <3>4, <4>1
      <4>4. told(n)
        BY <2>4, <4>2, <4>3
      <4> HIDE DEF told
      <4> QED BY <3>2, <4>4
    <3> QED BY <3>3, <3>4
  <2>7. told(N)
    <3>1. N \in 1..N /\ N \notin wrong
      <4> HIDE DEF wrong
      <4> QED BY <1>1, <1>5, <2>6
    <3> HIDE DEF told, N
    <3> QED BY <3>1
  <2> QED BY <1>3, <2>1, <2>2, <2>7 DEF made
<1> QED BY <1>1, <1>4, <1>5 DEF made

(* The orders of the three ORDER BYs, as relations.                        *)
ExprOrder == {p \in Expr \X Expr : ExprBefore(p[1], p[2])}
RowOrder == {p \in Row \X Row : RowBefore(p[1], p[2])}
Hit == Row \X Field
HitOrder == {p \in Hit \X Hit : HitBefore(p[1], p[2])}

(* An order of a set orders its parts.                                     *)
LEMMA OrdersPart ==
  ASSUME NEW S, NEW R, Orders(R, S), NEW T \in SUBSET S
  PROVE  Orders(R, T)
  BY DEF Orders

(* A field's rank is its place in the order of the fields.                 *)
LEMMA RankIs ==
  /\ FieldOrder \in Seq(Field) /\ DOMAIN FieldOrder = 1..6 /\ Len(FieldOrder) = 6
  /\ \A n \in 1..6 : FieldOrder[n] \in Field /\ FieldRank(FieldOrder[n]) = n
  /\ \A f \in Field : FieldRank(f) \in 1..6 /\ FieldOrder[FieldRank(f)] = f
<1>1. FieldOrder \in Seq(Field) /\ DOMAIN FieldOrder = 1..6 /\ Len(FieldOrder) = 6
  BY DEF FieldOrder, Field
<1>2. \A n, m \in 1..6 : FieldOrder[n] = FieldOrder[m] => n = m
  <2>1. \A n \in 1..6 : n = 1 \/ n = 2 \/ n = 3 \/ n = 4 \/ n = 5 \/ n = 6
    OBVIOUS
  <2> QED BY <2>1 DEF FieldOrder
<1>3. \A f \in Field : \E n \in 1..6 : FieldOrder[n] = f
  BY DEF FieldOrder, Field
<1>4. \A n \in 1..6 : FieldRank(FieldOrder[n]) = n
  BY <1>1, <1>2 DEF FieldRank
<1>5. \A f \in Field : FieldRank(f) \in 1..6 /\ FieldOrder[FieldRank(f)] = f
  BY <1>3, <1>4
<1>6. \A n \in 1..6 : FieldOrder[n] \in Field
  <2>1. \A n \in 1..6 : n = 1 \/ n = 2 \/ n = 3 \/ n = 4 \/ n = 5 \/ n = 6
    OBVIOUS
  <2> QED BY <2>1 DEF FieldOrder, Field
<1> QED BY <1>1, <1>4, <1>5, <1>6

(* None of the three has ties: expressions, rows, and hits.                *)
LEMMA ExprsInOrder == Orders(ExprOrder, Expr)
  BY ExprAssumption DEF Orders, ExprOrder, ExprBefore

LEMMA RowsInOrder == Orders(RowOrder, Row)
<1>1. \A r \in Row : r[1] \in Expr /\ r[1] \in Nat \X Nat /\ r[2] \in Nat /\ r = <<r[1], r[2]>>
  BY ExprAssumption, MaxNodesAssumption DEF Row, Ordinal
<1>2. \A x \in Row : ~RowBefore(x, x)
  BY <1>1 DEF RowBefore, ExprBefore
<1>3. \A x, y, z \in Row : RowBefore(x, y) /\ RowBefore(y, z) => RowBefore(x, z)
  BY <1>1 DEF RowBefore, ExprBefore
<1>4. \A x, y \in Row : x = y \/ RowBefore(x, y) \/ RowBefore(y, x)
  BY <1>1 DEF RowBefore, ExprBefore
<1>5. \A x, y \in Row : <<x, y>> \in RowOrder <=> RowBefore(x, y)
  BY DEF RowOrder
<1> HIDE DEF Row, RowOrder
<1> QED BY <1>2, <1>3, <1>4, <1>5 DEF Orders

LEMMA HitsInOrder == Orders(HitOrder, Hit)
<1>1. \A h \in Hit : h[1] \in Row /\ h[2] \in Field /\ h = <<h[1], h[2]>> /\ FieldRank(h[2]) \in Nat
  BY RankIs DEF Hit
<1>2. \A x, y \in Row : <<x, y>> \in RowOrder <=> RowBefore(x, y)
  BY DEF RowOrder
<1>3. \A f, g \in Field : FieldRank(f) = FieldRank(g) => f = g
  BY RankIs
<1> HIDE DEF Row, RowOrder
<1>4. ASSUME NEW x \in Hit PROVE ~HitBefore(x, x)
  <2>1. ~RowBefore(x[1], x[1])
    BY <1>1, <1>2, RowsInOrder DEF Orders
  <2>2. ~(FieldRank(x[2]) < FieldRank(x[2]))
    BY <1>1
  <2> QED BY <2>1, <2>2 DEF HitBefore
<1>5. ASSUME NEW x \in Hit, NEW y \in Hit, NEW z \in Hit, HitBefore(x, y), HitBefore(y, z)
      PROVE  HitBefore(x, z)
  <2>1. /\ RowBefore(x[1], y[1]) \/ (x[1] = y[1] /\ FieldRank(x[2]) < FieldRank(y[2]))
        /\ RowBefore(y[1], z[1]) \/ (y[1] = z[1] /\ FieldRank(y[2]) < FieldRank(z[2]))
    BY <1>5 DEF HitBefore
  <2>2. RowBefore(x[1], y[1]) /\ RowBefore(y[1], z[1]) => RowBefore(x[1], z[1])
    BY <1>1, <1>2, RowsInOrder DEF Orders
  <2>3. FieldRank(x[2]) < FieldRank(y[2]) /\ FieldRank(y[2]) < FieldRank(z[2])
           => FieldRank(x[2]) < FieldRank(z[2])
    BY <1>1
  <2> QED BY <2>1, <2>2, <2>3 DEF HitBefore
<1>6. ASSUME NEW x \in Hit, NEW y \in Hit
      PROVE  x = y \/ HitBefore(x, y) \/ HitBefore(y, x)
  <2>1. x[1] = y[1] \/ RowBefore(x[1], y[1]) \/ RowBefore(y[1], x[1])
    BY <1>1, <1>2, RowsInOrder DEF Orders
  <2>2. \/ FieldRank(x[2]) = FieldRank(y[2])
        \/ FieldRank(x[2]) < FieldRank(y[2]) \/ FieldRank(y[2]) < FieldRank(x[2])
    BY <1>1
  <2> QED BY <1>1, <1>3, <2>1, <2>2 DEF HitBefore
<1>7. \A x, y \in Hit : <<x, y>> \in HitOrder <=> HitBefore(x, y)
  BY DEF HitOrder
<1> HIDE DEF Hit, HitOrder
<1> QED BY <1>4, <1>5, <1>6, <1>7 DEF Orders

(* InOrder of the three.                                                   *)
LEMMA ExprsListed ==
  ASSUME NEW S \in SUBSET Expr
  PROVE  InOrder(S, ExprBefore) = Ordered(S, ExprOrder)
<1>1. \A x \in S : {y \in S : ExprBefore(y, x)} = Below(S, ExprOrder, x)
  BY DEF ExprOrder, Below
<1>2. InOrder(S, ExprBefore) = [i \in 1..Cardinality(S) |->
        CHOOSE x \in S : Cardinality({y \in S : ExprBefore(y, x)}) = i - 1]
  BY DEF InOrder
<1> QED BY <1>1, <1>2 DEF Ordered

LEMMA RowsListed ==
  ASSUME NEW S \in SUBSET Row
  PROVE  InOrder(S, RowBefore) = Ordered(S, RowOrder)
<1>1. \A x \in S : {y \in S : RowBefore(y, x)} = Below(S, RowOrder, x)
  BY DEF RowOrder, Below
<1>2. InOrder(S, RowBefore) = [i \in 1..Cardinality(S) |->
        CHOOSE x \in S : Cardinality({y \in S : RowBefore(y, x)}) = i - 1]
  BY DEF InOrder
<1> QED BY <1>1, <1>2 DEF Ordered

LEMMA HitsListed ==
  ASSUME NEW S \in SUBSET Hit
  PROVE  InOrder(S, HitBefore) = Ordered(S, HitOrder)
<1>1. \A x \in S : {y \in S : HitBefore(y, x)} = Below(S, HitOrder, x)
  BY DEF HitOrder, Below
<1>2. InOrder(S, HitBefore) = [i \in 1..Cardinality(S) |->
        CHOOSE x \in S : Cardinality({y \in S : HitBefore(y, x)}) = i - 1]
  BY DEF InOrder
<1> QED BY <1>1, <1>2 DEF Ordered

(* The memory's own names for what both modules take from the library.     *)
LEMMA SameCardinality == ASSUME NEW S PROVE Memory!Cardinality(S) = Cardinality(S)
  BY DEF Memory!Cardinality, Cardinality

LEMMA SameFlatten == ASSUME NEW s PROVE Memory!FlattenSeq(s) = FlattenSeq(s)
  BY DEF Memory!FlattenSeq, FlattenSeq

LEMMA HeldListed ==
  ASSUME NEW S \in SUBSET Expr
  PROVE  Memory!InOrder(S, Memory!ExprBefore) = Ordered(S, ExprOrder)
<1>1. ASSUME NEW x \in S
      PROVE Memory!Cardinality({y \in S : Memory!ExprBefore(y, x)}) = Cardinality(Below(S, ExprOrder, x))
  <2>1. {y \in S : Memory!ExprBefore(y, x)} = Below(S, ExprOrder, x)
    BY DEF ExprOrder, Below, ExprBefore, Memory!ExprBefore
  <2> QED BY <2>1, SameCardinality
<1>2. Memory!InOrder(S, Memory!ExprBefore) = [i \in 1..Memory!Cardinality(S) |->
        CHOOSE x \in S : Memory!Cardinality({y \in S : Memory!ExprBefore(y, x)}) = i - 1]
  BY DEF Memory!InOrder
<1>3. Memory!Cardinality(S) = Cardinality(S)
  BY SameCardinality
<1>4. Ordered(S, ExprOrder) = [i \in 1..Cardinality(S) |->
        CHOOSE x \in S : Cardinality(Below(S, ExprOrder, x)) = i - 1]
  BY DEF Ordered
<1> QED BY <1>1, <1>2, <1>3, <1>4

(* What stands beside a member of a list that goes up is the nearest of    *)
(* those above it, or below it.                                            *)
Offset(s, e, k) == {s[i] : i \in {j \in DOMAIN s : j - k \in DOMAIN s /\ s[j - k] = e}}
NearestAbove(S, R, e) ==
  {f \in S : <<e, f>> \in R /\ \A g \in S : <<e, g>> \in R => f = g \/ <<f, g>> \in R}
NearestBelow(S, R, e) ==
  {f \in S : <<f, e>> \in R /\ \A g \in S : <<g, e>> \in R => f = g \/ <<g, f>> \in R}

LEMMA NeighboursInList ==
  ASSUME NEW S, NEW R, Orders(R, S), NEW s \in Seq(S), Range(s) = S, Increasing(s, R), NEW e \in S
  PROVE  /\ Offset(s, e, 1) = NearestAbove(S, R, e)
         /\ Offset(s, e, -1) = NearestBelow(S, R, e)
<1> DEFINE n == Len(s)
<1>1. n \in Nat /\ DOMAIN s = 1..n /\ \A i \in 1..n : s[i] \in S
  OBVIOUS
<1> HIDE DEF n
<1>2. ASSUME NEW i \in 1..n, NEW j \in 1..n
      PROVE  /\ i < j <=> <<s[i], s[j]>> \in R
             /\ s[i] = s[j] => i = j
  <2>1. i < j \/ i = j \/ j < i
    BY <1>1
  <2> QED BY <1>1, <2>1 DEF Increasing, Orders
<1>3. \A x \in S : \E i \in 1..n : s[i] = x
  BY <1>1 DEF Range
<1>4. PICK k \in 1..n : s[k] = e
  BY <1>3
<1> DEFINE above == NearestAbove(S, R, e)
           below == NearestBelow(S, R, e)
<1>5. ASSUME NEW j \in 1..n, j - 1 \in 1..n, s[j - 1] = e PROVE s[j] \in above
  <2>1. j - 1 = k
    BY <1>2, <1>4, <1>5
  <2>2. <<e, s[j]>> \in R
    BY <1>1, <1>2, <1>5
  <2>3. ASSUME NEW g \in S, <<e, g>> \in R PROVE s[j] = g \/ <<s[j], g>> \in R
    <3>1. PICK m \in 1..n : s[m] = g
      BY <1>3
    <3>2. k < m
      BY <1>2, <1>4, <2>3, <3>1
    <3>3. j = m \/ j < m
      BY <1>1, <2>1, <3>2
    <3> QED BY <1>2, <3>1, <3>3
  <2> QED BY <1>1, <2>2, <2>3 DEF NearestAbove
<1>6. ASSUME NEW f \in above
      PROVE  \E j \in 1..n : j - 1 \in 1..n /\ s[j - 1] = e /\ s[j] = f
  <2>1. PICK m \in 1..n : s[m] = f
    BY <1>3 DEF NearestAbove
  <2>2. k < m
    BY <1>2, <1>4, <2>1 DEF NearestAbove
  <2>3. k + 1 \in 1..n /\ k < k + 1 /\ (k + 1) - 1 = k
    BY <1>1, <2>2
  <2>4. <<e, s[k + 1]>> \in R /\ s[k + 1] \in S
    BY <1>1, <1>2, <1>4, <2>3
  <2>5. f = s[k + 1] \/ <<f, s[k + 1]>> \in R
    BY <2>4 DEF NearestAbove
  <2>6. m = k + 1 \/ m < k + 1
    BY <1>2, <2>1, <2>3, <2>5
  <2>7. m = k + 1
    BY <1>1, <2>2, <2>6
  <2> QED BY <1>4, <2>1, <2>3, <2>7
<1>7. ASSUME NEW j \in 1..n, j - (-1) \in 1..n, s[j - (-1)] = e PROVE s[j] \in below
  <2>1. j - (-1) = k /\ j < k
    <3>1. \A i \in 1..n : s[i] = e => i = k
      BY <1>2, <1>4
    <3>2. j - (-1) = k
      BY <1>7, <3>1
    <3> QED BY <1>1, <3>2
  <2>2. <<s[j], e>> \in R
    BY <1>1, <1>2, <1>4, <2>1
  <2>3. ASSUME NEW g \in S, <<g, e>> \in R PROVE s[j] = g \/ <<g, s[j]>> \in R
    <3>1. PICK m \in 1..n : s[m] = g
      BY <1>3
    <3>2. m < k
      BY <1>2, <1>4, <2>3, <3>1
    <3>3. j = m \/ m < j
      BY <1>1, <2>1, <3>2
    <3> QED BY <1>2, <3>1, <3>3
  <2> QED BY <1>1, <2>2, <2>3 DEF NearestBelow
<1>8. ASSUME NEW f \in below
      PROVE  \E j \in 1..n : j - (-1) \in 1..n /\ s[j - (-1)] = e /\ s[j] = f
  <2>1. PICK m \in 1..n : s[m] = f
    BY <1>3 DEF NearestBelow
  <2>2. m < k
    BY <1>2, <1>4, <2>1 DEF NearestBelow
  <2>3. k - 1 \in 1..n /\ k - 1 < k /\ (k - 1) - (-1) = k
    BY <1>1, <2>2
  <2>4. <<s[k - 1], e>> \in R /\ s[k - 1] \in S
    BY <1>1, <1>2, <1>4, <2>3
  <2>5. f = s[k - 1] \/ <<s[k - 1], f>> \in R
    BY <2>4 DEF NearestBelow
  <2>6. m = k - 1 \/ k - 1 < m
    BY <1>2, <2>1, <2>3, <2>5
  <2>7. m = k - 1
    BY <1>1, <2>2, <2>6
  <2> QED BY <1>4, <2>1, <2>3, <2>7
<1> HIDE DEF above, below
<1>9. Offset(s, e, 1) = above
  BY <1>1, <1>5, <1>6 DEF Offset
<1>10. Offset(s, e, -1) = below
  BY <1>1, <1>7, <1>8 DEF Offset
<1> QED BY <1>9, <1>10 DEF above, below

(* next_expression and prev_expression: the nearest date is the neighbour  *)
(* in the list of the work.                                                *)
LEMMA NeighboursSame ==
  ASSUME IsFiniteSet(Memory!Held), NEW e \in Memory!Held
  PROVE  SqlNext(e) = Memory!NextExpression(e) /\ SqlPrev(e) = Memory!PrevExpression(e)
<1> DEFINE S == {f \in Memory!Held : f[1] = e[1]}
           s == Ordered(S, ExprOrder)
<1>1. S \in SUBSET Expr /\ e \in S /\ IsFiniteSet(S)
  <2>1. S \in SUBSET Memory!Held /\ e \in S /\ S \in SUBSET Expr
    BY DEF Memory!Held
  <2> HIDE DEF S
  <2> QED BY <2>1, FS_Subset
<1>2. \A f \in S : f[1] = e[1] /\ f \in Memory!Held /\ f \in Nat \X Nat /\ f \in Expr
  BY ExprAssumption DEF Memory!Held
<1>3. Memory!AllExpressions(LAMBDA f : f[1] = e[1]) = s
  <2>1. Memory!AllExpressions(LAMBDA f : f[1] = e[1]) = Memory!InOrder(S, Memory!ExprBefore)
    BY DEF Memory!AllExpressions
  <2> HIDE DEF S
  <2> QED BY <1>1, <2>1, HeldListed
<1> HIDE DEF S
<1>4. Orders(ExprOrder, S)
  BY <1>1, ExprsInOrder, OrdersPart
<1>5. s \in Seq(S) /\ Range(s) = S /\ Increasing(s, ExprOrder)
  BY <1>1, <1>4, OrderedIs
<1> HIDE DEF s
<1>6. Memory!NextExpression(e) = Offset(s, e, 1) /\ Memory!PrevExpression(e) = Offset(s, e, -1)
  BY <1>3 DEF Memory!NextExpression, Memory!PrevExpression, Memory!Neighbour, Offset
<1> DEFINE above == NearestAbove(S, ExprOrder, e)
           below == NearestBelow(S, ExprOrder, e)
<1>7. Memory!NextExpression(e) = above /\ Memory!PrevExpression(e) = below
  BY <1>1, <1>4, <1>5, <1>6, NeighboursInList
<1>8. \A f, g \in S : /\ <<f, g>> \in ExprOrder <=> f[2] < g[2]
                      /\ f = g <=> f[2] = g[2]
                      /\ f[2] \in Nat
  BY <1>2 DEF ExprOrder, ExprBefore
<1>9. SqlNext(e) = {f \in S : f[2] > e[2] /\ \A g \in S : g[2] > e[2] => f[2] <= g[2]}
  BY DEF SqlNext, S
<1>10. SqlPrev(e) = {f \in S : f[2] < e[2] /\ \A g \in S : g[2] < e[2] => g[2] <= f[2]}
  BY DEF SqlPrev, S
<1>11. SqlNext(e) = above
  <2>1. ASSUME NEW f \in S
        PROVE  (f[2] > e[2] /\ \A g \in S : g[2] > e[2] => f[2] <= g[2])
                 <=> (/\ <<e, f>> \in ExprOrder
                      /\ \A g \in S : <<e, g>> \in ExprOrder => f = g \/ <<f, g>> \in ExprOrder)
    <3>1. f[2] > e[2] <=> <<e, f>> \in ExprOrder
      BY <1>1, <1>8
    <3>2. ASSUME NEW g \in S
          PROVE  /\ g[2] > e[2] <=> <<e, g>> \in ExprOrder
                 /\ f[2] <= g[2] <=> (f = g \/ <<f, g>> \in ExprOrder)
      <4>1. /\ f[2] \in Nat /\ g[2] \in Nat /\ (f = g <=> f[2] = g[2])
            /\ <<f, g>> \in ExprOrder <=> f[2] < g[2]
            /\ <<g, f>> \in ExprOrder <=> g[2] < f[2]
            /\ <<g, e>> \in ExprOrder <=> g[2] < e[2]
            /\ <<e, g>> \in ExprOrder <=> e[2] < g[2]
        BY <1>1, <1>8
      <4>2. e[2] \in Nat
        BY <1>1, <1>8
      <4> QED BY <4>1, <4>2
    <3> QED BY <3>1, <3>2
  <2> QED BY <1>9, <2>1 DEF NearestAbove
<1>12. SqlPrev(e) = below
  <2>1. ASSUME NEW f \in S
        PROVE  (f[2] < e[2] /\ \A g \in S : g[2] < e[2] => g[2] <= f[2])
                 <=> (/\ <<f, e>> \in ExprOrder
                      /\ \A g \in S : <<g, e>> \in ExprOrder => f = g \/ <<g, f>> \in ExprOrder)
    <3>1. f[2] < e[2] <=> <<f, e>> \in ExprOrder
      BY <1>1, <1>8
    <3>2. ASSUME NEW g \in S
          PROVE  /\ g[2] < e[2] <=> <<g, e>> \in ExprOrder
                 /\ g[2] <= f[2] <=> (f = g \/ <<g, f>> \in ExprOrder)
      <4>1. /\ f[2] \in Nat /\ g[2] \in Nat /\ (f = g <=> f[2] = g[2])
            /\ <<f, g>> \in ExprOrder <=> f[2] < g[2]
            /\ <<g, f>> \in ExprOrder <=> g[2] < f[2]
            /\ <<g, e>> \in ExprOrder <=> g[2] < e[2]
            /\ <<e, g>> \in ExprOrder <=> e[2] < g[2]
        BY <1>1, <1>8
      <4>2. e[2] \in Nat
        BY <1>1, <1>8
      <4> QED BY <4>1, <4>2
    <3> QED BY <3>1, <3>2
  <2> QED BY <1>10, <2>1 DEF NearestBelow
<1> QED BY <1>7, <1>11, <1>12

(* What is met on a walk of the expressions of the list, node by node.     *)
OfDocument(e, met) == FlattenSeq([i \in DOMAIN expressions[e] |-> met[<<e, i>>]])
Walked(list, met) == FlattenSeq([n \in DOMAIN list |-> OfDocument(list[n], met)])

(* All that is met at these nodes.                                         *)
MetAt(met, rows) == UNION {Range(met[r]) : r \in rows}

(* A function on the first n numbers is a list.                            *)
LEMMA IsList ==
  ASSUME NEW T, NEW n \in Nat, NEW s \in [1..n -> T]
  PROVE  s \in Seq(T) /\ Len(s) = n
  OBVIOUS

(* A list is a list over its range.                                        *)
LEMMA ListOfMembers ==
  ASSUME NEW S, NEW s \in Seq(S), NEW T, Range(s) = T
  PROVE  s \in Seq(T)
<1>1. DOMAIN s = 1..Len(s) /\ Len(s) \in Nat /\ s = [i \in 1..Len(s) |-> s[i]]
  OBVIOUS
<1>2. \A i \in 1..Len(s) : s[i] \in T
  BY <1>1 DEF Range
<1>3. s \in [1..Len(s) -> T]
  BY <1>1, <1>2
<1> QED BY <1>1, <1>3, IsList

(* The nodes of these expressions.                                         *)
RowsOf(W) == {r \in Row : r[1] \in W /\ r[2] \in DOMAIN expressions[r[1]]}

(* What is met goes up, if it does at each node and from node to node.     *)
MetUp(met, R) ==
  /\ \A r \in Row : Increasing(met[r], R)
  /\ \A r, q \in Row : RowBefore(r, q) =>
       \A x \in Range(met[r]), y \in Range(met[q]) : <<x, y>> \in R

(* The nodes of a document held are rows.                                  *)
LEMMA HeldTrees ==
  ASSUME TypeOK, NEW e \in Memory!Held
  PROVE  /\ e \in Expr /\ Len(expressions[e]) \in Nat
         /\ DOMAIN expressions[e] = 1..Len(expressions[e])
         /\ \A i \in DOMAIN expressions[e] : <<e, i>> \in Row /\ expressions[e][i] \in Node
<1>1. e \in Expr /\ expressions[e] \in Tree
  BY DEF Memory!Held, TypeOK
<1>2. expressions[e] \in Seq(Node) /\ Len(expressions[e]) \in 1..MaxNodes /\ MaxNodes \in Nat
  BY <1>1, MaxNodesAssumption
<1> QED BY <1>1, <1>2 DEF Row, Ordinal

(* What is met in one document goes up, and is what is met at its nodes.   *)
LEMMA DocumentGoesUp ==
  ASSUME TypeOK, NEW e \in Memory!Held, NEW S, NEW R, NEW met \in [Row -> Seq(S)], MetUp(met, R)
  PROVE  /\ OfDocument(e, met) \in Seq(S)
         /\ Range(OfDocument(e, met)) = MetAt(met, RowsOf({e}))
         /\ Increasing(OfDocument(e, met), R)
<1> DEFINE seqs == [i \in DOMAIN expressions[e] |-> met[<<e, i>>]]
<1>1. /\ DOMAIN seqs = 1..Len(expressions[e]) /\ Len(expressions[e]) \in Nat
      /\ \A i \in DOMAIN seqs : <<e, i>> \in Row /\ seqs[i] = met[<<e, i>>] /\ i \in Nat
  BY HeldTrees
<1>2. seqs \in Seq(Seq(S))
  <2>1. \A i \in DOMAIN expressions[e] : met[<<e, i>>] \in Seq(S)
    BY <1>1
  <2>2. seqs \in [1..Len(expressions[e]) -> Seq(S)]
    BY <1>1, <2>1
  <2> HIDE DEF seqs
  <2> QED BY <1>1, <2>2, IsList
<1>3. OfDocument(e, met) = FlattenSeq(seqs)
  BY DEF OfDocument
<1> HIDE DEF seqs
<1>4. \A i \in DOMAIN seqs : Increasing(seqs[i], R)
  BY <1>1 DEF MetUp
<1>5. ASSUME NEW i \in DOMAIN seqs, NEW j \in DOMAIN seqs, i < j,
             NEW x \in Range(seqs[i]), NEW y \in Range(seqs[j])
      PROVE  <<x, y>> \in R
  <2>1. RowBefore(<<e, i>>, <<e, j>>)
    BY <1>5 DEF RowBefore
  <2>2. seqs[i] = met[<<e, i>>] /\ seqs[j] = met[<<e, j>>] /\ <<e, i>> \in Row /\ <<e, j>> \in Row
    BY <1>1
  <2>3. x \in Range(met[<<e, i>>]) /\ y \in Range(met[<<e, j>>])
    BY <2>2
  <2> HIDE DEF Row
  <2> QED BY <2>1, <2>2, <2>3 DEF MetUp
<1>6. /\ FlattenSeq(seqs) \in Seq(S)
      /\ Range(FlattenSeq(seqs)) = UNION {Range(seqs[i]) : i \in DOMAIN seqs}
      /\ Increasing(FlattenSeq(seqs), R)
  BY <1>2, <1>4, <1>5, FlattenGoesUp
<1>7. UNION {Range(seqs[i]) : i \in DOMAIN seqs} = MetAt(met, RowsOf({e}))
  <2>1. \A i \in DOMAIN seqs : <<e, i>> \in RowsOf({e})
    BY <1>1, HeldTrees DEF RowsOf
  <2>2. \A r \in RowsOf({e}) : r[2] \in DOMAIN seqs /\ r = <<e, r[2]>>
    BY <1>1, HeldTrees DEF RowsOf, Row
  <2>3. \A x : x \in MetAt(met, RowsOf({e})) <=> \E r \in RowsOf({e}) : x \in Range(met[r])
    BY DEF MetAt
  <2>4. ASSUME NEW i \in DOMAIN seqs, NEW x \in Range(seqs[i]) PROVE x \in MetAt(met, RowsOf({e}))
    BY <1>1, <2>1, <2>3
  <2>5. ASSUME NEW x \in MetAt(met, RowsOf({e})) PROVE \E i \in DOMAIN seqs : x \in Range(seqs[i])
    <3>1. PICK r \in RowsOf({e}) : x \in Range(met[r])
      BY <2>3
    <3>2. seqs[r[2]] = met[r] /\ r[2] \in DOMAIN seqs
      BY <1>1, <2>2
    <3> QED BY <3>1, <3>2
  <2> QED BY <2>4, <2>5
<1> QED BY <1>3, <1>6, <1>7

(* And so does what is met on the walk of several, taken in order.         *)
LEMMA WalkGoesUp ==
  ASSUME TypeOK, NEW W \in SUBSET Memory!Held, IsFiniteSet(W),
         NEW S, NEW R, NEW met \in [Row -> Seq(S)], MetUp(met, R),
         NEW list, list = Ordered(W, ExprOrder)
  PROVE  /\ list \in Seq(W)
         /\ Walked(list, met) \in Seq(S)
         /\ Range(Walked(list, met)) = MetAt(met, RowsOf(W))
         /\ Increasing(Walked(list, met), R)
<1> DEFINE seqs == [n \in DOMAIN list |-> OfDocument(list[n], met)]
<1>1. W \in SUBSET Expr
  BY DEF Memory!Held
<1>2. Orders(ExprOrder, W)
  BY <1>1, ExprsInOrder, OrdersPart
<1>3. list \in Seq(W) /\ Range(list) = W /\ Increasing(list, ExprOrder)
  BY <1>2, OrderedIs
<1>4. DOMAIN list = 1..Len(list) /\ Len(list) \in Nat /\ \A n \in DOMAIN list : list[n] \in Memory!Held
  BY <1>3
<1>5. \A n \in DOMAIN list :
        /\ seqs[n] \in Seq(S)
        /\ Range(seqs[n]) = MetAt(met, RowsOf({list[n]}))
        /\ Increasing(seqs[n], R)
  <2>1. ASSUME NEW e \in Memory!Held
        PROVE  /\ OfDocument(e, met) \in Seq(S)
               /\ Range(OfDocument(e, met)) = MetAt(met, RowsOf({e}))
               /\ Increasing(OfDocument(e, met), R)
    BY DocumentGoesUp
  <2>2. \A n \in DOMAIN list : seqs[n] = OfDocument(list[n], met)
    OBVIOUS
  <2> HIDE DEF seqs
  <2> QED BY <1>4, <2>1, <2>2
<1>6. seqs \in Seq(Seq(S)) /\ DOMAIN seqs = DOMAIN list
  <2>1. seqs \in [1..Len(list) -> Seq(S)]
    BY <1>4, <1>5
  <2>2. DOMAIN seqs = DOMAIN list
    OBVIOUS
  <2> HIDE DEF seqs
  <2> QED BY <1>4, <2>1, <2>2, IsList
<1>7. Walked(list, met) = FlattenSeq(seqs)
  BY DEF Walked
<1> HIDE DEF seqs
<1>8. ASSUME NEW i \in DOMAIN seqs, NEW j \in DOMAIN seqs, i < j,
             NEW x \in Range(seqs[i]), NEW y \in Range(seqs[j])
      PROVE  <<x, y>> \in R
  <2>1. PICK r \in RowsOf({list[i]}) : x \in Range(met[r])
    <3>1. x \in MetAt(met, RowsOf({list[i]}))
      BY <1>5, <1>6, <1>8
    <3> QED BY <3>1 DEF MetAt
  <2>2. PICK q \in RowsOf({list[j]}) : y \in Range(met[q])
    <3>1. y \in MetAt(met, RowsOf({list[j]}))
      BY <1>5, <1>6, <1>8
    <3> QED BY <3>1 DEF MetAt
  <2>3. <<list[i], list[j]>> \in ExprOrder
    BY <1>3, <1>6, <1>8 DEF Increasing
  <2>4. r \in Row /\ q \in Row /\ r[1] = list[i] /\ q[1] = list[j]
    BY DEF RowsOf
  <2>5. RowBefore(r, q)
    BY <2>3, <2>4 DEF RowBefore, ExprOrder
  <2> QED BY <2>1, <2>2, <2>4, <2>5 DEF MetUp
<1>9. /\ FlattenSeq(seqs) \in Seq(S)
      /\ Range(FlattenSeq(seqs)) = UNION {Range(seqs[i]) : i \in DOMAIN seqs}
      /\ Increasing(FlattenSeq(seqs), R)
  BY <1>5, <1>6, <1>8, FlattenGoesUp
<1>10. UNION {Range(seqs[i]) : i \in DOMAIN seqs} = MetAt(met, RowsOf(W))
  <2>1. ASSUME NEW i \in DOMAIN seqs, NEW r \in RowsOf({list[i]}) PROVE r \in RowsOf(W)
    BY <1>3, <1>6 DEF RowsOf, Range
  <2>2. ASSUME NEW r \in RowsOf(W) PROVE \E i \in DOMAIN seqs : r \in RowsOf({list[i]})
    <3>1. PICK i \in DOMAIN list : list[i] = r[1]
      BY <1>3 DEF RowsOf, Range
    <3> QED BY <1>6, <3>1 DEF RowsOf
  <2>3. ASSUME NEW i \in DOMAIN seqs, NEW x \in Range(seqs[i]) PROVE x \in MetAt(met, RowsOf(W))
    <3>1. x \in MetAt(met, RowsOf({list[i]}))
      BY <1>5, <1>6
    <3>2. PICK r \in RowsOf({list[i]}) : x \in Range(met[r])
      BY <3>1 DEF MetAt
    <3> QED BY <2>1, <3>2 DEF MetAt
  <2>4. ASSUME NEW x \in MetAt(met, RowsOf(W)) PROVE \E i \in DOMAIN seqs : x \in Range(seqs[i])
    <3>1. PICK r \in RowsOf(W) : x \in Range(met[r])
      BY DEF MetAt
    <3>2. PICK i \in DOMAIN seqs : r \in RowsOf({list[i]})
      BY <2>2
    <3>3. x \in MetAt(met, RowsOf({list[i]}))
      BY <3>1, <3>2 DEF MetAt
    <3> QED BY <1>5, <1>6, <3>3
  <2> QED BY <2>3, <2>4
<1> QED BY <1>3, <1>7, <1>9, <1>10

(* The same walk where each thing met is told by f.                        *)
Tells(f, S, T) == f \in [S -> T]

ToldBy(f, met) == [r \in Row |-> Each(f, met[r])]

(* Told on the walk, or told of the walk, it is the same list.             *)
LEMMA WalkEach ==
  ASSUME TypeOK, NEW W \in SUBSET Memory!Held, NEW list \in Seq(W),
         NEW S, NEW T, NEW f, Tells(f, S, T), NEW met \in [Row -> Seq(S)],
         \A e \in W : OfDocument(e, met) \in Seq(S)
  PROVE  Walked(list, ToldBy(f, met)) = Each(f, Walked(list, met))
<1> DEFINE told == ToldBy(f, met)
<1>0. \A r \in Row : told[r] = Each(f, met[r])
  BY DEF ToldBy
<1> HIDE DEF told
<1>1. DOMAIN list = 1..Len(list) /\ Len(list) \in Nat /\ \A n \in DOMAIN list : list[n] \in Memory!Held /\ list[n] \in W
  OBVIOUS
<1>2. ASSUME NEW e \in Memory!Held
      PROVE  OfDocument(e, told) = Each(f, OfDocument(e, met))
  <2> DEFINE seqs == [i \in DOMAIN expressions[e] |-> met[<<e, i>>]]
             made == [i \in DOMAIN expressions[e] |-> told[<<e, i>>]]
  <2>1. /\ DOMAIN seqs = 1..Len(expressions[e]) /\ Len(expressions[e]) \in Nat
        /\ \A i \in DOMAIN seqs : <<e, i>> \in Row
    BY HeldTrees
  <2>2. seqs \in Seq(Seq(S))
    <3>1. seqs \in [1..Len(expressions[e]) -> Seq(S)]
      BY <2>1
    <3> HIDE DEF seqs
    <3> QED BY <2>1, <3>1, IsList
  <2>3. made = EachOf(f, seqs)
    BY <1>0, <2>1 DEF EachOf
  <2>4. OfDocument(e, told) = FlattenSeq(made) /\ OfDocument(e, met) = FlattenSeq(seqs)
    BY DEF OfDocument
  <2> HIDE DEF seqs, made
  <2>5. FlattenSeq(made) = Each(f, FlattenSeq(seqs))
    BY <2>2, <2>3, FlattenEach DEF Tells
  <2> QED BY <2>4, <2>5
<1> DEFINE seqs == [n \in DOMAIN list |-> OfDocument(list[n], met)]
           made == [n \in DOMAIN list |-> OfDocument(list[n], told)]
<1>3. seqs \in Seq(Seq(S))
  <2>1. seqs \in [1..Len(list) -> Seq(S)]
    BY <1>1
  <2> HIDE DEF seqs
  <2> QED BY <1>1, <2>1, IsList
<1>4. made = EachOf(f, seqs)
  BY <1>1, <1>2 DEF EachOf
<1>5. Walked(list, told) = FlattenSeq(made) /\ Walked(list, met) = FlattenSeq(seqs)
  BY DEF Walked
<1> HIDE DEF seqs, made
<1>6. FlattenSeq(made) = Each(f, FlattenSeq(seqs))
  BY <1>3, <1>4, FlattenEach DEF Tells
<1> QED BY <1>5, <1>6 DEF told

(* The nodes met at the path: one of them, or none.                        *)
AtPath(path) == [r \in Row |-> IF expressions[r[1]][r[2]].path = path THEN <<r>> ELSE <<>>]

(* One node, or none, goes up.                                             *)
LEMMA AtPathGoesUp ==
  ASSUME NEW path
  PROVE  /\ AtPath(path) \in [Row -> Seq(Row)]
         /\ MetUp(AtPath(path), RowOrder)
         /\ \A r \in Row : Range(AtPath(path)[r]) = {q \in {r} : expressions[q[1]][q[2]].path = path}
<1>1. ASSUME NEW r \in Row
      PROVE  /\ AtPath(path)[r] \in Seq(Row) /\ Increasing(AtPath(path)[r], RowOrder)
             /\ Range(AtPath(path)[r]) = {q \in {r} : expressions[q[1]][q[2]].path = path}
  <2>1. CASE expressions[r[1]][r[2]].path = path
    <3>1. AtPath(path)[r] = <<r>>
      BY <2>1 DEF AtPath
    <3>2. DOMAIN <<r>> = {1} /\ <<r>>[1] = r /\ <<r>> \in Seq(Row)
      OBVIOUS
    <3>3. Range(<<r>>) = {r} /\ Increasing(<<r>>, RowOrder)
      BY <3>2 DEF Range, Increasing
    <3> QED BY <2>1, <3>1, <3>2, <3>3
  <2>2. CASE expressions[r[1]][r[2]].path # path
    <3>1. AtPath(path)[r] = <<>>
      BY <2>2 DEF AtPath
    <3>2. <<>> \in Seq(Row) /\ Range(<<>>) = {} /\ Increasing(<<>>, RowOrder)
      BY DEF Range, Increasing
    <3> QED BY <2>2, <3>1, <3>2
  <2> QED BY <2>1, <2>2
<1>2. AtPath(path) \in [Row -> Seq(Row)]
  BY <1>1 DEF AtPath
<1>3. MetUp(AtPath(path), RowOrder)
  BY <1>1 DEF MetUp, RowOrder
<1> QED BY <1>1, <1>2, <1>3

(* find_nodes: the walk meets the nodes the index leads to, in their       *)
(* order.                                                                  *)
LEMMA FindNodesSame ==
  ASSUME TypeOK, IndexIsDocuments, IsFiniteSet(Memory!Held), NEW path \in Path
  PROVE  SqlFindNodes(path) = Memory!FindNodes(path)
<1> DEFINE met == AtPath(path)
           list == Ordered(Memory!Held, ExprOrder)
           found == {r \in RowsOf(Memory!Held) : expressions[r[1]][r[2]].path = path}
<1>1. /\ met \in [Row -> Seq(Row)] /\ MetUp(met, RowOrder)
      /\ \A r \in Row : Range(met[r]) = {q \in {r} : expressions[q[1]][q[2]].path = path}
  BY AtPathGoesUp
<1>2. \A r \in Row : met[r] = IF expressions[r[1]][r[2]].path = path THEN <<r>> ELSE <<>>
  BY DEF AtPath
<1> HIDE DEF met
<1>3. /\ list \in Seq(Memory!Held)
      /\ Walked(list, met) \in Seq(Row)
      /\ Range(Walked(list, met)) = MetAt(met, RowsOf(Memory!Held))
      /\ Increasing(Walked(list, met), RowOrder)
  BY <1>1, WalkGoesUp
<1>4. MetAt(met, RowsOf(Memory!Held)) = found
  BY <1>1 DEF MetAt, RowsOf
<1>5. Memory!FindNodes(path) = Walked(list, met)
  <2>1. Memory!InOrder({e \in Memory!Held : TRUE}, Memory!ExprBefore) = list
    <3>1. {e \in Memory!Held : TRUE} = Memory!Held /\ Memory!Held \in SUBSET Expr
      BY DEF Memory!Held
    <3> QED BY <3>1, HeldListed
  <2>2. Memory!FindNodes(path) =
          LET asked == Memory!InOrder({e \in Memory!Held : TRUE}, Memory!ExprBefore) IN
          Memory!FlattenSeq([n \in DOMAIN asked |->
            Memory!FlattenSeq([i \in DOMAIN expressions[asked[n]] |->
              IF expressions[asked[n]][i].path = path THEN <<<<asked[n], i>>>> ELSE <<>>])])
    BY DEF Memory!FindNodes, Memory!Walk, Memory!AllExpressions
  <2> HIDE DEF list
  <2>3. Memory!FindNodes(path) =
          Memory!FlattenSeq([n \in DOMAIN list |->
            Memory!FlattenSeq([i \in DOMAIN expressions[list[n]] |->
              IF expressions[list[n]][i].path = path THEN <<<<list[n], i>>>> ELSE <<>>])])
    BY <2>1, <2>2
  <2>4. ASSUME NEW n \in DOMAIN list
        PROVE  Memory!FlattenSeq([i \in DOMAIN expressions[list[n]] |->
                 IF expressions[list[n]][i].path = path THEN <<<<list[n], i>>>> ELSE <<>>])
               = OfDocument(list[n], met)
    <3>1. list[n] \in Memory!Held
      BY <1>3
    <3>2. [i \in DOMAIN expressions[list[n]] |->
            IF expressions[list[n]][i].path = path THEN <<<<list[n], i>>>> ELSE <<>>]
          = [i \in DOMAIN expressions[list[n]] |-> met[<<list[n], i>>]]
      BY <1>2, <3>1, HeldTrees
    <3> QED BY <3>2, SameFlatten DEF OfDocument
  <2>5. Memory!FindNodes(path) = Memory!FlattenSeq([n \in DOMAIN list |-> OfDocument(list[n], met)])
    BY <2>3, <2>4
  <2> QED BY <2>5, SameFlatten DEF Walked
<1>6. SqlFindNodes(path) = InOrder(found, RowBefore)
  <2> DEFINE wanted == {r[1] : r \in {q \in Rows : index[q].path = path}} \cap Memory!Held
             given == {q \in wanted \X Ordinal :
                        q[2] <= Len(expressions[q[1]]) /\ expressions[q[1]][q[2]].path = path}
  <2>1. ASSUME NEW r \in given PROVE r \in found
    <3>1. r[1] \in Memory!Held /\ r[2] \in 1..MaxNodes /\ r \in Row /\ r[2] <= Len(expressions[r[1]])
      BY DEF Row, Ordinal, Memory!Held
    <3>2. r[2] \in DOMAIN expressions[r[1]]
      BY <3>1, HeldTrees
    <3> QED BY <3>1, <3>2 DEF RowsOf
  <2>2. ASSUME NEW r \in found PROVE r \in given
    <3>1. r \in Row /\ r[1] \in Memory!Held /\ r[2] \in DOMAIN expressions[r[1]]
      BY DEF RowsOf
    <3>2. PICK q \in Rows : q[1] = r[1] /\ q[2] = r[2]
      BY <3>1, RowsAreNodes
    <3>3. q = r /\ index[q] = expressions[r[1]][r[2]]
      BY <3>1, <3>2, RowsAreNodes DEF Rows, Row
    <3>4. r[1] \in wanted
      BY <3>1, <3>3
    <3>5. r[2] <= Len(expressions[r[1]])
      BY <3>1, HeldTrees
    <3> QED BY <3>1, <3>4, <3>5 DEF Row
  <2>3. given = found
    BY <2>1, <2>2
  <2>4. SqlFindNodes(path) = InOrder(given, RowBefore)
    BY DEF SqlFindNodes
  <2> HIDE DEF given, found
  <2> QED BY <2>3, <2>4
<1>7. found \in SUBSET Row
  BY DEF RowsOf
<1>8. Orders(RowOrder, found)
  BY <1>7, RowsInOrder, OrdersPart
<1> HIDE DEF found, list
<1>9. Walked(list, met) \in Seq(found)
  <2> DEFINE walk == Walked(list, met)
  <2>1. walk \in Seq(Row) /\ Range(walk) = found
    BY <1>3, <1>4
  <2> HIDE DEF walk
  <2> QED BY <2>1, ListOfMembers DEF walk
<1>10. Walked(list, met) = Ordered(found, RowOrder)
  BY <1>3, <1>4, <1>8, <1>9, OnlyOneList
<1> QED BY <1>5, <1>6, <1>7, <1>10, RowsListed

(* The hits of a node, in the order of the fields.                         *)
FieldHit(r, n, says) == IF FieldOrder[n] \in says THEN <<<<r, FieldOrder[n]>>>> ELSE <<>>
HitsOf(r, says) == FlattenSeq([n \in 1..6 |-> FieldHit(r, n, says)])

(* Lists of one and of none.                                               *)
LEMMA OneOrNone ==
  ASSUME NEW S, NEW R, NEW x \in S
  PROVE  /\ <<x>> \in Seq(S) /\ Range(<<x>>) = {x} /\ Increasing(<<x>>, R)
         /\ <<>> \in Seq(S) /\ Range(<<>>) = {} /\ Increasing(<<>>, R)
<1>1. DOMAIN <<x>> = {1} /\ <<x>>[1] = x /\ <<x>> \in Seq(S) /\ <<>> \in Seq(S) /\ DOMAIN <<>> = {}
  OBVIOUS
<1> QED BY <1>1 DEF Range, Increasing

(* They are the fields that say the query, and go up.                      *)
LEMMA HitsOfGoUp ==
  ASSUME NEW r \in Row, NEW says
  PROVE  /\ [n \in 1..6 |-> FieldHit(r, n, says)] \in Seq(Seq(Hit))
         /\ HitsOf(r, says) \in Seq(Hit)
         /\ Increasing(HitsOf(r, says), HitOrder)
         /\ Range(HitsOf(r, says)) = {h \in Hit : h[1] = r /\ h[2] \in says}
<1> DEFINE seqs == [n \in 1..6 |-> FieldHit(r, n, says)]
<1>1. \A n \in 1..6 : FieldOrder[n] \in Field /\ <<r, FieldOrder[n]>> \in Hit
  <2>1. \A n \in 1..6 : FieldOrder[n] \in Field
    BY RankIs
  <2> QED BY <2>1 DEF Hit
<1>2. ASSUME NEW n \in 1..6
      PROVE  /\ seqs[n] \in Seq(Hit) /\ Increasing(seqs[n], HitOrder)
             /\ \A x \in Range(seqs[n]) : x = <<r, FieldOrder[n]>> /\ FieldOrder[n] \in says
             /\ FieldOrder[n] \in says => <<r, FieldOrder[n]>> \in Range(seqs[n])
  <2>1. seqs[n] = IF FieldOrder[n] \in says THEN <<<<r, FieldOrder[n]>>>> ELSE <<>>
    BY DEF FieldHit
  <2> HIDE DEF seqs
  <2> DEFINE h == <<r, FieldOrder[n]>>
  <2>2. /\ <<h>> \in Seq(Hit) /\ Range(<<h>>) = {h} /\ Increasing(<<h>>, HitOrder)
        /\ <<>> \in Seq(Hit) /\ Range(<<>>) = {} /\ Increasing(<<>>, HitOrder)
    <3>1. h \in Hit
      BY <1>1
    <3> HIDE DEF h
    <3> QED BY <3>1, OneOrNone
  <2>3. seqs[n] = IF FieldOrder[n] \in says THEN <<h>> ELSE <<>>
    BY <2>1
  <2>4. CASE FieldOrder[n] \in says
    BY <2>2, <2>3, <2>4
  <2>5. CASE FieldOrder[n] \notin says
    BY <2>2, <2>3, <2>5
  <2> QED BY <2>4, <2>5
<1>3. seqs \in Seq(Seq(Hit)) /\ DOMAIN seqs = 1..6
  <2>1. seqs \in [1..6 -> Seq(Hit)] /\ DOMAIN seqs = 1..6
    BY <1>2
  <2> HIDE DEF seqs
  <2> QED BY <2>1, IsList
<1> HIDE DEF seqs
<1>4. ASSUME NEW i \in DOMAIN seqs, NEW j \in DOMAIN seqs, i < j,
             NEW x \in Range(seqs[i]), NEW y \in Range(seqs[j])
      PROVE  <<x, y>> \in HitOrder
  <2>1. i \in 1..6 /\ j \in 1..6
    BY <1>3
  <2>2. x = <<r, FieldOrder[i]>> /\ y = <<r, FieldOrder[j]>> /\ x \in Hit /\ y \in Hit
    BY <1>1, <1>2, <2>1
  <2>3. FieldRank(FieldOrder[i]) = i /\ FieldRank(FieldOrder[j]) = j
    BY <2>1, RankIs
  <2>4. HitBefore(x, y)
    BY <1>4, <2>2, <2>3 DEF HitBefore
  <2> QED BY <2>2, <2>4 DEF HitOrder
<1>5. /\ FlattenSeq(seqs) \in Seq(Hit)
      /\ Range(FlattenSeq(seqs)) = UNION {Range(seqs[i]) : i \in DOMAIN seqs}
      /\ Increasing(FlattenSeq(seqs), HitOrder)
  BY <1>2, <1>3, <1>4, FlattenGoesUp
<1>6. UNION {Range(seqs[i]) : i \in DOMAIN seqs} = {h \in Hit : h[1] = r /\ h[2] \in says}
  <2>1. ASSUME NEW i \in DOMAIN seqs, NEW x \in Range(seqs[i])
        PROVE  x \in Hit /\ x[1] = r /\ x[2] \in says
    <3>1. i \in 1..6
      BY <1>3
    <3>2. x = <<r, FieldOrder[i]>> /\ FieldOrder[i] \in says /\ <<r, FieldOrder[i]>> \in Hit
      BY <1>1, <1>2, <3>1
    <3> QED BY <3>2
  <2>2. ASSUME NEW h \in Hit, h[1] = r, h[2] \in says
        PROVE  \E i \in DOMAIN seqs : h \in Range(seqs[i])
    <3>1. h[2] \in Field /\ h = <<r, h[2]>>
      BY <2>2 DEF Hit
    <3>2. FieldRank(h[2]) \in 1..6 /\ FieldOrder[FieldRank(h[2])] = h[2]
      BY <3>1, RankIs
    <3> QED BY <1>2, <1>3, <2>2, <3>1, <3>2
  <2> QED BY <2>1, <2>2
<1>7. HitsOf(r, says) = FlattenSeq(seqs)
  BY DEF HitsOf, seqs
<1> QED BY <1>3, <1>5, <1>6, <1>7 DEF seqs

(* The node at a row, and its hits if the locator asks there.              *)
NodeOf(r) == expressions[r[1]][r[2]]

HitsUnder(locator) ==
  [r \in Row |-> IF Memory!LocatesPath(locator, NodeOf(r).path)
                 THEN HitsOf(r, NodeOf(r).says) ELSE <<>>]

(* They go up from node to node.                                           *)
LEMMA HitsUnderGoUp ==
  ASSUME NEW locator
  PROVE  /\ HitsUnder(locator) \in [Row -> Seq(Hit)]
         /\ MetUp(HitsUnder(locator), HitOrder)
         /\ \A r \in Row : Range(HitsUnder(locator)[r]) =
              {h \in Hit : h[1] = r /\ h[2] \in NodeOf(r).says /\ Memory!LocatesPath(locator, NodeOf(r).path)}
<1>1. ASSUME NEW r \in Row
      PROVE  /\ HitsUnder(locator)[r] \in Seq(Hit) /\ Increasing(HitsUnder(locator)[r], HitOrder)
             /\ Range(HitsUnder(locator)[r]) =
                  {h \in Hit : h[1] = r /\ h[2] \in NodeOf(r).says /\ Memory!LocatesPath(locator, NodeOf(r).path)}
  <2>1. CASE Memory!LocatesPath(locator, NodeOf(r).path)
    <3>1. HitsUnder(locator)[r] = HitsOf(r, NodeOf(r).says)
      BY <2>1 DEF HitsUnder
    <3> QED BY <2>1, <3>1, HitsOfGoUp
  <2>2. CASE ~Memory!LocatesPath(locator, NodeOf(r).path)
    <3>1. HitsUnder(locator)[r] = <<>>
      BY <2>2 DEF HitsUnder
    <3>2. <<>> \in Seq(Hit) /\ Range(<<>>) = {} /\ Increasing(<<>>, HitOrder)
      BY DEF Range, Increasing
    <3> QED BY <2>2, <3>1, <3>2
  <2> QED BY <2>1, <2>2
<1>2. HitsUnder(locator) \in [Row -> Seq(Hit)]
  BY <1>1 DEF HitsUnder
<1>3. ASSUME NEW r \in Row, NEW q \in Row, RowBefore(r, q),
             NEW x \in Range(HitsUnder(locator)[r]), NEW y \in Range(HitsUnder(locator)[q])
      PROVE  <<x, y>> \in HitOrder
  <2>1. x \in Hit /\ y \in Hit /\ x[1] = r /\ y[1] = q
    BY <1>1
  <2> QED BY <1>3, <2>1 DEF HitOrder, HitBefore
<1> QED BY <1>1, <1>2, <1>3 DEF MetUp

(* A hit as search_text tells it.                                          *)
HitTold(h) == [expr |-> h[1][1], path |-> NodeOf(h[1]).path, field |-> h[2]]

(* One told, or none.                                                      *)
LEMMA EachOne ==
  ASSUME NEW f, NEW x
  PROVE  Each(f, <<x>>) = <<f[x]>> /\ Each(f, <<>>) = <<>>
<1>1. DOMAIN <<x>> = {1} /\ DOMAIN <<>> = {} /\ <<x>>[1] = x
  OBVIOUS
<1>2. Each(f, <<x>>) = [i \in {1} |-> f[x]]
  BY <1>1 DEF Each
<1>3. <<f[x]>> = [i \in {1} |-> f[x]]
  OBVIOUS
<1>4. Each(f, <<>>) = [i \in {} |-> f[<<>>[i]]]
  BY <1>1 DEF Each
<1> QED BY <1>2, <1>3, <1>4

(* The hits of a node told are what the walk of the memory tells there.    *)
LEMMA HitsTold ==
  ASSUME NEW r \in Row, NEW says, NEW f, f = [h \in Hit |-> HitTold(h)], NEW T, f \in [Hit -> T]
  PROVE  Each(f, HitsOf(r, says)) =
           FlattenSeq([n \in 1..6 |->
             IF FieldOrder[n] \in says
             THEN <<[expr |-> r[1], path |-> NodeOf(r).path, field |-> FieldOrder[n]]>> ELSE <<>>])
<1> DEFINE seqs == [n \in 1..6 |-> FieldHit(r, n, says)]
           told(n) == IF FieldOrder[n] \in says
             THEN <<[expr |-> r[1], path |-> NodeOf(r).path, field |-> FieldOrder[n]]>> ELSE <<>>
<1>1. seqs \in Seq(Seq(Hit)) /\ HitsOf(r, says) = FlattenSeq(seqs) /\ DOMAIN seqs = 1..6
  BY HitsOfGoUp DEF HitsOf
<1>2. ASSUME NEW n \in 1..6 PROVE Each(f, seqs[n]) = told(n)
  <2> DEFINE h == <<r, FieldOrder[n]>>
  <2>1. FieldOrder[n] \in Field
    BY RankIs
  <2>2. h \in Hit /\ f[h] = [expr |-> r[1], path |-> NodeOf(r).path, field |-> FieldOrder[n]]
    BY <2>1 DEF Hit, HitTold
  <2>3. Each(f, <<h>>) = <<f[h]>> /\ Each(f, <<>>) = <<>>
    BY EachOne
  <2>4. seqs[n] = IF FieldOrder[n] \in says THEN <<h>> ELSE <<>>
    BY DEF FieldHit
  <2> HIDE DEF seqs, h
  <2>5. Each(f, seqs[n]) = IF FieldOrder[n] \in says THEN <<f[h]>> ELSE <<>>
    BY <2>3, <2>4
  <2> QED BY <2>2, <2>5
<1> HIDE DEF seqs
<1>3. EachOf(f, seqs) = [n \in 1..6 |-> told(n)]
  BY <1>1, <1>2 DEF EachOf
<1>4. FlattenSeq(EachOf(f, seqs)) = Each(f, FlattenSeq(seqs))
  BY <1>1, FlattenEach
<1> QED BY <1>1, <1>3, <1>4

(* The hits of a walk of the documents held, and those of the rows in      *)
(* scope.                                                                  *)
HitsSought(locator) ==
  {h \in Rows \X Field :
     /\ h[2] \in index[h[1]].says
     /\ Memory!LocatesExpression(locator, h[1][1])
     /\ Memory!LocatesPath(locator, index[h[1]].path)}

HitsInScope(locator) == {h \in Rows \X Field : h[2] \in index[h[1]].says /\ InScope(locator, h[1])}

Telling == [h \in Hit |-> HitTold(h)]

LEMMA ScopeOfHits ==
  ASSUME TypeOK, IndexIsDocuments, NEW locator \in Locator
  PROVE  /\ HitsSought(locator) \in SUBSET HitsInScope(locator)
         /\ HitsInScope(locator) \in SUBSET Hit
         /\ LikeIsExact(locator) => HitsInScope(locator) = HitsSought(locator)
<1>1. \A r \in Rows :
        LET reached == /\ Memory!LocatesExpression(locator, r[1])
                       /\ Memory!LocatesPath(locator, index[r].path)
        IN /\ reached => InScope(locator, r)
           /\ LikeIsExact(locator) => (InScope(locator, r) <=> reached)
  BY SameScope, RowsAreNodes
<1>2. Rows \X Field \subseteq Hit
  BY DEF Rows, Hit
<1> QED BY <1>1, <1>2 DEF HitsSought, HitsInScope

(* search_text in memory lists the hits of the walk, by work, date,        *)
(* ordinal and field.                                                      *)
LEMMA MemorySearch ==
  ASSUME TypeOK, IndexIsDocuments, IsFiniteSet(Memory!Held), NEW locator \in Locator
  PROVE  LET walk == Ordered(HitsSought(locator), HitOrder)
         IN /\ walk \in Seq(HitsSought(locator))
            /\ Range(walk) = HitsSought(locator)
            /\ Memory!Search(locator) = Each(Telling, walk)
<1> DEFINE W == {e \in Memory!Held : Memory!LocatesExpression(locator, e)}
           met == HitsUnder(locator)
           list == Ordered(W, ExprOrder)
           f == [h \in Hit |-> HitTold(h)]
           T == {HitTold(h) : h \in Hit}
           hits == HitsSought(locator)
<1>1. W \in SUBSET Memory!Held /\ IsFiniteSet(W) /\ W \in SUBSET Expr
  <2>1. W \in SUBSET Memory!Held /\ W \in SUBSET Expr
    BY DEF Memory!Held
  <2> HIDE DEF W
  <2> QED BY <2>1, FS_Subset
<1>2. \A e : e \in W <=> e \in Memory!Held /\ Memory!LocatesExpression(locator, e)
  OBVIOUS
<1>3. f \in [Hit -> T]
  OBVIOUS
<1>4. /\ met \in [Row -> Seq(Hit)] /\ MetUp(met, HitOrder)
      /\ \A r \in Row : Range(met[r]) =
           {h \in Hit : h[1] = r /\ h[2] \in NodeOf(r).says /\ Memory!LocatesPath(locator, NodeOf(r).path)}
  BY HitsUnderGoUp
<1>5. \A r \in Row : met[r] = IF Memory!LocatesPath(locator, NodeOf(r).path)
                               THEN HitsOf(r, NodeOf(r).says) ELSE <<>>
  BY DEF HitsUnder
<1> HIDE DEF W, met
<1> DEFINE walk == Walked(list, met)
<1>6. /\ list \in Seq(W) /\ walk \in Seq(Hit)
      /\ Range(walk) = MetAt(met, RowsOf(W)) /\ Increasing(walk, HitOrder)
  BY <1>1, <1>4, WalkGoesUp
<1>7. MetAt(met, RowsOf(W)) = hits
  <2>1. ASSUME NEW r \in RowsOf(W), NEW h \in Range(met[r]) PROVE h \in hits
    <3>1. r \in Row /\ r[1] \in Memory!Held /\ r[1] \in W /\ r[2] \in DOMAIN expressions[r[1]]
      BY <1>1 DEF RowsOf
    <3>2. r \in Rows /\ index[r] = NodeOf(r) /\ index[r] \in Node
      <4>1. PICK q \in Rows : q[1] = r[1] /\ q[2] = r[2]
        BY <3>1, RowsAreNodes
      <4>2. q = r
        BY <3>1, <4>1 DEF Rows, Row
      <4> QED BY <4>1, <4>2, RowsAreNodes DEF NodeOf
    <3>3. /\ h \in Hit /\ h[1] = r /\ h[2] \in NodeOf(r).says
          /\ Memory!LocatesPath(locator, NodeOf(r).path)
      BY <1>4, <3>1
    <3>4. h \in Rows \X Field
      BY <3>2, <3>3 DEF Hit
    <3> QED BY <1>2, <3>1, <3>2, <3>3, <3>4 DEF HitsSought
  <2>2. ASSUME NEW h \in hits PROVE \E r \in RowsOf(W) : h \in Range(met[r])
    <3> DEFINE r == h[1]
    <3>1. r \in Rows /\ r \in Row /\ h \in Hit /\ h[2] \in index[r].says
          /\ Memory!LocatesExpression(locator, r[1]) /\ Memory!LocatesPath(locator, index[r].path)
      BY DEF Rows, Hit, HitsSought
    <3> HIDE DEF r
    <3>2. /\ r[1] \in Memory!Held /\ r[2] \in DOMAIN expressions[r[1]]
          /\ index[r] = NodeOf(r) /\ index[r] \in Node
      BY <3>1, RowsAreNodes DEF NodeOf
    <3>3. Memory!LocatesExpression(locator, r[1]) /\ Memory!LocatesPath(locator, NodeOf(r).path)
      BY <3>1, <3>2
    <3>4. r \in RowsOf(W)
      BY <1>2, <3>1, <3>2, <3>3 DEF RowsOf
    <3>5. h \in Range(met[r])
      BY <1>4, <3>1, <3>2, <3>3 DEF r
    <3> QED BY <3>4, <3>5
  <2> HIDE DEF hits
  <2> QED BY <2>1, <2>2 DEF MetAt
<1>8. hits \in SUBSET Hit
  BY DEF Rows, Hit, HitsSought
<1> HIDE DEF hits, list
<1>9. Orders(HitOrder, hits)
  BY <1>8, HitsInOrder, OrdersPart
<1>10. walk \in Seq(hits) /\ Range(walk) = hits
  <2> HIDE DEF walk
  <2> QED BY <1>6, <1>7, ListOfMembers
<1>11. walk = Ordered(hits, HitOrder)
  <2> HIDE DEF walk
  <2> QED BY <1>6, <1>9, <1>10, OnlyOneList
<1> HIDE DEF walk
<1> DEFINE told == ToldBy(f, met)
<1>15. Walked(list, told) = Each(f, walk)
  <2>1. \A e \in W : OfDocument(e, met) \in Seq(Hit)
    BY <1>1, <1>4, DocumentGoesUp
  <2> HIDE DEF f, T
  <2>2. W \in SUBSET Memory!Held /\ list \in Seq(W) /\ Tells(f, Hit, T) /\ met \in [Row -> Seq(Hit)]
    BY <1>1, <1>3, <1>4, <1>6 DEF Tells
  <2> HIDE DEF told
  <2>3. Walked(list, ToldBy(f, met)) = Each(f, Walked(list, met))
    BY ONLY TypeOK, <2>1, <2>2, WalkEach
  <2> QED BY <2>3 DEF walk, told
<1>16. Memory!Search(locator) = Walked(list, told)
  <2> DEFINE said(e, i) ==
        IF Memory!LocatesPath(locator, expressions[e][i].path)
        THEN FlattenSeq([n \in 1..6 |->
               IF FieldOrder[n] \in expressions[e][i].says
               THEN <<[expr |-> e, path |-> expressions[e][i].path, field |-> FieldOrder[n]]>> ELSE <<>>])
        ELSE <<>>
  <2>1. Memory!FieldOrder = FieldOrder /\ DOMAIN FieldOrder = 1..6
    BY RankIs DEF Memory!FieldOrder, FieldOrder
  <2>2. Memory!InOrder(W, Memory!ExprBefore) = list
    BY <1>1, HeldListed DEF list
  <2>3. Memory!Search(locator) =
          LET asked == Memory!InOrder(W, Memory!ExprBefore) IN
          Memory!FlattenSeq([n \in DOMAIN asked |->
            Memory!FlattenSeq([i \in DOMAIN expressions[asked[n]] |->
              IF Memory!LocatesPath(locator, expressions[asked[n]][i].path)
              THEN Memory!FlattenSeq([k \in DOMAIN Memory!FieldOrder |->
                     IF Memory!FieldOrder[k] \in expressions[asked[n]][i].says
                     THEN <<[expr |-> asked[n], path |-> expressions[asked[n]][i].path,
                             field |-> Memory!FieldOrder[k]]>>
                     ELSE <<>>])
              ELSE <<>>])])
    BY DEF Memory!Search, Memory!Walk, Memory!AllExpressions, W
  <2>4. ASSUME NEW n \in DOMAIN list
        PROVE  Memory!FlattenSeq([i \in DOMAIN expressions[list[n]] |->
              IF Memory!LocatesPath(locator, expressions[list[n]][i].path)
              THEN Memory!FlattenSeq([k \in DOMAIN Memory!FieldOrder |->
                     IF Memory!FieldOrder[k] \in expressions[list[n]][i].says
                     THEN <<[expr |-> list[n], path |-> expressions[list[n]][i].path,
                             field |-> Memory!FieldOrder[k]]>>
                     ELSE <<>>])
              ELSE <<>>]) = OfDocument(list[n], told)
    <3> DEFINE e == list[n]
    <3>1. e \in Memory!Held
      BY <1>1, <1>6, <2>4
    <3> HIDE DEF e
    <3>2. ASSUME NEW i \in DOMAIN expressions[e]
          PROVE  told[<<e, i>>] = said(e, i)
      <4>1. <<e, i>> \in Row
        BY <3>1, HeldTrees
      <4>2. told[<<e, i>>] = Each(f, met[<<e, i>>]) /\ NodeOf(<<e, i>>) = expressions[e][i]
        BY <4>1 DEF NodeOf, ToldBy
      <4>3. Each(f, <<>>) = <<>>
        BY EachOne
      <4>4. Each(f, HitsOf(<<e, i>>, expressions[e][i].says)) =
              FlattenSeq([k \in 1..6 |->
                IF FieldOrder[k] \in expressions[e][i].says
                THEN <<[expr |-> e, path |-> expressions[e][i].path, field |-> FieldOrder[k]]>> ELSE <<>>])
        BY <1>3, <4>1, <4>2, HitsTold
      <4> HIDE DEF f, told
      <4>5. CASE Memory!LocatesPath(locator, expressions[e][i].path)
        BY <1>5, <4>1, <4>2, <4>4, <4>5
      <4>6. CASE ~Memory!LocatesPath(locator, expressions[e][i].path)
        BY <1>5, <4>1, <4>2, <4>3, <4>6
      <4> QED BY <4>5, <4>6
    <3>3. [i \in DOMAIN expressions[e] |-> told[<<e, i>>]] = [i \in DOMAIN expressions[e] |-> said(e, i)]
      <4> HIDE DEF told, said
      <4> QED BY <3>2
    <3>4. OfDocument(e, told) = FlattenSeq([i \in DOMAIN expressions[e] |-> said(e, i)])
      <4> HIDE DEF told, said
      <4> QED BY <3>3 DEF OfDocument
    <3> QED BY <2>1, <3>4, SameFlatten DEF e
  <2>5. Memory!Search(locator) = Memory!FlattenSeq([n \in DOMAIN list |-> OfDocument(list[n], told)])
    <3> HIDE DEF told
    <3> QED BY <2>2, <2>3, <2>4
  <2> HIDE DEF told
  <2> QED BY <2>5, SameFlatten DEF Walked
<1> QED BY <1>10, <1>11, <1>15, <1>16 DEF hits, Telling

LEMMA ThreeAreFinite ==
  ASSUME NEW a, NEW b, NEW c
  PROVE  IsFiniteSet({a, b, c})
<1>1. IsFiniteSet({} \cup {a})
  BY FS_EmptySet, FS_AddElement
<1>2. IsFiniteSet(({} \cup {a}) \cup {b})
  BY <1>1, FS_AddElement
<1>3. IsFiniteSet((({} \cup {a}) \cup {b}) \cup {c})
  BY <1>2, FS_AddElement
<1>4. {a, b, c} = (({} \cup {a}) \cup {b}) \cup {c}
  OBVIOUS
<1> QED BY <1>3, <1>4

(* search_text in SQLite lists the rows in scope so too.                   *)
LEMMA SqlSearchIs ==
  ASSUME TypeOK, IndexIsDocuments, IsFiniteSet(Memory!Held), NEW locator \in Locator
  PROVE  LET list == Ordered(HitsInScope(locator), HitOrder)
         IN /\ list \in Seq(HitsInScope(locator))
            /\ Range(list) = HitsInScope(locator)
            /\ SqlSearch(locator) = Each(Telling, list)
<1> DEFINE hits == HitsInScope(locator)
           list == Ordered(hits, HitOrder)
<1>1. hits \in SUBSET Hit
  BY ScopeOfHits
<1>2. \A h \in hits : /\ h[1] \in Rows
                      /\ HitTold(h) = [expr |-> h[1][1], path |-> index[h[1]].path, field |-> h[2]]
  <2>1. \A h \in hits : h[1] \in Rows
    BY DEF HitsInScope
  <2>2. \A r \in Rows : index[r] = NodeOf(r)
    BY RowsAreNodes DEF NodeOf
  <2> QED BY <2>1, <2>2 DEF HitTold
<1>3. IsFiniteSet(hits)
  <2>1. IsFiniteSet(1..MaxNodes) /\ IsFiniteSet(Field)
    <3>1. IsFiniteSet(1..MaxNodes)
      BY MaxNodesAssumption, FS_Interval
    <3>2. IsFiniteSet(Field)
      <4>1. IsFiniteSet({"heading", "chapeau", "content"})
        BY ThreeAreFinite
      <4>2. IsFiniteSet({"proviso", "continuation", "footnotes"})
        BY ThreeAreFinite
      <4>3. Field = {"heading", "chapeau", "content"} \cup {"proviso", "continuation", "footnotes"}
        BY DEF Field
      <4> QED BY <4>1, <4>2, <4>3, FS_Union
    <3> QED BY <3>1, <3>2
  <2>2. Rows \in SUBSET (Memory!Held \X (1..MaxNodes))
    BY RowsAreNodes DEF Rows, Row, Ordinal
  <2>3. IsFiniteSet(Rows)
    BY <2>1, <2>2, FS_Product, FS_Subset
  <2>4. hits \in SUBSET (Rows \X Field)
    BY DEF HitsInScope
  <2> QED BY <2>1, <2>3, <2>4, FS_Product, FS_Subset
<1>4. SqlSearch(locator) =
        LET inOrder == InOrder(hits, HitBefore) IN
        [n \in DOMAIN inOrder |->
          [expr |-> inOrder[n][1][1], path |-> index[inOrder[n][1]].path, field |-> inOrder[n][2]]]
  BY DEF SqlSearch, HitsInScope
<1> HIDE DEF hits
<1>5. InOrder(hits, HitBefore) = list
  BY <1>1, HitsListed
<1>6. list \in Seq(hits) /\ Range(list) = hits
  <2>1. Orders(HitOrder, hits)
    BY <1>1, HitsInOrder, OrdersPart
  <2> QED BY <1>3, <2>1, OrderedIs
<1>7. SqlSearch(locator) = Each(Telling, list)
  <2>1. SqlSearch(locator) = [n \in DOMAIN list |->
          [expr |-> list[n][1][1], path |-> index[list[n][1]].path, field |-> list[n][2]]]
    BY <1>4, <1>5
  <2> HIDE DEF list
  <2>2. \A n \in DOMAIN list : list[n] \in hits /\ list[n] \in Hit
    BY <1>1, <1>6
  <2>3. \A n \in DOMAIN list : Telling[list[n]] =
          [expr |-> list[n][1][1], path |-> index[list[n][1]].path, field |-> list[n][2]]
    BY <1>2, <2>2 DEF Telling
  <2> QED BY <2>1, <2>3 DEF Each
<1> QED BY <1>6, <1>7 DEF hits

(* The two searches list the same hits where LIKE takes no other path's    *)
(* rows, and elsewhere SQLite's has those of the walk among its own.       *)
LEMMA SearchSame ==
  ASSUME TypeOK, IndexIsDocuments, IsFiniteSet(Memory!Held), NEW locator \in Locator
  PROVE  /\ LikeIsExact(locator) => SqlSearch(locator) = Memory!Search(locator)
         /\ Range(Memory!Search(locator)) \subseteq Range(SqlSearch(locator))
<1> DEFINE walk == Ordered(HitsSought(locator), HitOrder)
           list == Ordered(HitsInScope(locator), HitOrder)
<1>1. /\ walk \in Seq(HitsSought(locator)) /\ Range(walk) = HitsSought(locator)
      /\ Memory!Search(locator) = Each(Telling, walk)
  BY MemorySearch
<1>2. /\ list \in Seq(HitsInScope(locator)) /\ Range(list) = HitsInScope(locator)
      /\ SqlSearch(locator) = Each(Telling, list)
  BY SqlSearchIs
<1>3. /\ HitsSought(locator) \in SUBSET HitsInScope(locator)
      /\ LikeIsExact(locator) => HitsInScope(locator) = HitsSought(locator)
  BY ScopeOfHits
<1>4. LikeIsExact(locator) => SqlSearch(locator) = Memory!Search(locator)
  BY <1>1, <1>2, <1>3
<1> HIDE DEF walk, list
<1>5. Range(walk) \subseteq Range(list)
  BY <1>1, <1>2, <1>3
<1>6. Range(Each(Telling, walk)) \subseteq Range(Each(Telling, list))
  <2>1. ASSUME NEW n \in DOMAIN walk
        PROVE  \E m \in DOMAIN list : Each(Telling, list)[m] = Each(Telling, walk)[n]
    BY <1>5 DEF Range, Each
  <2>2. DOMAIN Each(Telling, walk) = DOMAIN walk /\ DOMAIN Each(Telling, list) = DOMAIN list
    BY DEF Each
  <2> QED BY <2>1, <2>2 DEF Range
<1> QED BY <1>1, <1>2, <1>4, <1>6
-----------------------------------------------------------------------------
(* Finitely many documents are held: each was added by a step, or came     *)
(* with a dataset somebody had in memory.                                  *)
HeldIsFinite == IsFiniteSet(Memory!Held)

LEMMA InitFinite == Init => HeldIsFinite
<1>1. Init => Memory!Held = {}
  BY DEF Init, Memory!Held
<1> QED BY <1>1, FS_EmptySet DEF HeldIsFinite

LEMMA StepFinite ==
  ASSUME Inv, HeldIsFinite, [Next]_vars
  PROVE  HeldIsFinite'
<1>1. ASSUME NEW e \in Expr, NEW tree \in Tree, AddExpression(e, tree)
      PROVE  HeldIsFinite'
  <2>1. Memory!Held' \in SUBSET (Memory!Held \cup {e})
    BY <1>1 DEF Inv, TypeOK, AddExpression, Memory!Held
  <2>2. IsFiniteSet(Memory!Held \cup {e})
    BY FS_AddElement DEF HeldIsFinite
  <2>3. IsFiniteSet(Memory!Held')
    BY <2>1, <2>2, FS_Subset
  <2> QED BY <2>3 DEF HeldIsFinite
<1>2. ASSUME NEW d \in Saved, Save(d) PROVE HeldIsFinite'
  <2>1. Memory!Held' = {e \in Expr : d.laws[e] # None}
    BY <1>2 DEF Save, Memory!Held
  <2>2. IsFiniteSet({e \in Expr : d.laws[e] # None})
    BY SavedAssumption DEF Dataset
  <2> QED BY <2>1, <2>2 DEF HeldIsFinite
<1>3. CASE UNCHANGED <<expressions, index>>
  BY <1>3 DEF HeldIsFinite, Memory!Held
<1> QED BY <1>1, <1>2, <1>3, NextKinds, BesideKeepsInv DEF vars

(* Whatever was added, replaced or saved, the index and the documents      *)
(* answer alike: the neighbours of every expression held and the nodes at  *)
(* every path, and under every locator whose path LIKE takes no other      *)
(* path's rows for, the hits of a search, one for one and in the same      *)
(* order, and whether there are any.  Under every other locator the index  *)
(* has those of the documents among its own.                               *)
THEOREM ReadersAreAlwaysAlike == Spec => []ReadersAlike
<1>1. ASSUME Inv, IndexIsDocuments, HeldIsFinite
      PROVE  ReadersAlike
  <2>1. TypeOK /\ IsFiniteSet(Memory!Held)
    BY <1>1 DEF Inv, HeldIsFinite
  <2>2. \A e \in Memory!Held :
          SqlNext(e) = Memory!NextExpression(e) /\ SqlPrev(e) = Memory!PrevExpression(e)
    BY <2>1, NeighboursSame
  <2>3. ASSUME NEW path \in Path
        PROVE  SqlFindNodes(path) = Memory!FindNodes(path) /\ SqlHasNode(path) = Memory!HasNode(path)
    <3>1. SqlHasNode(path) \in BOOLEAN /\ Memory!HasNode(path) \in BOOLEAN
      BY DEF SqlHasNode, Memory!HasNode
    <3>2. SqlHasNode(path) <=> Memory!HasNode(path)
      BY <1>1, <2>1, HasNodeSame
    <3> QED BY <1>1, <2>1, <3>1, <3>2, FindNodesSame
  <2>4. ASSUME NEW locator \in Asked
        PROVE  /\ LikeIsExact(locator) =>
                    /\ SqlSearch(locator) = Memory!Search(locator)
                    /\ SqlHoldsAny(locator) = Memory!HoldsAny(locator)
               /\ Memory!HoldsAny(locator) => SqlHoldsAny(locator)
               /\ Range(Memory!Search(locator)) \subseteq Range(SqlSearch(locator))
    <3>1. locator \in Locator
      BY AskedAssumption
    <3>2. SqlHoldsAny(locator) \in BOOLEAN /\ Memory!HoldsAny(locator) \in BOOLEAN
      BY DEF SqlHoldsAny, Memory!HoldsAny
    <3>3. /\ Memory!HoldsAny(locator) => SqlHoldsAny(locator)
          /\ LikeIsExact(locator) => (SqlHoldsAny(locator) <=> Memory!HoldsAny(locator))
      BY <1>1, <2>1, <3>1, HoldsAnySame
    <3>4. /\ LikeIsExact(locator) => SqlSearch(locator) = Memory!Search(locator)
          /\ Range(Memory!Search(locator)) \subseteq Range(SqlSearch(locator))
      BY <1>1, <2>1, <3>1, SearchSame
    <3> QED BY <3>2, <3>3, <3>4
  <2> QED BY <2>2, <2>3, <2>4 DEF ReadersAlike
<1> QED
  BY <1>1, InvAlways, IndexIsAlwaysDocuments, InitFinite, StepFinite, PTL DEF Spec
=============================================================================
