--------------------------- MODULE DocumentStore ---------------------------
(***************************************************************************)
(* A dataset, as the storage that holds it in memory gives it: the promise *)
(* that SqliteStore implements over tables.                                *)
(***************************************************************************)
EXTENDS Documents

VARIABLES
  laws,    \* the tree each expression holds
  links,   \* the verification of each link held
  runs     \* the links whose method's run is on record

vars == <<laws, links, runs>>

Held == {e \in Expr : laws[e] # None}

Init ==
  /\ laws = [e \in Expr |-> None]
  /\ links = [l \in Link |-> None]
  /\ runs = {}

AddExpression(e, tree) ==
  /\ laws' = [laws EXCEPT ![e] = tree]
  /\ UNCHANGED <<links, runs>>

(* A human's verdict is not overwritten by a machine restating the fact.   *)
AddLink(l, verification) ==
  /\ links[l] # "human"
  /\ links' = [links EXCEPT ![l] = verification]
  /\ UNCHANGED <<laws, runs>>

RecordRun(l) ==
  /\ runs' = runs \cup {l}
  /\ UNCHANGED <<laws, links>>

(* The storage is dropped for another.                                     *)
BecomeAnother(d) == laws' = d.laws /\ links' = d.links /\ runs' = d.runs

Next ==
  \/ \E e \in Expr, tree \in Tree : AddExpression(e, tree)
  \/ \E l \in Link, v \in Writes : AddLink(l, v)
  \/ \E l \in Link : RecordRun(l)
  \/ \E d \in Saved : BecomeAnother(d)

Spec == Init /\ [][Next]_vars
-----------------------------------------------------------------------------
(* all_expressions, of those wanted: by work, then oldest first.           *)
AllExpressions(Wanted(_)) == InOrder({e \in Held : Wanted(e)}, ExprBefore)

(* neighbour: what stands `offset` places on in its own work; nothing      *)
(* where `e` is not held.                                                  *)
Neighbour(e, offset) ==
  LET ofWork == AllExpressions(LAMBDA f : f[1] = e[1])
  IN {ofWork[i] : i \in {j \in DOMAIN ofWork :
                           j - offset \in DOMAIN ofWork /\ ofWork[j - offset] = e}}

NextExpression(e) == Neighbour(e, 1)

PrevExpression(e) == Neighbour(e, -1)

(* What every walk of each expression in turn meets, in order.             *)
Walk(Wanted(_), Met(_, _)) ==
  LET asked == AllExpressions(Wanted)
  IN FlattenSeq([n \in DOMAIN asked |->
       FlattenSeq([i \in DOMAIN laws[asked[n]] |-> Met(asked[n], i)])])

(* find_nodes: a path may name several nodes of one expression.            *)
FindNodes(path) ==
  Walk(LAMBDA e : TRUE,
       LAMBDA e, i : IF laws[e][i].path = path THEN <<<<e, i>>>> ELSE <<>>)

HasNode(path) ==
  \E e \in Held : \E i \in DOMAIN laws[e] : laws[e][i].path = path

LocatesExpression(locator, e) ==
  /\ locator.work # Every => e[1] = locator.work
  /\ locator.window # Every => e[2] \in locator.window[1]..locator.window[2]

(* PathMatch::accepts, by whole segments.                                  *)
LocatesPath(locator, path) ==
  locator.path # Every =>
    IF locator.matching = "exact" THEN path = locator.path ELSE IsPrefix(locator.path, path)

(* search_text_in: each field that says the query, where the locator asks, *)
(* in the order of the fields.                                             *)
Search(locator) ==
  Walk(LAMBDA e : LocatesExpression(locator, e),
       LAMBDA e, i :
         LET node == laws[e][i]
             hit(field) == [expr |-> e, path |-> node.path, field |-> field]
         IN IF LocatesPath(locator, node.path)
            THEN FlattenSeq([n \in DOMAIN FieldOrder |->
                   IF FieldOrder[n] \in node.says THEN <<hit(FieldOrder[n])>> ELSE <<>>])
            ELSE <<>>)

HoldsAny(locator) ==
  \E e \in Held :
    /\ LocatesExpression(locator, e)
    /\ \E i \in DOMAIN laws[e] : LocatesPath(locator, laws[e][i].path)
=============================================================================
