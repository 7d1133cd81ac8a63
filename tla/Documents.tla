----------------------------- MODULE Documents -----------------------------
(***************************************************************************)
(* The documents and links of a dataset, as every storage of them has it.  *)
(*                                                                         *)
(* An expression is one work on one date.  Its tree is the sequence of its *)
(* nodes in document order, which every walk of the code follows.  One     *)
(* query is asked throughout: a node says it in some of its text fields.   *)
(***************************************************************************)
EXTENDS Integers, FiniteSets, SequencesExt

CONSTANTS
  Expr,           \* <<work, date>>, numbered in the order their text sorts
  Path,           \* a path is a sequence of segments
  Tree,           \* the documents an expression may hold
  Link, About,    \* links by id, and the expression each is about
  Writes,         \* the verifications commands write links with
  Saved,          \* the datasets saved in place of this one
  None, Every

Work == {e[1] : e \in Expr}

Date == {e[2] : e \in Expr}

Field == {"heading", "chapeau", "content", "proviso", "continuation", "footnotes"}

FieldOrder ==
  <<"heading", "chapeau", "content", "proviso", "continuation", "footnotes">>

Node == [path : Path, says : SUBSET Field]

(* Whether a person has spoken of the link (VerificationState).            *)
Verification == {"machine", "human"}

ASSUME ExprAssumption == Expr \subseteq Nat \X Nat
ASSUME PathAssumption == \A path \in Path : path \in Seq(STRING) /\ path # <<>>
ASSUME LinkAssumption == About \in [Link -> Expr] /\ Writes \subseteq Verification
ASSUME NoneAssumption ==
  None \notin Tree /\ None \notin Verification /\ None \notin Node /\ None \notin Expr

(* A node lies one segment beneath a node before it, or is the root, so    *)
(* find_all loses nothing by going down only where the path goes.          *)
ASSUME TreeAssumption ==
  \A tree \in Tree :
    /\ tree \in Seq(Node) /\ tree # <<>>
    /\ \A i \in 2..Len(tree) : \E j \in 1..(i - 1) : tree[j].path = Front(tree[i].path)

(* A dataset somebody has in memory: finitely many documents, its links    *)
(* about laws it holds, and a run recorded after its links.                *)
Dataset ==
  {d \in [laws : [Expr -> Tree \cup {None}],
          links : [Link -> Verification \cup {None}],
          runs : SUBSET Link] :
     /\ IsFiniteSet({e \in Expr : d.laws[e] # None})
     /\ \A l \in Link : d.links[l] # None => d.laws[About[l]] # None
     /\ \A l \in d.runs : d.links[l] # None}

ASSUME SavedAssumption == Saved \subseteq Dataset

(* The elements of S one after another, by an order with no ties.          *)
InOrder(S, Before(_, _)) ==
  [i \in 1..Cardinality(S) |->
     CHOOSE x \in S : Cardinality({y \in S : Before(y, x)}) = i - 1]

ExprBefore(e, f) == e[1] < f[1] \/ (e[1] = f[1] /\ e[2] < f[2])

(* A locator asks of a work, of the dates between two ends, and of a path: *)
(* that alone, or everything beneath it too.  Every leaves a part open.    *)
Locator ==
  [work : Work \cup {Every}, window : (Date \X Date) \cup {Every},
   path : Path \cup {Every}, matching : {"exact", "subtree"}]
=============================================================================
