---------------------------- MODULE SqliteStore ----------------------------
(***************************************************************************)
(* A dataset in a SQLite file: the tables, the writes of the processes     *)
(* that have it open, and a reader that loads it whole into memory.        *)
(*                                                                         *)
(* The trees are stored as documents.  Beside them an index holds a row    *)
(* for each node, and most questions are answered from the index alone:    *)
(* it must say what the documents say.                                     *)
(***************************************************************************)
EXTENDS Documents

CONSTANTS
  Proc,        \* processes that write links
  MaxNodes,    \* bound: the longest tree
  Asked,       \* the locators readers use
  Likes        \* <<asked, path>>: the paths LIKE takes for beneath the one asked

VARIABLES
  expressions,   \* table: the tree of each expression held
  index,         \* table element_index: the node at each (expression, ordinal)
  links,         \* table: the verification of each link
  runs,          \* in the metadata row: the links whose run is on record
  adding,        \* the link each process has looked up and not yet written
  loading        \* the load into memory that is under way

vars == <<expressions, index, links, runs, adding, loading>>

Memory == INSTANCE DocumentStore WITH laws <- expressions

ASSUME MaxNodesAssumption ==
  MaxNodes \in Nat /\ \A tree \in Tree : tree \in Seq(Node) /\ Len(tree) \in 1..MaxNodes
ASSUME AskedAssumption == Asked \subseteq Locator
ASSUME LikesAssumption ==
  \A asked, path \in Path : IsPrefix(asked, path) /\ asked # path => <<asked, path>> \in Likes

Ordinal == 1..MaxNodes

Row == Expr \X Ordinal

NoLoad == [at |-> "idle"]

Init ==
  /\ expressions = [e \in Expr |-> None]
  /\ index = [r \in Row |-> None]
  /\ links = [l \in Link |-> None]
  /\ runs = {}
  /\ adding = [p \in Proc |-> None]
  /\ loading = NoLoad
-----------------------------------------------------------------------------
(* INSERT OR REPLACE of a row for each node, the ordinal being its place.  *)
IndexElement(rows, e, tree) ==
  [r \in Row |-> IF r[1] = e /\ r[2] <= Len(tree) THEN tree[r[2]] ELSE rows[r]]

(* Mutant: the old rows stay, where no new row takes their ordinal.        *)
AddExpressionOver(e, tree) ==
  /\ expressions' = [expressions EXCEPT ![e] = tree]
  /\ index' = IndexElement(index, e, tree)
  /\ UNCHANGED <<links, runs, adding, loading>>

(* The tree, the removal of its old rows and the new rows: one transaction.*)
AddExpression(e, tree) ==
  /\ expressions' = [expressions EXCEPT ![e] = tree]
  /\ index' = IndexElement([r \in Row |-> IF r[1] = e THEN None ELSE index[r]], e, tree)
  /\ UNCHANGED <<links, runs, adding, loading>>

(* Mutant: nobody looks who spoke of the link.                             *)
LookUpLinkOnly(p) ==
  /\ adding[p] = None
  /\ \E l \in Link, v \in Writes :
       /\ expressions[About[l]] # None
       /\ adding' = [adding EXCEPT ![p] = [link |-> l, verification |-> v]]
  /\ UNCHANGED <<expressions, index, links, runs, loading>>

(* Mutant: a link about a law that is not held.                            *)
LookUpAnyLink(p) ==
  /\ adding[p] = None
  /\ \E l \in Link, v \in Writes :
       /\ links[l] # "human"
       /\ adding' = [adding EXCEPT ![p] = [link |-> l, verification |-> v]]
  /\ UNCHANGED <<expressions, index, links, runs, loading>>

(* add_link reads the stored verification, and returns if a human spoke.   *)
(* Commands write links about laws the dataset holds.                      *)
LookUpLink(p) ==
  /\ adding[p] = None
  /\ \E l \in Link, v \in Writes :
       /\ expressions[About[l]] # None
       /\ links[l] # "human"
       /\ adding' = [adding EXCEPT ![p] = [link |-> l, verification |-> v]]
  /\ UNCHANGED <<expressions, index, links, runs, loading>>

(* The row is written by a second statement, in no transaction.            *)
WriteLink(p) ==
  /\ adding[p] # None
  /\ links' = [links EXCEPT ![adding[p].link] = adding[p].verification]
  /\ adding' = [adding EXCEPT ![p] = None]
  /\ UNCHANGED <<expressions, index, runs, loading>>

(* The process is killed in between.                                       *)
KillWriter(p) ==
  /\ adding[p] # None
  /\ adding' = [adding EXCEPT ![p] = None]
  /\ UNCHANGED <<expressions, index, links, runs, loading>>

(* set_metadata: a command records its run when its links are written.     *)
RecordRun(l) ==
  /\ links[l] # None
  /\ runs' = runs \cup {l}
  /\ UNCHANGED <<expressions, index, links, adding, loading>>

(* A dataset is saved to the file's name.  The command removes the file    *)
(* first, and who has that open goes on with it unseen.  save_from_memory  *)
(* then fills empty tables, in one transaction.                            *)
Save(d) ==
  /\ expressions' = d.laws
  /\ index' = [r \in Row |->
       IF d.laws[r[1]] # None /\ r[2] <= Len(d.laws[r[1]]) THEN d.laws[r[1]][r[2]] ELSE None]
  /\ links' = d.links
  /\ runs' = d.runs
  /\ adding' = [p \in Proc |-> None]
  /\ loading' = NoLoad
-----------------------------------------------------------------------------
(* Mutant: the metadata is read with the links, after them.                *)
LoadLinksFirst ==
  /\ loading.at = "expressions"
  /\ loading' = [at |-> "links", runs |-> runs, laws |-> loading.laws, links |-> links]
  /\ UNCHANGED <<expressions, index, links, runs, adding>>

(* to_memory reads one table after another, in no transaction: first the   *)
(* metadata,                                                               *)
LoadMetadata ==
  /\ loading = NoLoad
  /\ loading' = [at |-> "metadata", runs |-> runs]
  /\ UNCHANGED <<expressions, index, links, runs, adding>>

(* then the documents,                                                     *)
LoadExpressions ==
  /\ loading.at = "metadata"
  /\ loading' = [at |-> "expressions", runs |-> loading.runs, laws |-> expressions]
  /\ UNCHANGED <<expressions, index, links, runs, adding>>

(* and the links after them.                                               *)
LoadLinks ==
  /\ loading.at = "expressions"
  /\ loading' = [at |-> "links", runs |-> loading.runs, laws |-> loading.laws, links |-> links]
  /\ UNCHANGED <<expressions, index, links, runs, adding>>

(* The load ends, or is killed.                                            *)
EndLoad ==
  /\ loading # NoLoad
  /\ loading' = NoLoad
  /\ UNCHANGED <<expressions, index, links, runs, adding>>

Next ==
  \/ \E e \in Expr, tree \in Tree : AddExpression(e, tree)
  \/ \E p \in Proc : LookUpLink(p) \/ WriteLink(p) \/ KillWriter(p)
  \/ \E l \in Link : RecordRun(l)
  \/ \E d \in Saved : Save(d)
  \/ LoadMetadata \/ LoadExpressions \/ LoadLinks \/ EndLoad

Spec == Init /\ [][Next]_vars
-----------------------------------------------------------------------------
(* The rows of the index.                                                  *)
Rows == {r \in Row : index[r] # None}

RowBefore(r, s) ==
  ExprBefore(r[1], s[1]) \/ (r[1] = s[1] /\ r[2] < s[2])

(* WHERE work = and date > (or <) that of `e`, the nearest one; `e` itself *)
(* need not be held.                                                       *)
SqlNext(e) ==
  LET later == {f \in Memory!Held : f[1] = e[1] /\ f[2] > e[2]}
  IN {f \in later : \A g \in later : f[2] <= g[2]}

SqlPrev(e) ==
  LET earlier == {f \in Memory!Held : f[1] = e[1] /\ f[2] < e[2]}
  IN {f \in earlier : \A g \in earlier : g[2] <= f[2]}

(* The index gives the expressions, and their documents the nodes.         *)
SqlFindNodes(path) ==
  LET wanted == {r[1] : r \in {q \in Rows : index[q].path = path}} \cap Memory!Held
      found == {q \in wanted \X Ordinal :
                  q[2] <= Len(expressions[q[1]]) /\ expressions[q[1]][q[2]].path = path}
  IN InOrder(found, RowBefore)

SqlHasNode(path) == \E r \in Rows : index[r].path = path

(* path LIKE :beneath.  Upper and lower case are one to LIKE, and a `_` in *)
(* the path asked stands for any character.                                *)
LikeBeneath(asked, path) == <<asked, path>> \in Likes

(* ScopeClause.                                                            *)
InScope(locator, r) ==
  /\ locator.work # Every => r[1][1] = locator.work
  /\ locator.window # Every => r[1][2] >= locator.window[1] /\ r[1][2] <= locator.window[2]
  /\ locator.path # Every =>
       \/ index[r].path = locator.path
       \/ locator.matching = "subtree" /\ LikeBeneath(locator.path, index[r].path)

FieldRank(field) == CHOOSE n \in DOMAIN FieldOrder : FieldOrder[n] = field

(* Mutant: the hits of an expression field by field.                       *)
HitBeforeByRank(h, g) ==
  \/ ExprBefore(h[1][1], g[1][1])
  \/ h[1][1] = g[1][1] /\ FieldRank(h[2]) < FieldRank(g[2])
  \/ h[1][1] = g[1][1] /\ FieldRank(h[2]) = FieldRank(g[2]) /\ h[1][2] < g[1][2]

(* ORDER BY work, date, ordinal, field_rank.                               *)
HitBefore(h, g) ==
  RowBefore(h[1], g[1]) \/ (h[1] = g[1] /\ FieldRank(h[2]) < FieldRank(g[2]))

(* The union over the text fields.                                         *)
SqlSearch(locator) ==
  LET hits == {h \in Rows \X Field : h[2] \in index[h[1]].says /\ InScope(locator, h[1])}
      inOrder == InOrder(hits, HitBefore)
  IN [n \in DOMAIN inOrder |->
        [expr |-> inOrder[n][1][1], path |-> index[inOrder[n][1]].path, field |-> inOrder[n][2]]]

SqlHoldsAny(locator) == \E r \in Rows : InScope(locator, r)

(* LIKE takes no row of the index for beneath this path that is not.       *)
LikeIsExact(locator) ==
  locator.path # Every /\ locator.matching = "subtree" =>
    \A r \in Rows :
      LikeBeneath(locator.path, index[r].path) => IsPrefix(locator.path, index[r].path)
-----------------------------------------------------------------------------
(* What a load that has come this far has read.                            *)
Loading ==
  {NoLoad}
  \cup [at : {"metadata"}, runs : SUBSET Link]
  \cup [at : {"expressions"}, runs : SUBSET Link, laws : [Expr -> Tree \cup {None}]]
  \cup [at : {"links"}, runs : SUBSET Link, laws : [Expr -> Tree \cup {None}],
        links : [Link -> Verification \cup {None}]]

(* Every table holds values of its columns, and a link about to be written *)
(* is about a law the file holds.                                          *)
TypeOK ==
  /\ expressions \in [Expr -> Tree \cup {None}]
  /\ index \in [Row -> Node \cup {None}]
  /\ links \in [Link -> Verification \cup {None}]
  /\ runs \in SUBSET Link
  /\ adding \in [Proc -> [link : Link, verification : Writes] \cup {None}]
  /\ \A p \in Proc : adding[p] # None => expressions[About[adding[p].link]] # None
  /\ loading \in Loading

(* The index holds a row for each node of each document held, and no other:*)
(* a row left behind names a provision the dataset no longer holds, and    *)
(* has_node and search_text read nothing else (storage/sqlite.rs:1601).    *)
IndexIsDocuments ==
  \A r \in Row :
    index[r] = IF expressions[r[1]] # None /\ r[2] <= Len(expressions[r[1]])
               THEN expressions[r[1]][r[2]]
               ELSE None

(* The two backends answer alike (storage/mod.rs:230): neighbours of an    *)
(* expression held, the nodes at a path in order, and, where LIKE takes no *)
(* other path for one beneath the path asked, the hits of a search in      *)
(* order and whether a locator reaches anything.  Where it does, the file  *)
(* answers more than the dataset in memory, never less.                    *)
ReadersAlike ==
  /\ \A e \in Memory!Held :
       SqlNext(e) = Memory!NextExpression(e) /\ SqlPrev(e) = Memory!PrevExpression(e)
  /\ \A path \in Path :
       SqlFindNodes(path) = Memory!FindNodes(path) /\ SqlHasNode(path) = Memory!HasNode(path)
  /\ \A locator \in Asked :
       /\ LikeIsExact(locator) =>
            /\ SqlSearch(locator) = Memory!Search(locator)
            /\ SqlHoldsAny(locator) = Memory!HoldsAny(locator)
       /\ Memory!HoldsAny(locator) => SqlHoldsAny(locator)
       /\ Range(Memory!Search(locator)) \subseteq Range(SqlSearch(locator))

(* However the file grows while it is loaded, a run on record in what was  *)
(* loaded has its links there, and they are about laws loaded too: the     *)
(* metadata is read first and the links last (storage/sqlite.rs:781).      *)
LoadedRunsHaveLinks ==
  loading.at = "links" =>
    \A l \in loading.runs : loading.links[l] # None /\ loading.laws[About[l]] # None

(* Every write is one write of the dataset in memory, or none: with two    *)
(* processes between the two statements of add_link, no machine takes a    *)
(* human's verdict away (storage/sqlite.rs:1635).                          *)
KeepsMemory == Memory!Spec
=============================================================================
