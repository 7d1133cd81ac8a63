------------------------------ MODULE AddCases ------------------------------
(***************************************************************************)
(* add-opinions reads every record of the cases asked for, through a       *)
(* client that keeps what it was answered and may spend a few requests,    *)
(* and stores each case (src/bin/words_to_data/add_opinions.rs,            *)
(* src/courtlistener/client.rs).  A record not answered ends the command;  *)
(* the user runs it again.                                                 *)
(***************************************************************************)
EXTENDS CaseRecords

CONSTANTS Quota, MaxFailures   \* requests in one window; answers that are lost

\* What the publisher holds, and what is asked of it: [records, clusters,
\* asked, stores].  It does not change.
\* `dataset` maps a case to the records it was last built from: what it holds
\* of the case is CaseOf of them.
VARIABLES published, cache, left, failures, run, dataset
vars == << published, cache, left, failures, run, dataset >>

Records == published.records      \* opinion id -> record
Clusters == published.clusters    \* cluster id -> cluster

Idle == [at |-> "idle", next |-> 1, records |-> {}, clusters |-> <<>>, built |-> 0]

InitFrom(cases) ==
  /\ published \in cases
  /\ cache = {}
  /\ left = Quota
  /\ failures = 0
  /\ run = Idle
  /\ dataset = [c \in DOMAIN Clusters |-> None]

-----------------------------------------------------------------------------
(* The client.  A request is counted before it is made.                     *)

\* Mutant: an answer is read and not kept.
ForgetRecord(key) ==
  \/ key \in cache /\ UNCHANGED << cache, left >>
  \/ key \notin cache /\ left > 0 /\ left' = left - 1 /\ UNCHANGED cache

GetRecord(key) ==
  \/ key \in cache /\ UNCHANGED << cache, left >>
  \/ key \notin cache /\ left > 0 /\ left' = left - 1 /\ cache' = cache \cup {key}

Refused(key) == key \notin cache /\ left = 0 /\ UNCHANGED << left, failures >>
Lost(key) ==
  key \notin cache /\ left > 0 /\ failures < MaxFailures /\ left' = left - 1 /\ failures' = failures + 1

-----------------------------------------------------------------------------
(* One run of the command.                                                  *)

Asked == published.asked[run.next]
ClusterOf(id) == Records[id].cluster
ReadAlready(cluster) == \E k \in DOMAIN run.clusters : run.clusters[k] = cluster

\* The record the run needs next, while it reads the cases asked for.
Siblings(cluster) == Clusters[cluster].opinions \ run.records

Wanted ==
  CASE run.at = "opinion" -> << "opinion", Asked >>
    [] run.at = "cluster" -> << "cluster", ClusterOf(Asked) >>
    [] run.at = "siblings" -> << "opinion", Min(Siblings(ClusterOf(Asked))) >>

Begin ==
  /\ run.at = "idle"
  /\ run' = [Idle EXCEPT !.at = "next"]
  /\ UNCHANGED << published, cache, left, failures, dataset >>

\* An opinion read already, for itself or as a sibling, is not asked again.
NextAsked ==
  /\ run.at = "next"
  /\ run' = IF run.next > Len(published.asked) THEN [run EXCEPT !.at = "build"]
            ELSE IF Asked \in run.records THEN [run EXCEPT !.next = @ + 1]
            ELSE [run EXCEPT !.at = "opinion"]
  /\ UNCHANGED << published, cache, left, failures, dataset >>

\* An opinion that names no cluster ends the run.
ReadOpinion ==
  /\ run.at = "opinion"
  /\ GetRecord(Wanted)
  /\ run' = IF ClusterOf(Asked) = None THEN Idle
            ELSE IF ReadAlready(ClusterOf(Asked))
            THEN [run EXCEPT !.at = "next", !.next = @ + 1, !.records = @ \cup {Asked}]
            ELSE [run EXCEPT !.at = "cluster", !.records = @ \cup {Asked}]
  /\ UNCHANGED << published, failures, dataset >>

ReadCluster ==
  /\ run.at = "cluster"
  /\ GetRecord(Wanted)
  /\ run' = [run EXCEPT !.at = "siblings"]
  /\ UNCHANGED << published, failures, dataset >>

ReadSibling ==
  /\ run.at = "siblings" /\ Siblings(ClusterOf(Asked)) # {}
  /\ GetRecord(Wanted)
  /\ run' = [run EXCEPT !.records = @ \cup {Min(Siblings(ClusterOf(Asked)))}]
  /\ UNCHANGED << published, failures, dataset >>

CaseRead ==
  /\ run.at = "siblings" /\ Siblings(ClusterOf(Asked)) = {}
  /\ run' = [run EXCEPT !.at = "next", !.next = @ + 1, !.clusters = Append(@, ClusterOf(Asked))]
  /\ UNCHANGED << published, cache, left, failures, dataset >>

\* The quota is spent, or the answer does not come: the command ends.
NotAnswered ==
  /\ run.at \in {"opinion", "cluster"} \/ (run.at = "siblings" /\ Siblings(ClusterOf(Asked)) # {})
  /\ Refused(Wanted) \/ Lost(Wanted)
  /\ run' = Idle
  /\ UNCHANGED << published, cache, dataset >>

\* The next case is stored whole, in place of what was held of it; one that
\* cannot be built ends the run, and the cases after it are not stored.
BuildCase ==
  LET cluster == Clusters[run.clusters[run.built + 1]]
      opinions == { Records[id] : id \in { r \in run.records : ClusterOf(r) = cluster.id } } IN
  /\ run.at = "build" /\ run.built < Len(run.clusters)
  /\ IF Readable(opinions)
     THEN /\ dataset' = [dataset EXCEPT ![cluster.id] = opinions]
          /\ run' = [run EXCEPT !.built = @ + 1]
     ELSE run' = Idle /\ UNCHANGED dataset
  /\ UNCHANGED << published, cache, left, failures >>

Finish ==
  /\ run.at = "build" /\ run.built = Len(run.clusters)
  /\ run' = [run EXCEPT !.at = "done"]
  /\ UNCHANGED << published, cache, left, failures, dataset >>

\* The publisher's window rolls on, whatever the command does.
NewWindow ==
  /\ left < Quota
  /\ left' = Quota
  /\ UNCHANGED << published, cache, failures, run, dataset >>

Step ==
  \/ Begin \/ NextAsked \/ ReadOpinion \/ ReadCluster \/ ReadSibling \/ CaseRead
  \/ NotAnswered \/ BuildCase \/ Finish

Next == Step \/ NewWindow

Fairness == WF_vars(Step) /\ WF_vars(NewWindow)

-----------------------------------------------------------------------------
(* Properties.                                                              *)

Stored(c) == dataset[c] # None
StoredCases == { [cluster |-> Clusters[c], nodes |-> CaseOf(Clusters[c], dataset[c]).nodes] :
                 c \in { d \in DOMAIN dataset : Stored(d) } }

WordsIn(node) == SelectSeq(node.text, LAMBDA t : t.t = "words")
IdsIn(node) == { node.text[k].id : k \in { j \in DOMAIN node.text : node.text[j].t = "words" } }

\* A case is whole: every word its records print is in one node of it, once,
\* and a node reads in the order the words are printed, whichever records and
\* fields they came from, however the tags nest and wherever a rule cut.  Only
\* the words that open a footnote which does not print its label may lose what
\* is taken for the label (src/courtlistener/structure.rs:553-571).
CaseIsWhole ==
  \A case \in StoredCases :
    LET words == FlattenSeq([i \in DOMAIN case.nodes |-> WordsIn(case.nodes[i])]) IN
    /\ \A id \in case.cluster.printed : Cardinality({ k \in DOMAIN words : words[k].id = id }) = 1
    /\ \A k \in DOMAIN words : words[k].cut => words[k].id \in case.cluster.unlabelled
    /\ \A k \in 1..(Len(words) - 1) :
         words[k].id.w = words[k + 1].id.w /\ words[k].id.in = words[k + 1].id.in
           => words[k].id.n < words[k + 1].id.n

IsUnder(writing, node) ==
  Len(node.path) >= Len(writing.path) /\ SubSeq(node.path, 1, Len(writing.path)) = writing.path

\* Where the publisher's records or their headings tell the writings of a case
\* apart, each is a node, and none holds words of another; a footnote's node
\* holds that writing's footnote of its label and nothing else.
WritingsApart ==
  \A case \in { x \in StoredCases : x.cluster.apart } :
    LET nodes == ToSet(case.nodes)
        writings == { node \in nodes : node.is = "opinion" }
        Leaves(w) == { node \in nodes : IsUnder(w, node) }
        Of(w) == { id.w : id \in UNION { IdsIn(node) : node \in Leaves(w) } } IN
    \A w \in writings :
      /\ Cardinality(Of(w)) = 1
      /\ \A v \in writings \ {w} : Of(v) # Of(w)
      /\ \A node \in Leaves(w) : node.is = "footnote" => \A id \in IdsIn(node) : id.in = Last(node.path)

\* A paragraph is stored under the page of the official reporter its first
\* words are printed on; every page of that reporter is a node, whether or not
\* a paragraph starts on it, and a page of a parallel reporter never is.
\* Left out: a paragraph that starts after a parallel page's mark, when the
\* official page changed inside an earlier paragraph (structure.rs:158).
PagesAreTrue ==
  \A case \in StoredCases :
    LET nodes == ToSet(case.nodes) IN
    /\ { Last(node.path) : node \in { n \in nodes : n.is = "page" } } = case.cluster.pages
    /\ \A node \in nodes :
         LET words == WordsIn(node) IN
         node.is = "paragraph" /\ case.cluster.pages # {} /\ words # <<>> /\ words[1].id.known =>
           node.path[Len(node.path) - 2] = words[1].id.page

\* A case that can be built, as can those asked before it, is stored in the
\* end, although one window's requests are too few for its records.
AllStored == <>(\A c \in DOMAIN dataset : published.stores[c] => Stored(c))
=============================================================================
