------------------------------- MODULE Ledger -------------------------------
(***************************************************************************)
(* What a dataset file promises, whatever commands grow it and wherever    *)
(* they are killed: links and method runs are only ever added, a run is    *)
(* added only when the links of one of its backings are all there, and a   *)
(* declaration changes only to one a user wrote.                           *)
(***************************************************************************)
CONSTANTS Link, MethodRun, Backing, Declaration, NoDeclaration

VARIABLES links, runs, declaration

ledger == <<links, runs, declaration>>

Init == links = {} /\ runs = {} /\ declaration = NoDeclaration

AddLink ==
  /\ \E l \in Link : links' = links \cup {l}
  /\ UNCHANGED <<runs, declaration>>

AddRuns ==
  /\ \E new \in SUBSET MethodRun :
       /\ \A r \in new : \E s \in Backing[r] : s \subseteq links
       /\ runs' = runs \cup new
  /\ UNCHANGED <<links, declaration>>

Declare ==
  /\ declaration' \in Declaration
  /\ UNCHANGED <<links, runs>>

Next == AddLink \/ AddRuns \/ Declare

Spec == Init /\ [][Next]_ledger
=============================================================================
