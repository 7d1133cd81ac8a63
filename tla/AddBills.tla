------------------------------ MODULE AddBills ------------------------------
(***************************************************************************)
(* add-bills on a SQLite dataset changed in place (congress_bills::add_all *)
(* and Dataset::load_bill_download): it asks which bills the dataset does  *)
(* not hold, fetches those, and stores each by a row of writes that commit *)
(* one by one, the bill itself first.  At the end it records what the      *)
(* bills it loaded renumbered.  Several runs may be at it at once, and a   *)
(* run may end between any two writes: killed, refused by a busy database, *)
(* or by markup that states no day of approval.                            *)
(*                                                                         *)
(* What a bill's download holds is a constant: the members it names, and   *)
(* its roll calls, each the set of members with a position in it.          *)
(***************************************************************************)
EXTENDS Naturals, Sequences

CONSTANTS
  Process,
  Bill,
  Member,
  MembersOf,  \* [Bill -> SUBSET Member]
  CallsOf,    \* [Bill -> Seq(SUBSET Member)]
  Undated,    \* bills whose markup states no day of approval
  Asks,       \* the sets of bills a run may be given
  Fails       \* a run may end before it is done

ASSUME DownloadAssumption ==
  /\ MembersOf \in [Bill -> SUBSET Member]
  /\ DOMAIN CallsOf = Bill
  /\ \A b \in Bill : CallsOf[b] \in Seq(SUBSET Member)
ASSUME AsksAssumption == Asks \subseteq SUBSET Bill
ASSUME FailsAssumption == Fails \in BOOLEAN

VARIABLES
  bills, documents, sponsors, members,  \* the tables keyed by id
  rows,       \* roll_calls by id, each with its member_votes: [bill, call, cast]
  placed,     \* the bills whose renumberings are recorded
  completed,  \* every bill loaded by a run that came to its end
  at,         \* what each process is at
  asked,      \* the bills it has still to look up,
  queue,      \* those it has still to store,
  loaded,     \* those it has stored,
  toPlace,    \* and those of them it has still to record renumberings of
  hand,       \* the bill it is storing, if any: a set of one,
  left,       \* the members of it, or of one of its roll calls, to be written,
  call, row,  \* how many of its roll calls are inserted, and the id of the last
  beside      \* a run has been started beside another

tables == <<bills, documents, sponsors, members, rows, placed, completed>>
lists == <<asked, queue, loaded, toPlace>>
storing == <<hand, left, call, row>>
vars == <<tables, at, lists, storing, beside>>

Init ==
  /\ bills = {} /\ documents = {} /\ sponsors = {} /\ members = {}
  /\ rows = <<>>
  /\ placed = {}
  /\ completed = {}
  /\ at = [p \in Process |-> "rest"]
  /\ asked = [p \in Process |-> {}]
  /\ queue = [p \in Process |-> {}]
  /\ loaded = [p \in Process |-> {}]
  /\ toPlace = [p \in Process |-> {}]
  /\ hand = [p \in Process |-> {}]
  /\ left = [p \in Process |-> {}]
  /\ call = [p \in Process |-> 0]
  /\ row = [p \in Process |-> 0]
  /\ beside = FALSE

Start(p) ==
  /\ at[p] = "rest"
  /\ at' = [at EXCEPT ![p] = "asking"]
  /\ \E named \in Asks : asked' = [asked EXCEPT ![p] = named]
  /\ beside' = (beside \/ \E q \in Process : at[q] # "rest")
  /\ UNCHANGED <<tables, queue, loaded, toPlace, storing>>

(* The process is gone, and all it knew.                                   *)
End(p) ==
  /\ at' = [at EXCEPT ![p] = "rest"]
  /\ asked' = [asked EXCEPT ![p] = {}]
  /\ queue' = [queue EXCEPT ![p] = {}]
  /\ loaded' = [loaded EXCEPT ![p] = {}]
  /\ toPlace' = [toPlace EXCEPT ![p] = {}]
  /\ hand' = [hand EXCEPT ![p] = {}]
  /\ left' = [left EXCEPT ![p] = {}]
  /\ call' = [call EXCEPT ![p] = 0]
  /\ row' = [row EXCEPT ![p] = 0]

(* Mutant: the dataset is not asked.                                       *)
NeverHeld(b) == FALSE

(* get_bill finds a row.                                                   *)
Held(b) == b \in bills

(* One get_bill for each bill named: one that is held is neither fetched   *)
(* nor loaded.                                                             *)
AskFor(p) ==
  /\ at[p] = "asking"
  /\ \E b \in asked[p] :
       /\ asked' = [asked EXCEPT ![p] = @ \ {b}]
       /\ queue' = IF Held(b) THEN queue ELSE [queue EXCEPT ![p] = @ \cup {b}]
  /\ UNCHANGED <<tables, at, loaded, toPlace, storing>>

(* Every bill is fetched before any is stored.                             *)
FetchAll(p) ==
  /\ at[p] = "asking"
  /\ asked[p] = {}
  /\ at' = [at EXCEPT ![p] = "storing"]
  /\ UNCHANGED <<tables, lists, storing>>

AddBill(p) ==
  /\ at[p] = "storing"
  /\ \E b \in queue[p] :
       /\ bills' = bills \cup {b}
       /\ queue' = [queue EXCEPT ![p] = @ \ {b}]
       /\ hand' = [hand EXCEPT ![p] = {b}]
  /\ at' = [at EXCEPT ![p] = "document"]
  /\ UNCHANGED <<documents, sponsors, members, rows, placed, completed,
                 asked, loaded, toPlace, left, call, row>>

(* bill_expression and add_expression.                                     *)
AddDocument(p) ==
  /\ at[p] = "document"
  /\ hand[p] \cap Undated = {}
  /\ documents' = documents \cup hand[p]
  /\ at' = [at EXCEPT ![p] = "sponsor"]
  /\ UNCHANGED <<bills, sponsors, members, rows, placed, completed, lists, storing>>

(* approved_date answers an error, and the command exits with it.          *)
RefuseDocument(p) ==
  /\ at[p] = "document"
  /\ hand[p] \cap Undated # {}
  /\ End(p)
  /\ UNCHANGED tables

AddSponsorInfo(p) ==
  /\ at[p] = "sponsor"
  /\ sponsors' = sponsors \cup hand[p]
  /\ \E b \in hand[p] : left' = [left EXCEPT ![p] = MembersOf[b]]
  /\ at' = [at EXCEPT ![p] = "members"]
  /\ UNCHANGED <<bills, documents, members, rows, placed, completed,
                 lists, hand, call, row>>

AddMember(p) ==
  /\ at[p] = "members"
  /\ \E m \in left[p] :
       /\ members' = members \cup {m}
       /\ left' = [left EXCEPT ![p] = @ \ {m}]
  /\ UNCHANGED <<bills, documents, sponsors, rows, placed, completed,
                 at, lists, hand, call, row>>

AddBillVotes(p) ==
  /\ at[p] = "members"
  /\ left[p] = {}
  /\ at' = [at EXCEPT ![p] = "votes"]
  /\ UNCHANGED <<tables, lists, storing>>

(* Mutant: the first roll call's members are the votes of all of them.     *)
VotersOfFirst(b, k) == CallsOf[b][1]

VotersOf(b, k) == CallsOf[b][k]

(* Mutant: the id is read before the insert.                               *)
RowidBefore(table) == Len(table) - 1

(* last_insert_rowid, read after the insert.                               *)
LastInsertRowid(table) == Len(table)

(* The loop of add_bill_votes: a roll call, and then its members.          *)
AddRollCall(p) ==
  /\ at[p] = "votes"
  /\ left[p] = {}
  /\ \E b \in hand[p] :
       /\ call[p] < Len(CallsOf[b])
       /\ rows' = Append(rows, [bill |-> b, call |-> call[p] + 1, cast |-> {}])
       /\ left' = [left EXCEPT ![p] = VotersOf(b, call[p] + 1)]
  /\ call' = [call EXCEPT ![p] = @ + 1]
  /\ row' = [row EXCEPT ![p] = LastInsertRowid(rows')]
  /\ UNCHANGED <<bills, documents, sponsors, members, placed, completed, at, lists, hand>>

AddMemberVote(p) ==
  /\ at[p] = "votes"
  /\ \E m \in left[p] :
       /\ rows' = [rows EXCEPT ![row[p]].cast = @ \cup {m}]
       /\ left' = [left EXCEPT ![p] = @ \ {m}]
  /\ UNCHANGED <<bills, documents, sponsors, members, placed, completed,
                 at, lists, hand, call, row>>

BillLoaded(p) ==
  /\ at[p] = "votes"
  /\ left[p] = {}
  /\ \A b \in hand[p] : call[p] = Len(CallsOf[b])
  /\ at' = [at EXCEPT ![p] = "storing"]
  /\ loaded' = [loaded EXCEPT ![p] = @ \cup hand[p]]
  /\ toPlace' = [toPlace EXCEPT ![p] = @ \cup hand[p]]
  /\ hand' = [hand EXCEPT ![p] = {}]
  /\ call' = [call EXCEPT ![p] = 0]
  /\ row' = [row EXCEPT ![p] = 0]
  /\ UNCHANGED <<tables, asked, queue, left>>

(* record_redesignations, for each bill loaded (RedesignationWindow).      *)
RecordRedesignations(p) ==
  /\ at[p] = "storing"
  /\ queue[p] = {}
  /\ \E b \in toPlace[p] :
       /\ placed' = placed \cup {b}
       /\ toPlace' = [toPlace EXCEPT ![p] = @ \ {b}]
  /\ UNCHANGED <<bills, documents, sponsors, members, rows, completed,
                 at, asked, queue, loaded, storing>>

Finish(p) ==
  /\ at[p] = "storing"
  /\ queue[p] = {}
  /\ toPlace[p] = {}
  /\ completed' = completed \cup loaded[p]
  /\ End(p)
  /\ UNCHANGED <<bills, documents, sponsors, members, rows, placed>>

(* Killed, or ended by a write or a read that failed.                      *)
Stop(p) ==
  /\ Fails
  /\ at[p] # "rest"
  /\ End(p)
  /\ UNCHANGED tables

Step(p) ==
  \/ Start(p)
  \/ /\ \/ AskFor(p) \/ FetchAll(p)
        \/ AddBill(p) \/ AddDocument(p) \/ RefuseDocument(p) \/ AddSponsorInfo(p)
        \/ AddMember(p) \/ AddBillVotes(p) \/ AddRollCall(p) \/ AddMemberVote(p)
        \/ BillLoaded(p) \/ RecordRedesignations(p) \/ Finish(p) \/ Stop(p)
     /\ UNCHANGED beside

Next == \E p \in Process : Step(p)

Spec == Init /\ [][Next]_vars
-----------------------------------------------------------------------------
Stage == {"rest", "asking", "storing", "document", "sponsor", "members", "votes"}

TypeOK ==
  /\ bills \subseteq Bill /\ documents \subseteq Bill /\ sponsors \subseteq Bill
  /\ members \subseteq Member
  /\ rows \in Seq([bill : Bill, call : Nat, cast : SUBSET Member])
  /\ placed \subseteq Bill /\ completed \subseteq Bill
  /\ at \in [Process -> Stage]
  /\ asked \in [Process -> SUBSET Bill] /\ queue \in [Process -> SUBSET Bill]
  /\ loaded \in [Process -> SUBSET Bill] /\ toPlace \in [Process -> SUBSET Bill]
  /\ hand \in [Process -> SUBSET Bill]
  /\ left \in [Process -> SUBSET Member]
  /\ call \in [Process -> Nat] /\ row \in [Process -> Nat]
  /\ beside \in BOOLEAN
  /\ \A p \in Process :
       at[p] = "votes" /\ left[p] # {} => row[p] \in DOMAIN rows

(* What the tables hold of a bill.                                         *)
HasCall(b, k) ==
  \E i \in DOMAIN rows : /\ rows[i].bill = b /\ rows[i].call = k
                         /\ CallsOf[b][k] \subseteq rows[i].cast

HasRecords(b) ==
  /\ b \in bills \cap documents \cap sponsors
  /\ MembersOf[b] \subseteq members
  /\ \A k \in DOMAIN CallsOf[b] : HasCall(b, k)

(* A bill that a run loaded and then came to its end is all there: a run   *)
(* that says it added a bill did, whoever else wrote (congress_bills.rs).  *)
LoadedIsWhole == \A b \in completed : HasRecords(b) /\ b \in placed

(* While runs go one at a time, a roll call is in the dataset once, however *)
(* often its bill is asked for and wherever a run ended (congress_bills.rs  *)
(* :52-53).  Two runs at once may both find a bill absent and insert its    *)
(* roll calls twice: the table has no key on the vote (sqlite.rs:1684).     *)
VotesOnce ==
  ~beside =>
    \A i, j \in DOMAIN rows :
      rows[i].bill = rows[j].bill /\ rows[i].call = rows[j].call => i = j

(* Mutant: the last roll call of the bill without votes takes them.        *)
LastUnfilled(read, n) ==
  {i \in DOMAIN rows : /\ rows[i].bill = rows[n].bill /\ read[i] = {}
                       /\ \A j \in DOMAIN rows :
                            rows[j].bill = rows[n].bill /\ read[j] = {} => j <= i}

FirstUnfilled(read, n) ==
  {i \in DOMAIN rows : /\ rows[i].bill = rows[n].bill /\ read[i] = {}
                       /\ \A j \in DOMAIN rows :
                            rows[j].bill = rows[n].bill /\ read[j] = {} => i <= j}

(* load_bill_votes: the member votes of each roll call in turn go to the   *)
(* bill's first roll call that has none yet.                               *)
LoadBillVotes ==
  LET filled[n \in 0..Len(rows)] ==
        IF n = 0 THEN [i \in DOMAIN rows |-> {}]
        ELSE [i \in DOMAIN rows |->
                IF i \in FirstUnfilled(filled[n - 1], n)
                THEN rows[n].cast ELSE filled[n - 1][i]]
  IN filled[Len(rows)]

(* votes_by_member joins the two tables.                                   *)
VotesByMember(m) == {i \in DOMAIN rows : m \in rows[i].cast}

(* The two ways to read votes agree, while runs go one at a time: a bill's  *)
(* votes hold a member in the roll calls that the member's votes name       *)
(* (sqlite.rs:998, 1491-1577).  Every roll call but the last inserted must  *)
(* have a readable position, or the next one's votes become its own.        *)
ReadersAgree ==
  ~beside =>
    \A m \in Member :
      VotesByMember(m) = {i \in DOMAIN rows : m \in LoadBillVotes[i]}
=============================================================================
