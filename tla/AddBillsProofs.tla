--------------------------- MODULE AddBillsProofs ---------------------------
(***************************************************************************)
(* What AddBills promises for every set of bills, members and roll calls.  *)
(***************************************************************************)
EXTENDS AddBills, WellFoundedInduction, TLAPS

USE DEF vars, tables, lists, storing

Row == [bill : Bill, call : Nat, cast : SUBSET Member]

(* Inserting a roll call appends a row, and writing a member's vote adds   *)
(* the member to one: no row is lost or changes what it is of.             *)
LEMMA InsertAppends ==
  ASSUME TypeOK, NEW p \in Process, AddRollCall(p)
  PROVE  \E b \in hand[p] :
           /\ b \in Bill /\ call[p] + 1 \in 1..Len(CallsOf[b])
           /\ rows' = Append(rows, [bill |-> b, call |-> call[p] + 1, cast |-> {}])
           /\ rows' \in Seq(Row) /\ Len(rows') = Len(rows) + 1 /\ Len(rows) \in Nat
           /\ left' = [left EXCEPT ![p] = CallsOf[b][call[p] + 1]]
           /\ CallsOf[b][call[p] + 1] \subseteq Member
           /\ rows'[Len(rows')] = [bill |-> b, call |-> call[p] + 1, cast |-> {}]
           /\ \A i \in DOMAIN rows : i \in DOMAIN rows' /\ rows'[i] = rows[i]
           /\ DOMAIN rows' = DOMAIN rows \cup {Len(rows')}
           /\ row' = [row EXCEPT ![p] = Len(rows')]
<1>1. PICK b \in hand[p] :
        /\ call[p] < Len(CallsOf[b])
        /\ rows' = Append(rows, [bill |-> b, call |-> call[p] + 1, cast |-> {}])
        /\ left' = [left EXCEPT ![p] = CallsOf[b][call[p] + 1]]
  BY DEF AddRollCall, VotersOf
<1>2. b \in Bill /\ call[p] \in Nat /\ rows \in Seq(Row)
  BY DEF TypeOK, Row
<1>3. [bill |-> b, call |-> call[p] + 1, cast |-> {}] \in Row
  BY <1>2 DEF Row
<1>4. CallsOf[b] \in Seq(SUBSET Member) /\ call[p] + 1 \in 1..Len(CallsOf[b])
  BY <1>1, <1>2, DownloadAssumption
<1>5. CallsOf[b][call[p] + 1] \subseteq Member
  BY <1>4
<1>6. /\ rows' \in Seq(Row) /\ Len(rows') = Len(rows) + 1 /\ Len(rows) \in Nat
      /\ rows'[Len(rows')] = [bill |-> b, call |-> call[p] + 1, cast |-> {}]
      /\ \A i \in DOMAIN rows : i \in DOMAIN rows' /\ rows'[i] = rows[i]
      /\ DOMAIN rows' = DOMAIN rows \cup {Len(rows')}
  BY <1>1, <1>2, <1>3
<1>7. row' = [row EXCEPT ![p] = Len(rows')]
  BY DEF AddRollCall, LastInsertRowid
<1> QED
  BY <1>1, <1>2, <1>4, <1>5, <1>6, <1>7

LEMMA VoteIsAdded ==
  ASSUME TypeOK, NEW p \in Process, AddMemberVote(p)
  PROVE  \E m \in left[p] :
           /\ rows' \in Seq(Row) /\ DOMAIN rows' = DOMAIN rows
           /\ row[p] \in DOMAIN rows
           /\ left' = [left EXCEPT ![p] = @ \ {m}]
           /\ rows'[row[p]].cast = rows[row[p]].cast \cup {m}
           /\ \A i \in DOMAIN rows : /\ rows'[i].bill = rows[i].bill
                                     /\ rows'[i].call = rows[i].call
                                     /\ rows[i].cast \subseteq rows'[i].cast
<1> DEFINE cast(m) == [rows[row[p]] EXCEPT !.cast = rows[row[p]].cast \cup {m}]
<1>1. PICK m \in left[p] :
        /\ rows' = [rows EXCEPT ![row[p]] = cast(m)]
        /\ left' = [left EXCEPT ![p] = @ \ {m}]
  BY DEF AddMemberVote
<1>2. m \in Member /\ rows \in Seq(Row) /\ row[p] \in DOMAIN rows
  BY DEF TypeOK, Row, AddMemberVote
<1>3. rows[row[p]] \in Row
  BY <1>2
<1>4. /\ cast(m) \in Row
      /\ cast(m).bill = rows[row[p]].bill /\ cast(m).call = rows[row[p]].call
      /\ cast(m).cast = rows[row[p]].cast \cup {m}
  BY <1>2, <1>3 DEF Row
<1> HIDE DEF cast
<1>6. rows' \in Seq(Row) /\ DOMAIN rows' = DOMAIN rows
  BY <1>1, <1>2, <1>4
<1>7. \A i \in DOMAIN rows : rows'[i] = IF i = row[p] THEN cast(m) ELSE rows[i]
  BY <1>1, <1>2
<1> QED
  BY <1>1, <1>2, <1>4, <1>6, <1>7

(* Every reachable state has its type, and a run that writes the members   *)
(* of a roll call has the id of a row.                                     *)
THEOREM TypeCorrect == Spec => []TypeOK
<1>1. Init => TypeOK
  <2>1. Init => beside \in BOOLEAN
    BY DEF Init
  <2> QED
    BY <2>1 DEF Init, TypeOK, Stage
<1>2. TypeOK /\ [Next]_vars => TypeOK'
  <2> SUFFICES ASSUME TypeOK, [Next]_vars PROVE TypeOK'
    OBVIOUS
  <2>1. CASE UNCHANGED vars
    BY <2>1 DEF TypeOK
  <2>a. beside' \in BOOLEAN
    BY DEF Next, Step, Start, TypeOK
  <2>2. ASSUME NEW p \in Process, Start(p) \/ AskFor(p) \/ FetchAll(p)
        PROVE TypeOK'
    <3>1. CASE Start(p)
      BY <2>a, <3>1, AsksAssumption DEF Start, TypeOK, Stage
    <3>2. CASE AskFor(p)
      BY <2>a, <3>2 DEF AskFor, TypeOK
    <3>3. CASE FetchAll(p)
      BY <2>a, <3>3 DEF FetchAll, TypeOK, Stage
    <3> QED
      BY <2>2, <3>1, <3>2, <3>3
  <2>3. ASSUME NEW p \in Process, AddBill(p) \/ AddDocument(p) \/ AddSponsorInfo(p)
        PROVE TypeOK'
    <3>1. CASE AddBill(p)
      BY <2>a, <3>1 DEF AddBill, TypeOK, Stage
    <3>2. CASE AddDocument(p)
      BY <2>a, <3>2 DEF AddDocument, TypeOK, Stage
    <3>3. CASE AddSponsorInfo(p)
      BY <2>a, <3>3, DownloadAssumption DEF AddSponsorInfo, TypeOK, Stage
    <3> QED
      BY <2>3, <3>1, <3>2, <3>3
  <2>4. ASSUME NEW p \in Process, AddMember(p) \/ AddBillVotes(p) PROVE TypeOK'
    BY <2>a, <2>4 DEF AddMember, AddBillVotes, TypeOK, Stage
  <2>5. ASSUME NEW p \in Process, AddRollCall(p) PROVE TypeOK'
    <3>1. /\ rows' \in Seq(Row)
          /\ left' \in [Process -> SUBSET Member]
          /\ call' \in [Process -> Nat] /\ row' \in [Process -> Nat]
          /\ \A q \in Process : row'[q] = IF q = p THEN Len(rows') ELSE row[q]
          /\ \A q \in Process \ {p} : left'[q] = left[q]
          /\ Len(rows') \in DOMAIN rows' /\ DOMAIN rows \subseteq DOMAIN rows'
      <4>1. PICK b \in hand[p] :
              /\ rows' \in Seq(Row) /\ Len(rows') = Len(rows) + 1 /\ Len(rows) \in Nat
              /\ left' = [left EXCEPT ![p] = CallsOf[b][call[p] + 1]]
              /\ CallsOf[b][call[p] + 1] \subseteq Member
              /\ DOMAIN rows' = DOMAIN rows \cup {Len(rows')}
              /\ row' = [row EXCEPT ![p] = Len(rows')]
        BY <2>5, InsertAppends
      <4>2. call' = [call EXCEPT ![p] = @ + 1]
        BY <2>5 DEF AddRollCall
      <4> QED
        BY <2>a, <4>1, <4>2 DEF TypeOK
    <3> QED
      BY <2>a, <2>5, <3>1 DEF AddRollCall, TypeOK, Row
  <2>6. ASSUME NEW p \in Process, AddMemberVote(p) PROVE TypeOK'
    <3>1. /\ rows' \in Seq(Row) /\ DOMAIN rows' = DOMAIN rows
          /\ left' \in [Process -> SUBSET Member]
          /\ row[p] \in DOMAIN rows
          /\ \A q \in Process \ {p} : left'[q] = left[q]
      <4>1. PICK m \in left[p] :
              /\ rows' \in Seq(Row) /\ DOMAIN rows' = DOMAIN rows
              /\ row[p] \in DOMAIN rows
              /\ left' = [left EXCEPT ![p] = @ \ {m}]
        BY <2>6, VoteIsAdded
      <4> QED
        BY <2>a, <4>1 DEF TypeOK
    <3> QED
      BY <2>a, <2>6, <3>1 DEF AddMemberVote, TypeOK, Row
  <2>7. ASSUME NEW p \in Process, BillLoaded(p) \/ RecordRedesignations(p)
        PROVE TypeOK'
    <3>1. CASE BillLoaded(p)
      BY <2>a, <3>1 DEF BillLoaded, TypeOK, Stage
    <3>2. CASE RecordRedesignations(p)
      BY <2>a, <3>2 DEF RecordRedesignations, TypeOK
    <3> QED
      BY <2>7, <3>1, <3>2
  <2>8. ASSUME NEW p \in Process, RefuseDocument(p) \/ Finish(p) \/ Stop(p)
        PROVE TypeOK'
    <3>1. End(p) /\ rows' = rows
      BY <2>8 DEF RefuseDocument, Finish, Stop
    <3>2. /\ bills' = bills /\ documents' = documents /\ sponsors' = sponsors
          /\ members' = members /\ placed' = placed /\ completed' \subseteq Bill
      BY <2>a, <2>8 DEF RefuseDocument, Finish, Stop, TypeOK
    <3> QED
      BY <2>a, <3>1, <3>2 DEF End, TypeOK, Stage
  <2> QED
    BY <2>1, <2>2, <2>3, <2>4, <2>5, <2>6, <2>7, <2>8 DEF Next, Step
<1> QED
  BY <1>1, <1>2, PTL DEF Spec
-----------------------------------------------------------------------------
(* No step takes back what the tables hold of a bill.                      *)
LEMMA RowsStay ==
  ASSUME TypeOK, NEW p \in Process, Step(p)
  PROVE  \A i \in DOMAIN rows : /\ i \in DOMAIN rows'
                                /\ rows'[i].bill = rows[i].bill
                                /\ rows'[i].call = rows[i].call
                                /\ rows[i].cast \subseteq rows'[i].cast
<1>1. CASE AddRollCall(p)
  BY <1>1, InsertAppends
<1>2. CASE AddMemberVote(p)
  BY <1>2, VoteIsAdded
<1>3. CASE ~AddRollCall(p) /\ ~AddMemberVote(p)
  <2>1. rows' = rows
    BY <1>3 DEF Step, Start, AskFor, FetchAll, AddBill, AddDocument, RefuseDocument,
                AddSponsorInfo, AddMember, AddBillVotes, BillLoaded,
                RecordRedesignations, Finish, Stop
  <2> QED
    BY <2>1
<1> QED
  BY <1>1, <1>2, <1>3

LEMMA RecordsStay ==
  ASSUME TypeOK, NEW p \in Process, Step(p)
  PROVE  /\ bills \subseteq bills' /\ documents \subseteq documents'
         /\ sponsors \subseteq sponsors' /\ members \subseteq members'
         /\ placed \subseteq placed'
         /\ \A b, k : HasCall(b, k) => HasCall(b, k)'
         /\ \A b : HasRecords(b) => HasRecords(b)'
<1>1. /\ bills \subseteq bills' /\ documents \subseteq documents'
      /\ sponsors \subseteq sponsors' /\ members \subseteq members'
      /\ placed \subseteq placed'
  BY DEF Step, Start, AskFor, FetchAll, AddBill, AddDocument, RefuseDocument,
         AddSponsorInfo, AddMember, AddBillVotes, AddRollCall, AddMemberVote,
         BillLoaded, RecordRedesignations, Finish, Stop
<1>2. \A b, k : HasCall(b, k) => HasCall(b, k)'
  <2> SUFFICES ASSUME NEW b, NEW k, HasCall(b, k) PROVE HasCall(b, k)'
    OBVIOUS
  <2>1. PICK i \in DOMAIN rows : /\ rows[i].bill = b /\ rows[i].call = k
                                 /\ CallsOf[b][k] \subseteq rows[i].cast
    BY DEF HasCall
  <2> QED
    BY <2>1, RowsStay DEF HasCall
<1> QED
  BY <1>1, <1>2 DEF HasRecords

(* How far a run has come with the bill in its hand.                       *)
InHand(p) ==
  /\ at[p] # "votes" => call[p] = 0
  /\ \A b, c \in hand[p] : b = c
  /\ \A b \in hand[p] :
       /\ at[p] \in {"document", "sponsor", "members", "votes"} => b \in bills
       /\ at[p] \in {"sponsor", "members", "votes"} => b \in documents
       /\ at[p] \in {"members", "votes"} => b \in sponsors
       /\ at[p] = "members" => MembersOf[b] \subseteq members \cup left[p]
       /\ at[p] = "votes" =>
            /\ MembersOf[b] \subseteq members
            /\ \A k \in 1..call[p] :
                 HasCall(b, k) \/ (k = call[p] /\ left[p] # {})
            /\ left[p] # {} =>
                 /\ rows[row[p]].bill = b
                 /\ rows[row[p]].call = call[p]
                 /\ CallsOf[b][call[p]] \subseteq rows[row[p]].cast \cup left[p]

(* And with those it has loaded.                                           *)
Loaded(p) ==
  \A b \in loaded[p] : HasRecords(b) /\ (b \in toPlace[p] \/ b \in placed)

(* A step of one run leaves every other where it was.                      *)
LEMMA OthersStay ==
  ASSUME TypeOK, NEW p \in Process, Step(p), NEW q \in Process \ {p}
  PROVE  /\ at'[q] = at[q] /\ hand'[q] = hand[q] /\ left'[q] = left[q]
         /\ call'[q] = call[q] /\ row'[q] = row[q]
         /\ queue'[q] = queue[q]
         /\ loaded'[q] = loaded[q] /\ toPlace'[q] = toPlace[q]
<1>1. CASE Start(p) \/ AskFor(p) \/ FetchAll(p) \/ AddBill(p) \/ AddDocument(p)
  BY <1>1 DEF Start, AskFor, FetchAll, AddBill, AddDocument, TypeOK
<1>2. CASE AddSponsorInfo(p) \/ AddMember(p) \/ AddBillVotes(p)
  BY <1>2 DEF AddSponsorInfo, AddMember, AddBillVotes, TypeOK
<1>3. CASE AddRollCall(p) \/ AddMemberVote(p)
  BY <1>3 DEF AddRollCall, AddMemberVote, TypeOK
<1>4. CASE BillLoaded(p) \/ RecordRedesignations(p)
  BY <1>4 DEF BillLoaded, RecordRedesignations, TypeOK
<1>5. CASE RefuseDocument(p) \/ Finish(p) \/ Stop(p)
  <2>1. End(p)
    BY <1>5 DEF RefuseDocument, Finish, Stop
  <2> QED
    BY <2>1 DEF End, TypeOK
<1> QED
  BY <1>1, <1>2, <1>3, <1>4, <1>5 DEF Step

LEMMA OthersKeepTheirs ==
  ASSUME TypeOK, NEW p \in Process, Step(p), NEW q \in Process \ {p},
         InHand(q), Loaded(q)
  PROVE  InHand(q)' /\ Loaded(q)'
<1>1. Loaded(q)'
  BY OthersStay, RecordsStay DEF Loaded
<1>2. at[q] = "votes" /\ left[q] # {} => row[q] \in DOMAIN rows
  BY DEF TypeOK
<1>3. InHand(q)'
  BY <1>2, OthersStay, RecordsStay, RowsStay DEF InHand
<1> QED
  BY <1>1, <1>3

(* And moves itself on.                                                    *)
LEMMA InHandStep ==
  ASSUME TypeOK, NEW p \in Process, Step(p), InHand(p)
  PROVE  InHand(p)'
<1>1. CASE Start(p) \/ AskFor(p) \/ FetchAll(p) \/ RecordRedesignations(p)
  <2>1. /\ hand' = hand /\ call' = call /\ left' = left /\ row' = row /\ rows' = rows
        /\ at'[p] \in {"asking", "storing"} /\ at[p] # "votes"
    BY <1>1 DEF Start, AskFor, FetchAll, RecordRedesignations, TypeOK
  <2> QED
    BY <2>1 DEF InHand
<1>2. CASE AddBill(p)
  BY <1>2 DEF AddBill, InHand, TypeOK
<1>3. CASE AddDocument(p)
  BY <1>3 DEF AddDocument, InHand, TypeOK
<1>4. CASE AddSponsorInfo(p)
  BY <1>4 DEF AddSponsorInfo, InHand, TypeOK
<1>5. CASE AddMember(p)
  BY <1>5 DEF AddMember, InHand, TypeOK
<1>6. CASE AddBillVotes(p)
  BY <1>6 DEF AddBillVotes, InHand, TypeOK
<1>7. CASE AddRollCall(p)
  <2>1. PICK b \in hand[p] :
          /\ b \in Bill /\ call[p] + 1 \in 1..Len(CallsOf[b])
          /\ rows' \in Seq(Row) /\ Len(rows') = Len(rows) + 1 /\ Len(rows) \in Nat
          /\ left' = [left EXCEPT ![p] = CallsOf[b][call[p] + 1]]
          /\ rows'[Len(rows')] = [bill |-> b, call |-> call[p] + 1, cast |-> {}]
          /\ DOMAIN rows' = DOMAIN rows \cup {Len(rows')}
          /\ row' = [row EXCEPT ![p] = Len(rows')]
    BY <1>7, InsertAppends
  <2>2. /\ at[p] = "votes" /\ at' = at /\ hand' = hand /\ left[p] = {}
        /\ call' = [call EXCEPT ![p] = @ + 1] /\ call[p] \in Nat
        /\ bills' = bills /\ documents' = documents /\ sponsors' = sponsors
        /\ members' = members
    BY <1>7 DEF AddRollCall, TypeOK
  <2>3. /\ row'[p] = Len(rows') /\ left'[p] = CallsOf[b][call[p] + 1]
        /\ call'[p] = call[p] + 1
    BY <2>1, <2>2 DEF TypeOK
  <2>4. left'[p] = {} => HasCall(b, call[p])'
    BY <2>1, <2>3 DEF HasCall
  <2>5. \A k \in 1..call[p] : HasCall(b, k)'
    BY <2>2, RecordsStay DEF InHand
  <2> QED
    BY <2>1, <2>2, <2>3, <2>4, <2>5 DEF InHand
<1>8. CASE AddMemberVote(p)
  <2>1. PICK m \in left[p] :
          /\ DOMAIN rows' = DOMAIN rows /\ row[p] \in DOMAIN rows
          /\ left' = [left EXCEPT ![p] = @ \ {m}]
          /\ rows'[row[p]].cast = rows[row[p]].cast \cup {m}
          /\ rows'[row[p]].bill = rows[row[p]].bill
          /\ rows'[row[p]].call = rows[row[p]].call
    BY <1>8, VoteIsAdded
  <2>2. /\ at[p] = "votes" /\ at' = at /\ hand' = hand /\ call' = call /\ row' = row
        /\ bills' = bills /\ documents' = documents /\ sponsors' = sponsors
        /\ members' = members /\ left'[p] = left[p] \ {m} /\ call[p] \in Nat
    BY <1>8, <2>1 DEF AddMemberVote, TypeOK
  <2>3. ASSUME NEW b \in hand[p]
        PROVE  /\ rows'[row[p]].bill = b
               /\ rows'[row[p]].call = call[p]
               /\ CallsOf[b][call[p]] \subseteq rows'[row[p]].cast \cup left'[p]
    BY <2>1, <2>2 DEF InHand
  <2>4. ASSUME NEW b \in hand[p], left'[p] = {}
        PROVE  HasCall(b, call[p])'
    BY <2>1, <2>2, <2>3, <2>4 DEF HasCall
  <2>5. ASSUME NEW b \in hand[p], NEW k \in 1..call[p]
        PROVE  HasCall(b, k)' \/ (k = call[p] /\ left'[p] # {})
    BY <2>2, <2>4, RecordsStay DEF InHand
  <2> QED
    BY <2>2, <2>3, <2>5 DEF InHand
<1>9. CASE BillLoaded(p)
  BY <1>9 DEF BillLoaded, InHand, TypeOK
<1>10. CASE RefuseDocument(p) \/ Finish(p) \/ Stop(p)
  <2>1. End(p)
    BY <1>10 DEF RefuseDocument, Finish, Stop
  <2> QED
    BY <2>1 DEF End, InHand, TypeOK
<1> QED
  BY <1>1, <1>2, <1>3, <1>4, <1>5, <1>6, <1>7, <1>8, <1>9, <1>10 DEF Step

LEMMA LoadedStep ==
  ASSUME TypeOK, NEW p \in Process, Step(p), InHand(p), Loaded(p)
  PROVE  Loaded(p)'
<1>1. CASE BillLoaded(p)
  <2>1. /\ loaded'[p] = loaded[p] \cup hand[p] /\ toPlace'[p] = toPlace[p] \cup hand[p]
        /\ at[p] = "votes" /\ left[p] = {}
        /\ \A b \in hand[p] : b \in Bill /\ call[p] = Len(CallsOf[b])
    BY <1>1 DEF BillLoaded, TypeOK
  <2>2. ASSUME NEW b \in hand[p] PROVE HasRecords(b)
    <3>1. DOMAIN CallsOf[b] = 1..call[p]
      BY <2>1, <2>2, DownloadAssumption
    <3> QED
      BY <2>1, <2>2, <3>1 DEF InHand, HasRecords
  <2> QED
    BY <2>1, <2>2, RecordsStay DEF Loaded
<1>2. CASE RecordRedesignations(p)
  <2>1. loaded' = loaded /\ \A b \in toPlace[p] : b \in toPlace'[p] \/ b \in placed'
    BY <1>2 DEF RecordRedesignations, TypeOK
  <2> QED
    BY <2>1, RecordsStay DEF Loaded
<1>3. CASE RefuseDocument(p) \/ Finish(p) \/ Stop(p)
  <2>1. loaded'[p] = {}
    BY <1>3 DEF RefuseDocument, Finish, Stop, End, TypeOK
  <2> QED
    BY <2>1 DEF Loaded
<1>4. CASE ~(BillLoaded(p) \/ RecordRedesignations(p) \/ RefuseDocument(p)
              \/ Finish(p) \/ Stop(p))
  <2>1. loaded' = loaded /\ toPlace' = toPlace
    BY <1>4 DEF Step, Start, AskFor, FetchAll, AddBill, AddDocument, AddSponsorInfo,
                AddMember, AddBillVotes, AddRollCall, AddMemberVote
  <2> QED
    BY <2>1, RecordsStay DEF Loaded
<1> QED
  BY <1>1, <1>2, <1>3, <1>4

RunsKnow == LoadedIsWhole /\ \A p \in Process : InHand(p) /\ Loaded(p)

(* Every run, wherever it is, has written what it believes it has.         *)
LEMMA RunsAlwaysKnow == Spec => []RunsKnow
<1> DEFINE IInv == RunsKnow
<1> USE DEF RunsKnow
<1>1. Init => IInv
  BY DEF Init, LoadedIsWhole, InHand, Loaded
<1>2. TypeOK /\ IInv /\ [Next]_vars => IInv'
  <2> SUFFICES ASSUME TypeOK, IInv, [Next]_vars PROVE IInv'
    OBVIOUS
  <2>1. CASE UNCHANGED vars
    BY <2>1 DEF LoadedIsWhole, InHand, Loaded, HasRecords, HasCall
  <2>2. ASSUME NEW p \in Process, Step(p) PROVE IInv'
    <3>1. \A q \in Process : InHand(q)' /\ Loaded(q)'
      <4>1. InHand(p)' /\ Loaded(p)'
        BY <2>2, InHandStep, LoadedStep
      <4>2. \A q \in Process \ {p} : InHand(q)' /\ Loaded(q)'
        BY <2>2, OthersKeepTheirs
      <4> QED
        BY <4>1, <4>2
    <3>2. \A b \in completed' : b \in completed \/ (HasRecords(b) /\ b \in placed)
      <4>1. CASE Finish(p)
        BY <4>1 DEF Finish, Loaded
      <4>2. CASE ~Finish(p)
        <5>1. completed' = completed
          BY <2>2, <4>2 DEF Step, Start, AskFor, FetchAll, AddBill, AddDocument,
               RefuseDocument, AddSponsorInfo, AddMember, AddBillVotes, AddRollCall,
               AddMemberVote, BillLoaded, RecordRedesignations, Stop
        <5> QED
          BY <5>1
      <4> QED
        BY <4>1, <4>2
    <3>3. LoadedIsWhole'
      BY <2>2, <3>2, RecordsStay DEF LoadedIsWhole
    <3> QED
      BY <3>1, <3>3
  <2> QED
    BY <2>1, <2>2 DEF Next
<1> QED
  BY <1>1, <1>2, TypeCorrect, PTL DEF Spec

(* A bill is all there once the run that loaded it has come to its end,    *)
(* whatever other runs load and wherever they end.                         *)
THEOREM LoadedIsAlwaysWhole == Spec => []LoadedIsWhole
BY RunsAlwaysKnow, PTL DEF RunsKnow
-----------------------------------------------------------------------------
(* Where one run goes at a time, the rows are of bills that are held, and  *)
(* the run in hand has inserted its bill's first calls and no other.       *)
OneAtATime ==
  /\ \A p, q \in Process : at[p] # "rest" /\ at[q] # "rest" => p = q
  /\ \A p \in Process :
       /\ at[p] # "votes" => call[p] = 0
       /\ queue[p] \cap bills = {}
       /\ at[p] = "rest" => queue[p] = {}
       /\ at[p] \in {"document", "sponsor", "members", "votes"} =>
            /\ hand[p] \subseteq bills
            /\ \A i \in DOMAIN rows : rows[i].bill \in hand[p] => rows[i].call <= call[p]
  /\ \A i \in DOMAIN rows : rows[i].bill \in bills

(* With one run at a time, the rows are told apart by bill and call.       *)
LEMMA RowsAreOnce == Spec => [](~beside => OneAtATime /\ VotesOnce)
<1> DEFINE IInv == ~beside => OneAtATime /\ VotesOnce
<1>1. Init => IInv
  BY DEF Init, OneAtATime, VotesOnce
<1>2. TypeOK /\ IInv /\ [Next]_vars => IInv'
  <2> SUFFICES ASSUME TypeOK, ~beside, OneAtATime, VotesOnce, [Next]_vars, ~beside'
               PROVE  OneAtATime' /\ VotesOnce'
    BY DEF Next, Step, Start, TypeOK
  <2>1. CASE UNCHANGED vars
    BY <2>1 DEF OneAtATime, VotesOnce
  <2>2. ASSUME NEW p \in Process, Step(p) PROVE OneAtATime' /\ VotesOnce'
    <3>1. /\ \A q \in Process \ {p} : at[q] = "rest" /\ at'[q] = "rest"
          /\ \A q \in Process \ {p} : queue'[q] = {} /\ call'[q] = 0
      <4>1. \A q \in Process \ {p} : at[q] = "rest"
        BY <2>2 DEF OneAtATime, Step, Start, AskFor, FetchAll, AddBill, AddDocument,
             RefuseDocument, AddSponsorInfo, AddMember, AddBillVotes, AddRollCall,
             AddMemberVote, BillLoaded, RecordRedesignations, Finish, Stop
      <4> QED
        BY <2>2, <4>1, OthersStay DEF OneAtATime
    <3> DEFINE Here == /\ at'[p] # "votes" => call'[p] = 0
                       /\ queue'[p] \cap bills' = {}
                       /\ at'[p] = "rest" => queue'[p] = {}
                       /\ at'[p] \in {"document", "sponsor", "members", "votes"} =>
                            /\ hand'[p] \subseteq bills'
                            /\ \A i \in DOMAIN rows' :
                                 rows'[i].bill \in hand'[p] => rows'[i].call <= call'[p]
               Rows == \A i \in DOMAIN rows' : rows'[i].bill \in bills'
    <3>2. SUFFICES Here /\ Rows /\ VotesOnce'
      BY <3>1 DEF OneAtATime
    <3>3. CASE AddRollCall(p)
      <4>1. PICK b \in hand[p] :
              /\ rows' = Append(rows, [bill |-> b, call |-> call[p] + 1, cast |-> {}])
              /\ rows'[Len(rows')] = [bill |-> b, call |-> call[p] + 1, cast |-> {}]
              /\ \A i \in DOMAIN rows : i \in DOMAIN rows' /\ rows'[i] = rows[i]
              /\ DOMAIN rows' = DOMAIN rows \cup {Len(rows')}
        BY <3>3, InsertAppends
      <4>2. /\ at[p] = "votes" /\ at' = at /\ hand' = hand /\ queue' = queue
            /\ bills' = bills /\ call[p] \in Nat /\ call'[p] = call[p] + 1
        BY <3>3 DEF AddRollCall, TypeOK
      <4>3. \A i \in DOMAIN rows : /\ rows[i].bill = b => rows[i].call <= call[p]
                                   /\ rows[i].call \in Nat
        <5>1. \A i \in DOMAIN rows : rows[i] \in Row
          <6>1. rows \in Seq(Row)
            BY DEF TypeOK, Row
          <6> QED
            BY <6>1
        <5>2. \A i \in DOMAIN rows : rows[i].bill = b => rows[i].call <= call[p]
          BY <4>1, <4>2 DEF OneAtATime
        <5> QED
          BY <5>1, <5>2 DEF Row
      <4>4. VotesOnce'
        BY <4>1, <4>2, <4>3 DEF VotesOnce
      <4>5. Rows
        BY <4>1, <4>2 DEF OneAtATime
      <4>6. \A i \in DOMAIN rows' : rows'[i].bill \in hand'[p] => rows'[i].call <= call'[p]
        BY <4>1, <4>2, <4>3 DEF OneAtATime
      <4> QED
        BY <4>2, <4>4, <4>5, <4>6 DEF OneAtATime
    <3>4. CASE AddMemberVote(p)
      <4>1. /\ DOMAIN rows' = DOMAIN rows
            /\ \A i \in DOMAIN rows : /\ rows'[i].bill = rows[i].bill
                                      /\ rows'[i].call = rows[i].call
        BY <3>4, VoteIsAdded
      <4>2. at' = at /\ hand' = hand /\ queue' = queue /\ bills' = bills /\ call' = call
        BY <3>4 DEF AddMemberVote
      <4> QED
        BY <4>1, <4>2 DEF OneAtATime, VotesOnce
    <3>5. CASE AddBill(p)
      <4>1. PICK b \in queue[p] :
              /\ bills' = bills \cup {b}
              /\ queue' = [queue EXCEPT ![p] = @ \ {b}]
              /\ hand' = [hand EXCEPT ![p] = {b}]
        BY <3>5 DEF AddBill
      <4>2. /\ queue'[p] = queue[p] \ {b} /\ hand'[p] = {b} /\ at'[p] = "document"
            /\ rows' = rows /\ call' = call /\ at[p] = "storing"
        BY <3>5, <4>1 DEF AddBill, TypeOK
      <4>3. \A i \in DOMAIN rows : rows[i].bill # b
        BY <4>1 DEF OneAtATime
      <4> QED
        BY <4>1, <4>2, <4>3 DEF OneAtATime, VotesOnce
    <3>6. CASE AskFor(p) \/ FetchAll(p) \/ Start(p)
      <4>1. /\ rows' = rows /\ bills' = bills /\ call' = call /\ call[p] = 0
            /\ at'[p] \in {"asking", "storing"}
        BY <3>6 DEF AskFor, FetchAll, Start, OneAtATime, TypeOK
      <4>2. queue'[p] \cap bills = {}
        <5>1. CASE AskFor(p)
          <6>1. PICK b \in asked[p] :
                  queue' = IF Held(b) THEN queue ELSE [queue EXCEPT ![p] = @ \cup {b}]
            BY <5>1 DEF AskFor
          <6>2. queue'[p] = queue[p] \/ (queue'[p] = queue[p] \cup {b} /\ b \notin bills)
            BY <6>1 DEF Held, TypeOK
          <6> QED
            BY <6>2 DEF OneAtATime
        <5>2. CASE FetchAll(p) \/ Start(p)
          BY <5>2 DEF FetchAll, Start, OneAtATime
        <5> QED
          BY <3>6, <5>1, <5>2
      <4> QED
        BY <4>1, <4>2 DEF OneAtATime, VotesOnce
    <3>7. CASE AddDocument(p) \/ AddSponsorInfo(p) \/ AddMember(p) \/ AddBillVotes(p)
      BY <3>7 DEF AddDocument, AddSponsorInfo, AddMember, AddBillVotes, OneAtATime,
                  VotesOnce, TypeOK
    <3>8. CASE BillLoaded(p) \/ RecordRedesignations(p)
      BY <3>8 DEF BillLoaded, RecordRedesignations, OneAtATime, VotesOnce, TypeOK
    <3>9. CASE RefuseDocument(p) \/ Finish(p) \/ Stop(p)
      <4>1. End(p) /\ rows' = rows /\ bills' = bills
        BY <3>9 DEF RefuseDocument, Finish, Stop
      <4> QED
        BY <4>1 DEF End, OneAtATime, VotesOnce, TypeOK
    <3> QED
      BY <2>2, <3>3, <3>4, <3>5, <3>6, <3>7, <3>8, <3>9 DEF Step
  <2> QED
    BY <2>1, <2>2 DEF Next
<1> QED
  BY <1>1, <1>2, TypeCorrect, PTL DEF Spec

(* With one run at a time, a roll call is in the dataset once.             *)
THEOREM VotesAreOnce == Spec => []VotesOnce
<1>1. (~beside => OneAtATime /\ VotesOnce) => VotesOnce
  BY DEF VotesOnce
<1> QED
  BY <1>1, RowsAreOnce, PTL
-----------------------------------------------------------------------------
(* Induction in the form the proofs below use it: a set of numbers has a   *)
(* least member.                                                           *)
LEMMA LeastMember ==
  ASSUME NEW T \in SUBSET Nat, T # {}
  PROVE  \E m \in T : \A k \in T : m <= k
<1> DEFINE R == {ss \in Nat \X Nat : ss[1] < ss[2]}
<1>1. IsWellFoundedOn(R, Nat)
  BY NatLessThanWellFounded DEF OpToRel
<1>2. PICK m \in T : \A k \in T : ~ (<<k, m>> \in R)
  <2> HIDE DEF R
  <2> QED BY <1>1, WFMin
<1>3. ASSUME NEW k \in T PROVE m <= k
  <2>1. k \in Nat /\ m \in Nat
    OBVIOUS
  <2>2. ~ (<<k, m>> \in R)
    BY <1>2
  <2>3. ~ (k < m)
    BY <2>1, <2>2
  <2> QED BY <2>1, <2>3
<1> QED BY <1>3

(* A row before another of its bill has a vote.                            *)
FilledBefore ==
  \A i, j \in DOMAIN rows :
    i < j /\ rows[i].bill = rows[j].bill => rows[i].cast # {}

(* Then the reader that fills a bill's roll calls in turn gives each row   *)
(* its own votes: the rows before it are filled when its turn comes.       *)
LEMMA FilledInTurn ==
  ASSUME TypeOK, FilledBefore
  PROVE  LoadBillVotes = [i \in DOMAIN rows |-> rows[i].cast]
<1> DEFINE
      step(f, n) == [i \in DOMAIN rows |->
                       IF i \in FirstUnfilled(f, n) THEN rows[n].cast ELSE f[i]]
      upto(n) == [i \in DOMAIN rows |-> IF i <= n THEN rows[i].cast ELSE {}]
      rec(f) == f = [n \in 0..Len(rows) |->
                       IF n = 0 THEN [i \in DOMAIN rows |-> {}] ELSE step(f[n - 1], n)]
      filled == CHOOSE f : rec(f)
<1>1. Len(rows) \in Nat /\ DOMAIN rows = 1..Len(rows)
  BY DEF TypeOK
<1>2. ASSUME NEW n \in 1..Len(rows) PROVE step(upto(n - 1), n) = upto(n)
  <2>1. \A i \in DOMAIN rows :
          /\ i < n => upto(n - 1)[i] = rows[i].cast
          /\ i >= n => upto(n - 1)[i] = {}
    BY <1>1, <1>2
  <2> DEFINE u == upto(n - 1)
  <2>2. FirstUnfilled(u, n) \subseteq {n}
    <3> SUFFICES ASSUME NEW i \in FirstUnfilled(u, n), i # n PROVE FALSE
      OBVIOUS
    <3>1. i \in DOMAIN rows /\ rows[i].bill = rows[n].bill /\ u[i] = {}
      BY DEF FirstUnfilled
    <3>2. u[n] = {} /\ n \in DOMAIN rows
      BY <1>1, <1>2, <2>1
    <3> HIDE DEF u
    <3>3. i <= n
      BY <3>1, <3>2 DEF FirstUnfilled
    <3>4. rows[i].cast # {}
      BY <1>1, <1>2, <3>1, <3>2, <3>3 DEF FilledBefore
    <3> QED
      BY <1>1, <1>2, <2>1, <3>1, <3>3, <3>4 DEF u
  <2>3. n \in FirstUnfilled(u, n)
    <3>1. u[n] = {} /\ n \in DOMAIN rows
      BY <1>1, <1>2, <2>1
    <3>2. ASSUME NEW j \in DOMAIN rows, rows[j].bill = rows[n].bill, u[j] = {}
          PROVE  n <= j
      <4>1. j < n => rows[j].cast # {}
        BY <1>1, <1>2, <3>1, <3>2 DEF FilledBefore
      <4> QED
        BY <1>1, <1>2, <2>1, <3>2, <4>1
    <3> HIDE DEF u
    <3> QED
      BY <3>1, <3>2 DEF FirstUnfilled
  <2> HIDE DEF u
  <2>4. FirstUnfilled(u, n) = {n}
    BY <2>2, <2>3
  <2>5. \A i \in DOMAIN rows :
          (IF i \in FirstUnfilled(u, n) THEN rows[n].cast ELSE u[i])
            = (IF i <= n THEN rows[i].cast ELSE {})
    BY <1>1, <1>2, <2>1, <2>4 DEF u
  <2> QED
    BY <2>5 DEF u
<1>3. rec([n \in 0..Len(rows) |-> upto(n)])
  <2> DEFINE f == [n \in 0..Len(rows) |-> upto(n)]
  <2>1. upto(0) = [i \in DOMAIN rows |-> {}]
    BY <1>1
  <2> HIDE DEF upto, step
  <2>2. \A n \in 1..Len(rows) : f[n - 1] = upto(n - 1)
    BY <1>1
  <2>3. \A n \in 0..Len(rows) :
          upto(n) = IF n = 0 THEN [i \in DOMAIN rows |-> {}] ELSE step(f[n - 1], n)
    BY <1>1, <1>2, <2>1, <2>2
  <2> QED
    BY <2>3
<1>4. rec(filled)
  <2> HIDE DEF rec
  <2> QED
    BY <1>3
<1>5. \A n \in 0..Len(rows) :
        filled[n] = IF n = 0 THEN [i \in DOMAIN rows |-> {}] ELSE step(filled[n - 1], n)
  <2> HIDE DEF filled, step
  <2> QED
    BY <1>4
<1>6. LoadBillVotes = filled[Len(rows)]
  BY DEF LoadBillVotes
<1>7. \A n \in 0..Len(rows) : filled[n] = upto(n)
  <2> DEFINE T == {n \in 0..Len(rows) : filled[n] # upto(n)}
  <2>1. SUFFICES ASSUME T # {} PROVE FALSE
    OBVIOUS
  <2> HIDE DEF filled
  <2>2. PICK m \in T : \A k \in T : m <= k
    <3>1. T \in SUBSET Nat
      BY <1>1
    <3> HIDE DEF T
    <3> QED
      BY <2>1, <3>1, LeastMember
  <2>3. m # 0
    <3>1. upto(0) = [i \in DOMAIN rows |-> {}]
      BY <1>1
    <3> HIDE DEF upto
    <3> QED
      BY <1>5, <2>2, <3>1
  <2>4. m \in 1..Len(rows) /\ m - 1 \in 0..Len(rows) /\ m - 1 \notin T
    BY <1>1, <2>2, <2>3
  <2> HIDE DEF upto, step
  <2>5. filled[m - 1] = upto(m - 1) /\ filled[m] = step(filled[m - 1], m)
    BY <1>1, <1>5, <2>4
  <2> QED
    BY <1>2, <2>2, <2>4, <2>5
<1>8. upto(Len(rows)) = [i \in DOMAIN rows |-> rows[i].cast]
  BY <1>1
<1> QED
  <2> HIDE DEF filled, upto
  <2> QED
    BY <1>1, <1>6, <1>7, <1>8

(* Every roll call but the last of its bill has a position the reader of   *)
(* the download can read.                                                  *)
CallsAreRead ==
  \A b \in Bill : \A k \in DOMAIN CallsOf[b] :
    k < Len(CallsOf[b]) => CallsOf[b][k] # {}

CallsAreOfBills == \A i \in DOMAIN rows : rows[i].call \in DOMAIN CallsOf[rows[i].bill]

(* A roll call is inserted after every vote of those before it.            *)
LEMMA FilledBeforeStep ==
  ASSUME CallsAreRead, TypeOK, RunsKnow, ~beside, OneAtATime, VotesOnce,
         CallsAreOfBills, FilledBefore, NEW p \in Process, Step(p)
  PROVE  CallsAreOfBills' /\ FilledBefore'
<1>1. CASE AddRollCall(p)
  <2>1. PICK b \in hand[p] :
          /\ b \in Bill /\ call[p] + 1 \in 1..Len(CallsOf[b])
          /\ Len(rows') = Len(rows) + 1 /\ Len(rows) \in Nat
          /\ rows'[Len(rows')] = [bill |-> b, call |-> call[p] + 1, cast |-> {}]
          /\ \A i \in DOMAIN rows : i \in DOMAIN rows' /\ rows'[i] = rows[i]
          /\ DOMAIN rows' = DOMAIN rows \cup {Len(rows')}
    BY <1>1, InsertAppends
  <2>2. /\ at[p] = "votes" /\ left[p] = {} /\ call[p] \in Nat
        /\ CallsOf[b] \in Seq(SUBSET Member) /\ DOMAIN rows = 1..Len(rows)
    BY <1>1, <2>1, DownloadAssumption DEF AddRollCall, TypeOK
  <2>3. ASSUME NEW i \in DOMAIN rows, rows[i].bill = b
        PROVE  rows[i].cast # {}
    <3> DEFINE k == rows[i].call
    <3>1. k <= call[p] /\ k \in DOMAIN CallsOf[b]
      BY <2>1, <2>2, <2>3 DEF OneAtATime, CallsAreOfBills
    <3>2. k \in 1..call[p] /\ k < Len(CallsOf[b])
      BY <2>1, <2>2, <3>1
    <3>3. HasCall(b, k)
      BY <2>1, <2>2, <3>2 DEF RunsKnow, InHand
    <3>4. PICK j \in DOMAIN rows : /\ rows[j].bill = b /\ rows[j].call = k
                                   /\ CallsOf[b][k] \subseteq rows[j].cast
      BY <3>3 DEF HasCall
    <3> HIDE DEF k
    <3>5. j = i
      BY <2>3, <3>4 DEF VotesOnce, k
    <3> QED
      BY <2>1, <3>1, <3>2, <3>4, <3>5 DEF CallsAreRead
  <2> QED
    BY <2>1, <2>2, <2>3 DEF CallsAreOfBills, FilledBefore
<1>2. CASE AddMemberVote(p)
  <2>1. DOMAIN rows' = DOMAIN rows
    BY <1>2, VoteIsAdded
  <2> QED
    BY <2>1, RowsStay DEF CallsAreOfBills, FilledBefore
<1>3. CASE ~AddRollCall(p) /\ ~AddMemberVote(p)
  <2>1. rows' = rows
    BY <1>3 DEF Step, Start, AskFor, FetchAll, AddBill, AddDocument, RefuseDocument,
                AddSponsorInfo, AddMember, AddBillVotes, BillLoaded,
                RecordRedesignations, Finish, Stop
  <2> QED
    BY <2>1 DEF CallsAreOfBills, FilledBefore
<1> QED
  BY <1>1, <1>2, <1>3

(* The two ways to read votes agree while runs go one at a time, wherever  *)
(* a run ends, if every roll call but the last of its bill has a readable  *)
(* position.                                                               *)
THEOREM ReadersAlwaysAgree == CallsAreRead => (Spec => []ReadersAgree)
<1> SUFFICES ASSUME CallsAreRead PROVE Spec => []ReadersAgree
  OBVIOUS
<1> DEFINE Known == RunsKnow /\ (~beside => OneAtATime /\ VotesOnce)
           IInv == ~beside => CallsAreOfBills /\ FilledBefore
<1>1. Init => IInv
  BY DEF Init, CallsAreOfBills, FilledBefore
<1>2. TypeOK /\ Known /\ IInv /\ [Next]_vars => IInv'
  <2> SUFFICES ASSUME TypeOK, Known, IInv, [Next]_vars, ~beside'
               PROVE  CallsAreOfBills' /\ FilledBefore'
    OBVIOUS
  <2>1. ~beside
    BY DEF Next, Step, Start, TypeOK
  <2>2. CASE UNCHANGED vars
    BY <2>1, <2>2 DEF CallsAreOfBills, FilledBefore
  <2>3. CASE Next
    BY <2>1, <2>3, FilledBeforeStep DEF Next
  <2> QED
    BY <2>2, <2>3
<1>3. TypeOK /\ IInv => ReadersAgree
  <2> SUFFICES ASSUME TypeOK, FilledBefore PROVE ReadersAgree
    BY DEF ReadersAgree
  <2>1. \A i \in DOMAIN rows : LoadBillVotes[i] = rows[i].cast
    BY FilledInTurn
  <2> QED
    BY <2>1 DEF ReadersAgree, VotesByMember
<1> QED
  BY <1>1, <1>2, <1>3, TypeCorrect, RunsAlwaysKnow, RowsAreOnce, PTL DEF Spec
=============================================================================
