------------------------- MODULE GrowDatasetProofs -------------------------
(***************************************************************************)
(* What GrowDataset promises for every set of processes, dates, links and  *)
(* declarations, proved from which commands a user may run side by side.   *)
(***************************************************************************)
EXTENDS GrowDataset, TLAPS

(* The commands that write the metadata back from their copy of it.        *)
Writers == {"link-by-evidence", "redesignations", "declare"}

(* No two of them run at once, and no metadata read fails.                 *)
OneWriter ==
  /\ ~SlowWrites
  /\ \A b \in Beside : ~(b[1] \in Writers /\ b[2] \in Writers)

(* No release point arrives while link-by-evidence runs.                   *)
StillWindows ==
  /\ <<"link-by-evidence", "add-release-points">> \notin Beside
  /\ <<"add-release-points", "link-by-evidence">> \notin Beside

USE DEF file, vars, PC, Command, Method

(* Every reachable state has its type: each process stands at a step of    *)
(* its command, and the lock is held by the one inside a transaction.      *)
THEOREM TypeCorrect == Spec => []TypeOK
<1>1. Init => TypeOK
  BY DateAssumption, ProcAssumption, BillAssumption
  DEF Init, TypeOK, Metadata, EmptyMetadata
<1>2. TypeOK /\ [Next]_vars => TypeOK'
  <2> SUFFICES ASSUME TypeOK, [Next]_vars PROVE TypeOK'
    OBVIOUS
  <2> USE DEF TypeOK
  <2>a. \A p \in Proc, c \in Command, m \in Metadata :
          Opened(p, c, m) => TypeOK'
    BY DEF Opened
  <2>b. EmptyMetadata \in Metadata
    BY DEF EmptyMetadata, Metadata
  <2>c. \A p \in Proc : Leave(p) => TypeOK'
    BY <2>b, ProcAssumption DEF Leave, Forget
  <2>d. \A m, ws, bs : Found(m, ws, bs) \in SUBSET Stated
    BY DEF Found
  <2>e. Adjacent(expressions) \subseteq Window
    BY DEF Adjacent, Window
  <2>f. \A bs \in SUBSET Bill :
          bs \X Adjacent(expressions) \in SUBSET (Bill \X Window)
    BY <2>e
  <2>1. CASE UNCHANGED vars
    BY <2>1
  <2>2. ASSUME NEW p \in Proc, Step(p) PROVE TypeOK'
    <3>1. ASSUME NEW c \in Command, Open(p, c) PROVE TypeOK'
      BY <3>1, <2>a DEF Open, Metadata
    <3>2. ASSUME NEW c \in Command, OpenUnread(p, c) PROVE TypeOK'
      BY <3>2, <2>a, <2>b DEF OpenUnread
    <3>3. CASE Close(p) \/ Crash(p)
      BY <3>3, <2>c DEF Close, Crash
    <3>4. CASE MatchByEvidence(p)
      BY <3>4, <2>d DEF MatchByEvidence
    <3>5. CASE ListWindows(p)
      BY <3>5, <2>e DEF ListWindows
    <3>6. CASE PlaceRedesignations(p)
      <4>1. \A b \in Bill, w \in {v \in expressions \X expressions : v[1] < v[2]} :
              {<<b, w>>} \in SUBSET (Bill \X Window)
        BY DEF Window
      <4>2. windows' \in [Proc -> SUBSET (Bill \X Window)]
        BY <3>6, <2>f, <4>1 DEF PlaceRedesignations
      <4> QED
        BY <3>6, <4>2 DEF PlaceRedesignations
    <3>7. CASE NextWindow(p)
      BY <3>7, <2>d DEF NextWindow
    <3>8. CASE WindowWritten(p)
      BY <3>8 DEF WindowWritten
    <3>9. CASE AddLink(p)
      BY <3>9, StatedAssumption DEF AddLink, Statement, Link
    <3>10. CASE KnownRun(p)
      BY <3>10 DEF KnownRun
    <3>11. CASE RecordRun(p)
      <4>1. PICK w \in batch[p] :
              /\ cache' = [cache EXCEPT ![p].runs =
                             @ \cup {Run(MethodOf(command[p]), w)}]
              /\ batch' = [batch EXCEPT ![p] = @ \ {w}]
        BY <3>11 DEF RecordRun
      <4>2. Run(MethodOf(command[p]), w) \in MethodRun
        BY DEF Run, MethodOf, MethodRun
      <4>3. cache' \in [Proc -> Metadata]
        BY <4>1, <4>2 DEF Metadata
      <4> QED
        BY <3>11, <4>1, <4>3 DEF RecordRun
    <3>12. CASE RunsRecorded(p)
      BY <3>12 DEF RunsRecorded
    <3>13. CASE WriteDeclaration(p)
      BY <3>13 DEF WriteDeclaration, Metadata
    <3>14. CASE WriteRuns(p)
      BY <3>14 DEF WriteRuns, Metadata
    <3>15. CASE WriteFails(p)
      BY <3>15 DEF WriteFails
    <3>16. CASE Declare(p)
      BY <3>16 DEF Declare, Metadata
    <3>17. CASE Settle(p)
      BY <3>17 DEF Settle, Link
    <3>18. CASE BeginExpression(p)
      BY <3>18, ProcAssumption DEF BeginExpression
    <3>19. CASE CommitExpression(p)
      BY <3>19, ProcAssumption DEF CommitExpression
    <3> QED
      BY <2>2, <3>1, <3>2, <3>3, <3>4, <3>5, <3>6, <3>7, <3>8, <3>9, <3>10,
         <3>11, <3>12, <3>13, <3>14, <3>15, <3>16, <3>17, <3>18, <3>19
      DEF Step
  <2> QED
    BY <2>1, <2>2 DEF Next
<1> QED
  BY <1>1, <1>2, PTL DEF Spec
-----------------------------------------------------------------------------
(* A run stands only on links that are written                             *)

AtCommand ==
  \A p \in Proc :
    /\ pc[p] = "links" => command[p] \in {"link-by-evidence", "redesignations"}
    /\ pc[p] \in {"windows", "runs", "writeDeclaration", "writeRuns"} =>
         command[p] \in Writers
    /\ pc[p] = "transaction" => command[p] = "add-release-points"
    /\ windows[p] # {} => pc[p] # "closed" /\ command[p] = "redesignations"
    /\ pc[p] \in {"closed", "open", "transaction"} => batch[p] = {}

EvidenceApart ==
  \A p, q \in Proc :
    /\ pc[p] # "closed" /\ command[p] = "link-by-evidence"
    /\ pc[q] # "closed"
    => command[q] # "add-release-points"

StandsOn(run, held) == \E s \in Backing[run] : s \subseteq held

(* The bills whose links stand behind the run a process records.           *)
BillsRead(p) == IF command[p] = "link-by-evidence" THEN Bill ELSE {bill[p]}

CopiesHaveLinks == \A p \in Proc : \A r \in cache[p].runs : StandsOn(r, links)

BatchesHaveLinks ==
  \A p \in Proc :
    /\ pc[p] \in {"runs", "writeDeclaration", "writeRuns"} /\ batch[p] # {} =>
         Found(MethodOf(command[p]), batch[p], BillsRead(p)) \subseteq links
    /\ pc[p] = "links" /\ command[p] = "redesignations" =>
         Found("redesignation", batch[p], {bill[p]}) \subseteq links \cup toWrite[p]
    /\ pc[p] = "links" /\ command[p] = "link-by-evidence" =>
         Found("evidence", Adjacent(expressions), Bill) \subseteq
           links \cup toWrite[p]

(* A run in the making is of a whole bill.                                 *)
BillInHand ==
  \A p \in Proc :
    command[p] # "link-by-evidence" /\ batch[p] # {} => bill[p] \in Bill

TruthInv ==
  /\ TypeOK /\ AtCommand /\ EvidenceApart
  /\ CopiesHaveLinks /\ BatchesHaveLinks /\ BillInHand /\ RunsHaveLinks

LEMMA AtCommandStep == TypeOK /\ AtCommand /\ [Next]_vars => AtCommand'
<1> SUFFICES ASSUME TypeOK, AtCommand, [Next]_vars PROVE AtCommand'
  OBVIOUS
<1> USE DEF TypeOK, AtCommand, Writers
<1>1. CASE UNCHANGED vars
  BY <1>1
<1>2. ASSUME NEW p \in Proc, Step(p) PROVE AtCommand'
  <2>1. CASE \E c \in Command : Open(p, c) \/ OpenUnread(p, c)
    BY <2>1 DEF Open, OpenUnread, Opened
  <2>2. CASE Close(p) \/ Crash(p)
    BY <2>2 DEF Close, Crash, Leave, Forget
  <2>3. CASE MatchByEvidence(p) \/ ListWindows(p)
    BY <2>3 DEF MatchByEvidence, ListWindows
  <2>4. CASE PlaceRedesignations(p) \/ NextWindow(p) \/ WindowWritten(p)
    BY <2>4 DEF PlaceRedesignations, NextWindow, WindowWritten
  <2>5. CASE AddLink(p) \/ KnownRun(p) \/ RecordRun(p) \/ RunsRecorded(p)
    BY <2>5 DEF AddLink, KnownRun, RecordRun, RunsRecorded
  <2>6. CASE WriteDeclaration(p) \/ WriteRuns(p) \/ WriteFails(p)
    BY <2>6 DEF WriteDeclaration, WriteRuns, WriteFails
  <2>7. CASE Declare(p) \/ Settle(p) \/ BeginExpression(p) \/ CommitExpression(p)
    BY <2>7 DEF Declare, Settle, BeginExpression, CommitExpression
  <2> QED
    BY <1>2, <2>1, <2>2, <2>3, <2>4, <2>5, <2>6, <2>7 DEF Step
<1> QED
  BY <1>1, <1>2 DEF Next

(* Only opening, ending and the passage between steps move a command.      *)
LEMMA CommandMoves ==
  ASSUME TypeOK, [Next]_vars
  PROVE \/ \E p \in Proc, c \in Command :
            /\ MayRun(c) /\ pc[p] = "closed"
            /\ pc' = [pc EXCEPT ![p] = "open"]
            /\ command' = [command EXCEPT ![p] = c]
        \/ \A p \in Proc : pc'[p] # "closed" =>
              pc[p] # "closed" /\ command'[p] = command[p]
  BY DEF TypeOK, Next, Step, Opened, Open, OpenUnread, Leave, Forget, Close,
    Crash, MatchByEvidence, ListWindows, PlaceRedesignations, NextWindow,
    WindowWritten, AddLink, KnownRun, RecordRun, RunsRecorded,
    WriteDeclaration, WriteRuns, WriteFails, Declare, Settle, BeginExpression,
    CommitExpression
LEMMA EvidenceApartStep ==
  ASSUME StillWindows, TypeOK, EvidenceApart, [Next]_vars
  PROVE EvidenceApart'
<1>1. CASE \E p \in Proc, c \in Command :
             /\ MayRun(c) /\ pc[p] = "closed"
             /\ pc' = [pc EXCEPT ![p] = "open"]
             /\ command' = [command EXCEPT ![p] = c]
  BY <1>1 DEF EvidenceApart, StillWindows, MayRun, TypeOK
<1>2. CASE \A p \in Proc : pc'[p] # "closed" =>
             pc[p] # "closed" /\ command'[p] = command[p]
  BY <1>2 DEF EvidenceApart
<1> QED
  BY <1>1, <1>2, CommandMoves
LEMMA BillInHandStep ==
  ASSUME TypeOK, AtCommand, BillInHand, [Next]_vars
  PROVE BillInHand'
<1> USE DEF BillInHand
<1>1. CASE UNCHANGED vars
  BY <1>1
<1>2. ASSUME NEW p \in Proc, Step(p) PROVE BillInHand'
  <2> USE DEF TypeOK
  <2>1. CASE \E c \in Command : Open(p, c) \/ OpenUnread(p, c)
    BY <2>1 DEF Open, OpenUnread, Opened, AtCommand
  <2>2. CASE Close(p) \/ Crash(p)
    BY <2>2 DEF Close, Crash, Leave, Forget
  <2>3. CASE MatchByEvidence(p) \/ ListWindows(p)
    BY <2>3 DEF MatchByEvidence, ListWindows
  <2>4. CASE PlaceRedesignations(p) \/ WindowWritten(p)
    BY <2>4 DEF PlaceRedesignations, WindowWritten
  <2>5. CASE NextWindow(p)
    BY <2>5 DEF NextWindow
  <2>6. CASE AddLink(p) \/ KnownRun(p) \/ RecordRun(p) \/ RunsRecorded(p)
    BY <2>6 DEF AddLink, KnownRun, RecordRun, RunsRecorded
  <2>7. CASE WriteDeclaration(p) \/ WriteRuns(p) \/ WriteFails(p)
    BY <2>7 DEF WriteDeclaration, WriteRuns, WriteFails
  <2>8. CASE Declare(p) \/ Settle(p) \/ BeginExpression(p) \/ CommitExpression(p)
    BY <2>8 DEF Declare, Settle, BeginExpression, CommitExpression
  <2> QED
    BY <1>2, <2>1, <2>2, <2>3, <2>4, <2>5, <2>6, <2>7, <2>8 DEF Step
<1> QED
  BY <1>1, <1>2 DEF Next

(* A run's links stay there: links are only added.                         *)
LEMMA StandsOnMore ==
  ASSUME NEW run, NEW held, NEW more, held \subseteq more, StandsOn(run, held)
  PROVE StandsOn(run, more)
  BY DEF StandsOn

(* The window a process records a run of has its links.                    *)
LEMMA BatchStands ==
  ASSUME TypeOK, BatchesHaveLinks, BillInHand,
         NEW p \in Proc, NEW w \in batch[p],
         pc[p] \in {"runs", "writeDeclaration", "writeRuns"}
  PROVE StandsOn(Run(MethodOf(command[p]), w), links)
<1> DEFINE run == Run(MethodOf(command[p]), w)
           stated == Found(MethodOf(command[p]), {w}, BillsRead(p))
<1>1. stated \subseteq links
  BY DEF BatchesHaveLinks, Found
<1>2. run \in MethodRun /\ run.method = MethodOf(command[p]) /\ run.window = w
  BY DEF TypeOK, MethodRun, Run, MethodOf
<1>3. CASE command[p] = "link-by-evidence"
  <2>1. Backing[run] = {stated}
    BY <1>2, <1>3 DEF Backing, MethodOf, BillsRead
  <2> QED
    BY <2>1, <1>1 DEF StandsOn
<1>4. CASE command[p] # "link-by-evidence"
  <2>1. bill[p] \in Bill
    BY <1>4 DEF BillInHand
  <2>2. stated \in Backing[run]
    BY <1>2, <1>4, <2>1 DEF Backing, MethodOf, BillsRead
  <2> QED
    BY <2>2, <1>1 DEF StandsOn
<1> QED
  BY <1>3, <1>4

LEMMA BatchesStep ==
  ASSUME StillWindows, TypeOK, AtCommand, EvidenceApart, BatchesHaveLinks,
         [Next]_vars
  PROVE BatchesHaveLinks'
<1> USE DEF BatchesHaveLinks, BillsRead
<1>1. CASE UNCHANGED vars
  BY <1>1
<1>2. ASSUME NEW p \in Proc, Step(p) PROVE BatchesHaveLinks'
  <2> USE DEF TypeOK
  <2>1. CASE \E c \in Command : Open(p, c) \/ OpenUnread(p, c)
    BY <2>1 DEF Open, OpenUnread, Opened
  <2>2. CASE Close(p) \/ Crash(p)
    BY <2>2 DEF Close, Crash, Leave, Forget
  <2>3. CASE MatchByEvidence(p)
    BY <2>3 DEF MatchByEvidence
  <2>4. CASE ListWindows(p)
    BY <2>4 DEF ListWindows, MethodOf
  <2>5. CASE PlaceRedesignations(p)
    BY <2>5 DEF PlaceRedesignations
  <2>6. CASE NextWindow(p)
    <3>1. command[p] = "redesignations"
      BY <2>6 DEF NextWindow, AtCommand, Writers
    <3>2. toWrite'[p] = Found("redesignation", batch'[p], {bill'[p]})
      BY <2>6 DEF NextWindow
    <3>3. /\ pc' = [pc EXCEPT ![p] = "links"]
          /\ UNCHANGED <<expressions, links, command>>
          /\ \A q \in Proc : q # p =>
               /\ bill'[q] = bill[q] /\ batch'[q] = batch[q]
               /\ toWrite'[q] = toWrite[q]
      BY <2>6 DEF NextWindow
    <3> QED
      BY <3>1, <3>2, <3>3
  <2>7. CASE WindowWritten(p)
    BY <2>7 DEF WindowWritten, MethodOf
  <2>8. CASE AddLink(p)
    <3>1. /\ UNCHANGED <<expressions, pc, command, bill, batch>>
          /\ links \subseteq links'
          /\ \A q \in Proc : links \cup toWrite[q] \subseteq links' \cup toWrite'[q]
      BY <2>8 DEF AddLink
    <3> QED
      BY <3>1
  <2>9. CASE KnownRun(p)
    <3>1. /\ UNCHANGED <<expressions, links, pc, command, bill, toWrite>>
          /\ \A q \in Proc : q # p => batch'[q] = batch[q]
          /\ pc[p] = "runs" /\ batch'[p] \subseteq batch[p]
      BY <2>9 DEF KnownRun
    <3>2. \A m, bs : Found(m, batch'[p], bs) \subseteq Found(m, batch[p], bs)
      BY <3>1 DEF Found
    <3> QED
      BY <3>1, <3>2
  <2>10. CASE RecordRun(p)
    <3>1. /\ UNCHANGED <<expressions, links, command, bill, toWrite>>
          /\ pc' = [pc EXCEPT ![p] = "writeDeclaration"]
          /\ \A q \in Proc : q # p => batch'[q] = batch[q]
          /\ pc[p] = "runs" /\ batch'[p] \subseteq batch[p]
      BY <2>10 DEF RecordRun
    <3>2. \A m, bs : Found(m, batch'[p], bs) \subseteq Found(m, batch[p], bs)
      BY <3>1 DEF Found
    <3> QED
      BY <3>1, <3>2
  <2>11. CASE RunsRecorded(p)
    BY <2>11 DEF RunsRecorded
  <2>12. CASE WriteDeclaration(p) \/ WriteRuns(p) \/ WriteFails(p)
    BY <2>12 DEF WriteDeclaration, WriteRuns, WriteFails
  <2>13. CASE Declare(p)
    BY <2>13 DEF Declare, AtCommand
  <2>14. CASE Settle(p)
    BY <2>14 DEF Settle
  <2>15. CASE BeginExpression(p)
    BY <2>15 DEF BeginExpression
  <2>16. CASE CommitExpression(p)
    BY <2>16 DEF CommitExpression, EvidenceApart, AtCommand
  <2> QED
    BY <1>2, <2>1, <2>2, <2>3, <2>4, <2>5, <2>6, <2>7, <2>8, <2>9,
       <2>10, <2>11, <2>12, <2>13, <2>14, <2>15, <2>16 DEF Step
<1> QED
  BY <1>1, <1>2 DEF Next

LEMMA TruthStep ==
  ASSUME TruthInv, [Next]_vars
  PROVE CopiesHaveLinks' /\ RunsHaveLinks'
<1> DEFINE Fresh ==
      {run \in MethodRun : StandsOn(run, links)}
<1> USE DEF TruthInv
<1>1. links \subseteq links'
  BY DEF Next, Step, Opened, Open, OpenUnread, Leave, Forget, Close, Crash,
    MatchByEvidence, ListWindows, PlaceRedesignations, NextWindow,
    WindowWritten, AddLink, KnownRun, RecordRun, RunsRecorded,
    WriteDeclaration, WriteRuns, WriteFails, Declare, Settle, BeginExpression,
    CommitExpression
<1>2. runs \subseteq Fresh
  BY DEF RunsHaveLinks, StandsOn, TypeOK
<1>3. \A p \in Proc : cache[p].runs \subseteq Fresh
  BY DEF CopiesHaveLinks, TypeOK, Metadata
<1>4. runs' \subseteq Fresh /\ \A p \in Proc : cache'[p].runs \subseteq Fresh
  <2>1. CASE UNCHANGED vars
    BY <2>1, <1>2, <1>3
  <2>2. ASSUME NEW p \in Proc, Step(p)
        PROVE runs' \subseteq Fresh /\ \A q \in Proc : cache'[q].runs \subseteq Fresh
    <3> HIDE DEF Fresh
    <3> USE DEF TypeOK
    <3>1. CASE \E c \in Command : Open(p, c) \/ OpenUnread(p, c)
      BY <3>1, <1>2, <1>3 DEF Open, OpenUnread, Opened, EmptyMetadata
    <3>2. CASE Close(p) \/ Crash(p)
      BY <3>2, <1>2, <1>3 DEF Close, Crash, Leave, Forget, EmptyMetadata
    <3>3. CASE \/ MatchByEvidence(p) \/ ListWindows(p)
               \/ PlaceRedesignations(p) \/ NextWindow(p) \/ WindowWritten(p)
      BY <3>3, <1>2, <1>3 DEF MatchByEvidence, ListWindows,
        PlaceRedesignations, NextWindow, WindowWritten
    <3>4. CASE AddLink(p) \/ KnownRun(p) \/ RunsRecorded(p)
      BY <3>4, <1>2, <1>3 DEF AddLink, KnownRun, RunsRecorded
    <3>5. CASE RecordRun(p)
      <4>1. PICK w \in batch[p] :
              cache' = [cache EXCEPT ![p].runs =
                          @ \cup {Run(MethodOf(command[p]), w)}]
        BY <3>5 DEF RecordRun
      <4>2. StandsOn(Run(MethodOf(command[p]), w), links)
        BY <3>5, BatchStands DEF RecordRun
      <4>3. Run(MethodOf(command[p]), w) \in Fresh
        BY <4>2 DEF Fresh, MethodRun, Run, MethodOf
      <4> QED
        BY <3>5, <4>1, <4>3, <1>2, <1>3 DEF RecordRun, Metadata
    <3>6. CASE WriteDeclaration(p) \/ WriteRuns(p) \/ WriteFails(p)
      BY <3>6, <1>2, <1>3 DEF WriteDeclaration, WriteRuns, WriteFails
    <3>7. CASE Declare(p)
      BY <3>7, <1>2, <1>3 DEF Declare, Metadata
    <3>8. CASE Settle(p) \/ BeginExpression(p) \/ CommitExpression(p)
      BY <3>8, <1>2, <1>3 DEF Settle, BeginExpression, CommitExpression
    <3> QED
      BY <2>2, <3>1, <3>2, <3>3, <3>4, <3>5, <3>6, <3>7, <3>8 DEF Step
  <2> QED
    BY <2>1, <2>2 DEF Next
<1>5. \A run \in Fresh : StandsOn(run, links')
  BY <1>1, StandsOnMore
<1>6. CopiesHaveLinks'
  <2>1. SUFFICES ASSUME NEW p \in Proc, NEW r \in cache'[p].runs
                 PROVE StandsOn(r, links')
    BY DEF CopiesHaveLinks, StandsOn, Backing, Found
  <2> QED
    BY <1>4, <1>5
<1>7. RunsHaveLinks'
  <2>1. SUFFICES ASSUME NEW r \in runs' PROVE StandsOn(r, links')
    BY DEF RunsHaveLinks, StandsOn, Backing, Found
  <2> QED
    BY <1>4, <1>5
<1> QED
  BY <1>6, <1>7

LEMMA TruthHolds == ASSUME StillWindows PROVE Spec => []TruthInv
<1>1. Init => TruthInv
  BY DateAssumption, ProcAssumption
  DEF Init, TruthInv, TypeOK, Metadata, EmptyMetadata, AtCommand,
      EvidenceApart, CopiesHaveLinks, BatchesHaveLinks, BillInHand,
      RunsHaveLinks
<1>2. TruthInv /\ [Next]_vars /\ TypeOK' => TruthInv'
  BY TruthStep, AtCommandStep, EvidenceApartStep, BatchesStep, BillInHandStep
  DEF TruthInv
<1> QED
  BY <1>1, <1>2, TypeCorrect, PTL DEF Spec

(* While no release point arrives beside link-by-evidence, a method run on *)
(* record has the links of a backing, all that evidence finds in its       *)
(* window or all that one bill states of it, however often commands crash, *)
(* and with any number of them writing the metadata at once.               *)
THEOREM RunsAreTrue == ASSUME StillWindows PROVE Spec => []RunsHaveLinks
<1>1. TruthInv => RunsHaveLinks
  BY DEF TruthInv
<1> QED
  BY <1>1, TruthHolds, PTL
-----------------------------------------------------------------------------
(* With one metadata writer at a time, no copy of the metadata is stale    *)

WritersApart ==
  \A p, q \in Proc :
    p # q /\ pc[p] # "closed" /\ pc[q] # "closed" =>
      ~(command[p] \in Writers /\ command[q] \in Writers)

CopiesCurrent ==
  \A p \in Proc : pc[p] # "closed" /\ command[p] \in Writers =>
    /\ runs \subseteq cache[p].runs
    /\ command[p] # "declare" => cache[p].declaration = declaration

CurrentInv == TypeOK /\ AtCommand /\ WritersApart /\ CopiesCurrent

LEMMA WritersApartStep ==
  ASSUME OneWriter, TypeOK, WritersApart, [Next]_vars
  PROVE WritersApart'
<1>1. CASE \E p \in Proc, c \in Command :
             /\ MayRun(c) /\ pc[p] = "closed"
             /\ pc' = [pc EXCEPT ![p] = "open"]
             /\ command' = [command EXCEPT ![p] = c]
  <2>1. PICK p \in Proc, c \in Command :
             /\ MayRun(c) /\ pc[p] = "closed"
             /\ pc' = [pc EXCEPT ![p] = "open"]
             /\ command' = [command EXCEPT ![p] = c]
    BY <1>1
  <2>2. \A q \in Proc : pc[q] # "closed" => ~(command[q] \in Writers /\ c \in Writers)
    BY <2>1 DEF MayRun, OneWriter
  <2> QED
    BY <2>1, <2>2 DEF WritersApart, TypeOK
<1>2. CASE \A p \in Proc : pc'[p] # "closed" =>
             pc[p] # "closed" /\ command'[p] = command[p]
  BY <1>2 DEF WritersApart
<1> QED
  BY <1>1, <1>2, CommandMoves

LEMMA CurrentStep ==
  ASSUME OneWriter, CurrentInv, [Next]_vars
  PROVE /\ CopiesCurrent'
        /\ runs \subseteq runs'
        /\ declaration' # declaration =>
             \E p \in Proc : /\ command[p] = "declare"
                             /\ pc[p] = "writeDeclaration"
                             /\ declaration' = cache[p].declaration
<1> DEFINE Kept == /\ CopiesCurrent'
                   /\ runs \subseteq runs'
                   /\ declaration' # declaration =>
                        \E p \in Proc : /\ command[p] = "declare"
                                        /\ pc[p] = "writeDeclaration"
                                        /\ declaration' = cache[p].declaration
<1> USE DEF CurrentInv, CopiesCurrent
<1>1. CASE UNCHANGED vars
  BY <1>1
<1>2. ASSUME NEW p \in Proc, Step(p) PROVE Kept
  <2> USE DEF TypeOK
  <2>1. CASE \E c \in Command : Open(p, c) \/ OpenUnread(p, c)
    BY <2>1 DEF Open, OpenUnread, Opened, OneWriter
  <2>2. CASE Close(p) \/ Crash(p)
    BY <2>2 DEF Close, Crash, Leave, Forget
  <2>3. CASE MatchByEvidence(p) \/ ListWindows(p)
    BY <2>3 DEF MatchByEvidence, ListWindows
  <2>4. CASE PlaceRedesignations(p) \/ NextWindow(p) \/ WindowWritten(p)
    BY <2>4 DEF PlaceRedesignations, NextWindow, WindowWritten
  <2>5. CASE AddLink(p) \/ KnownRun(p) \/ RunsRecorded(p)
    BY <2>5 DEF AddLink, KnownRun, RunsRecorded
  <2>6. CASE RecordRun(p)
    BY <2>6 DEF RecordRun, Metadata
  <2>7. CASE WriteDeclaration(p)
    <3>1. command[p] \in Writers
      BY <2>7 DEF WriteDeclaration, AtCommand
    <3>2. \A q \in Proc : pc[q] # "closed" /\ command[q] \in Writers => q = p
      BY <2>7, <3>1 DEF WriteDeclaration, WritersApart
    <3> QED
      BY <2>7, <3>1, <3>2 DEF WriteDeclaration, Metadata
  <2>8. CASE WriteRuns(p)
    <3>1. command[p] \in Writers
      BY <2>8 DEF WriteRuns, AtCommand
    <3>2. \A q \in Proc : pc[q] # "closed" /\ command[q] \in Writers => q = p
      BY <2>8, <3>1 DEF WriteRuns, WritersApart
    <3> QED
      BY <2>8, <3>1, <3>2 DEF WriteRuns, Metadata
  <2>9. CASE WriteFails(p)
    BY <2>9 DEF WriteFails
  <2>10. CASE Declare(p)
    BY <2>10 DEF Declare, Metadata
  <2>11. CASE Settle(p) \/ BeginExpression(p) \/ CommitExpression(p)
    BY <2>11 DEF Settle, BeginExpression, CommitExpression
  <2> QED
    BY <1>2, <2>1, <2>2, <2>3, <2>4, <2>5, <2>6, <2>7, <2>8, <2>9, <2>10,
       <2>11 DEF Step
<1> QED
  BY <1>1, <1>2 DEF Next

LEMMA CurrentHolds == ASSUME OneWriter PROVE Spec => []CurrentInv
<1>1. Init => CurrentInv
  BY DateAssumption, ProcAssumption
  DEF Init, CurrentInv, TypeOK, Metadata, EmptyMetadata, AtCommand,
      WritersApart, CopiesCurrent
<1>2. CurrentInv /\ [Next]_vars /\ TypeOK' => CurrentInv'
  BY CurrentStep, AtCommandStep, WritersApartStep DEF CurrentInv
<1> QED
  BY <1>1, <1>2, TypeCorrect, PTL DEF Spec

(* With one metadata writer at a time, no method run on record is lost.    *)
THEOREM RunsAreKept == ASSUME OneWriter PROVE Spec => RunsKept
<1>1. CurrentInv /\ [Next]_vars => [runs \subseteq runs']_vars
  BY CurrentStep
<1> QED
  BY <1>1, CurrentHolds, PTL DEF Spec, RunsKept

(* With one metadata writer at a time, only declare moves the declaration. *)
THEOREM DeclarationsAreKept == ASSUME OneWriter PROVE Spec => DeclarationKept
<1>1. CurrentInv /\ [Next]_vars =>
        [declaration' # declaration =>
           \E p \in Proc : command[p] = "declare" /\ pc[p] = "writeDeclaration"
                           /\ declaration' = cache[p].declaration]_vars
  BY CurrentStep
<1> QED
  BY <1>1, CurrentHolds, PTL DEF Spec, DeclarationKept
-----------------------------------------------------------------------------
(* The file implements Ledger                                              *)

LEMMA FileStep ==
  ASSUME CurrentInv, TruthInv, OneWriter, StillWindows, [Next]_vars
  PROVE [Promised!Next]_<<links, runs, declaration>>
<1> USE DEF Promised!Next, Promised!ledger
<1>1. CASE UNCHANGED vars
  BY <1>1
<1>2. ASSUME NEW p \in Proc, Step(p)
      PROVE [Promised!Next]_<<links, runs, declaration>>
  <2>1. CASE \E c \in Command : Open(p, c) \/ OpenUnread(p, c)
    BY <2>1 DEF Open, OpenUnread, Opened
  <2>2. CASE Close(p) \/ Crash(p)
    BY <2>2 DEF Close, Crash, Leave, Forget
  <2>3. CASE \/ MatchByEvidence(p) \/ ListWindows(p) \/ PlaceRedesignations(p)
             \/ NextWindow(p) \/ WindowWritten(p)
    BY <2>3 DEF MatchByEvidence, ListWindows, PlaceRedesignations, NextWindow,
                WindowWritten
  <2>4. CASE AddLink(p)
    <3>1. toWrite[p] \subseteq Link
      BY StatedAssumption DEF CurrentInv, TypeOK, Link, Statement
    <3> QED
      BY <2>4, <3>1 DEF AddLink, Promised!AddLink
  <2>5. CASE KnownRun(p) \/ RecordRun(p) \/ RunsRecorded(p) \/ WriteFails(p)
    BY <2>5 DEF KnownRun, RecordRun, RunsRecorded, WriteFails
  <2>6. CASE WriteDeclaration(p)
    <3>1. cache[p].declaration \in Declaration \cup {NoDeclaration}
      BY DEF CurrentInv, TypeOK, Metadata
    <3> QED
      BY <2>6, <3>1 DEF WriteDeclaration, Promised!Declare
  <2>7. CASE WriteRuns(p)
    <3>1. cache[p].runs \in SUBSET MethodRun
      BY DEF CurrentInv, TypeOK, Metadata
    <3>2. \A r \in cache[p].runs : \E held \in Backing[r] : held \subseteq links
      BY DEF TruthInv, CopiesHaveLinks, StandsOn
    <3>3. runs' = runs \cup cache[p].runs
      BY <2>7, CurrentStep DEF WriteRuns
    <3> QED
      BY <2>7, <3>1, <3>2, <3>3 DEF WriteRuns, Promised!AddRuns
  <2>8. CASE Settle(p)
    <3>1. \A l \in links : [l EXCEPT !.method = "review"] \in Link
      BY DEF CurrentInv, TypeOK, Link
    <3> QED
      BY <2>8, <3>1 DEF Settle, Promised!AddLink
  <2>9. CASE Declare(p) \/ BeginExpression(p) \/ CommitExpression(p)
    BY <2>9 DEF Declare, BeginExpression, CommitExpression
  <2> QED
    BY <1>2, <2>1, <2>2, <2>3, <2>4, <2>5, <2>6, <2>7, <2>8, <2>9 DEF Step
<1> QED
  BY <1>1, <1>2 DEF Next

(* With one metadata writer at a time and no release point arriving beside *)
(* link-by-evidence, the file implements Ledger: every step any command    *)
(* takes, a crash included, adds a link, adds true runs, declares, or      *)
(* changes none of the three.                                              *)
THEOREM ImplementsLedger ==
  ASSUME OneWriter, StillWindows PROVE Spec => KeepsLedger
<1>1. Init => Promised!Init
  BY DEF Init, Promised!Init
<1>2. CurrentInv /\ TruthInv /\ [Next]_vars =>
        [Promised!Next]_<<links, runs, declaration>>
  BY FileStep
<1> QED
  BY <1>1, <1>2, CurrentHolds, TruthHolds, PTL
  DEF Spec, KeepsLedger, Promised!Spec, Promised!ledger
=============================================================================
