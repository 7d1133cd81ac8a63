---------------------------- MODULE GrowDataset ----------------------------
(***************************************************************************)
(* The commands that grow one SQLite dataset file, each a process of its   *)
(* own: src/bin/words_to_data opens the file, reads the metadata into a    *)
(* copy it keeps (SqliteStorage.metadata), works on links and expressions  *)
(* in the file, and writes the whole metadata back from its copy.          *)
(*                                                                         *)
(* The file holds the expressions of one work (a work is independent of    *)
(* every other), the links, and two rows of metadata that matter here: the *)
(* declaration and the list of method runs.                                *)
(***************************************************************************)
EXTENDS Naturals

CONSTANTS
  Proc, NoProc,  \* processes a user starts, one command each at a time
  Date,          \* dates a release point can have
  FirstDates,    \* the dates the dataset holds when the first command opens it
  Declaration,   \* declarations a user can write
  NoDeclaration, \* the metadata names no declaration
  Bill, NoBill,  \* the bills held that state some renumbering: a bill that
                 \* states none is passed over and nothing is written for it
  Stated,        \* the links each method would make, were its window held
  Beside,        \* pairs of commands a user runs at the same time
  SlowWrites     \* a transaction can outlast BUSY_TIMEOUT (5 s, sqlite.rs:380)
                 \* while another process opens the file

Method == {"evidence", "redesignation"}

Command == {"link-by-evidence", "redesignations", "add-release-points",
            "declare", "settle"}

Window == {w \in Date \X Date : w[1] < w[2]}

(* A MethodRun names no bill: "A second bill read over the same window at  *)
(* the same version is the same record."                                   *)
MethodRun == [method : Method, window : Window]

(* The link a method makes in a window for what a bill states.             *)
Statement == [method : Method, window : Window, bill : Bill]

(* A review record is a link too: it copies its link's window.             *)
Link == [method : Method \cup {"review"}, window : Window, bill : Bill]

ASSUME ProcAssumption == NoProc \notin Proc
ASSUME BillAssumption == NoBill \notin Bill
ASSUME DateAssumption == Date \subseteq Nat /\ FirstDates \subseteq Date
ASSUME DeclarationAssumption == NoDeclaration \notin Declaration
ASSUME StatedAssumption == Stated \subseteq Statement
ASSUME BesideAssumption == Beside \subseteq Command \X Command
ASSUME SlowWritesAssumption == SlowWrites \in BOOLEAN

VARIABLES
  expressions,  \* the dates of the expressions the file holds
  links,        \* the links the file holds
  runs,         \* the file's "method_runs" row
  declaration,  \* the file's "declaration" row, or NoDeclaration
  lock,         \* the process inside a write transaction, or NoProc
  pc,           \* where each process stands
  command,      \* the command each process runs
  cache,        \* each process's copy of the metadata
  windows,      \* the bills and windows a process has still to turn to
  bill,         \* the bill it reads, or NoBill
  batch,        \* the windows it writes the links and then the runs of
  toWrite       \* the links it has found in them and not written

file == <<expressions, links, runs, declaration>>
vars == <<expressions, links, runs, declaration, lock, pc, command, cache,
          windows, bill, batch, toWrite>>

Metadata == [runs : SUBSET MethodRun,
             declaration : Declaration \cup {NoDeclaration}]

EmptyMetadata == [runs |-> {}, declaration |-> NoDeclaration]

PC == {"closed", "open", "windows", "links", "runs", "writeDeclaration",
       "writeRuns", "transaction"}

(* adjacent_expressions: each pair of neighbours among the dates held.     *)
Adjacent(held) ==
  {w \in held \X held :
     w[1] < w[2] /\ ~ \E d \in held : w[1] < d /\ d < w[2]}

(* What a method finds in windows when it reads these bills.               *)
Found(method, ws, bills) ==
  {s \in Stated : s.method = method /\ s.window \in ws /\ s.bill \in bills}

Run(method, w) == [method |-> method, window |-> w]

MethodOf(c) == IF c = "link-by-evidence" THEN "evidence" ELSE "redesignation"

Init ==
  /\ expressions = FirstDates
  /\ links = {}
  /\ runs = {}
  /\ declaration = NoDeclaration
  /\ lock = NoProc
  /\ pc = [p \in Proc |-> "closed"]
  /\ command = [p \in Proc |-> "settle"]
  /\ cache = [p \in Proc |-> EmptyMetadata]
  /\ windows = [p \in Proc |-> {}]
  /\ bill = [p \in Proc |-> NoBill]
  /\ batch = [p \in Proc |-> {}]
  /\ toWrite = [p \in Proc |-> {}]
-----------------------------------------------------------------------------
(* Opening the file, and the end of a command                              *)

MayRun(c) ==
  \A q \in Proc : pc[q] # "closed" => <<command[q], c>> \in Beside

Opened(p, c, metadata) ==
  /\ pc[p] = "closed" /\ MayRun(c)
  /\ pc' = [pc EXCEPT ![p] = "open"]
  /\ command' = [command EXCEPT ![p] = c]
  /\ cache' = [cache EXCEPT ![p] = metadata]
  /\ UNCHANGED <<file, lock, windows, bill, batch, toWrite>>

(* SqliteStorage::open with load_metadata.                                 *)
Open(p, c) == Opened(p, c, [runs |-> runs, declaration |-> declaration])

(* The same when the metadata cannot be read because another process's     *)
(* transaction outlasts the wait: `load_metadata().unwrap_or_default()`.   *)
OpenUnread(p, c) ==
  /\ SlowWrites /\ lock # NoProc
  /\ Opened(p, c, EmptyMetadata)

Forget(p) ==
  /\ pc' = [pc EXCEPT ![p] = "closed"]
  /\ command' = [command EXCEPT ![p] = "settle"]
  /\ cache' = [cache EXCEPT ![p] = EmptyMetadata]
  /\ windows' = [windows EXCEPT ![p] = {}]
  /\ bill' = [bill EXCEPT ![p] = NoBill]
  /\ batch' = [batch EXCEPT ![p] = {}]
  /\ toWrite' = [toWrite EXCEPT ![p] = {}]
  /\ lock' = IF lock = p THEN NoProc ELSE lock

Leave(p) == Forget(p) /\ UNCHANGED file

(* Mutant: a command that ends saves its copy of the metadata once more.   *)
CloseSaving(p) ==
  /\ pc[p] = "open" /\ command[p] \in {"add-release-points", "settle"}
  /\ declaration' = IF cache[p].declaration # NoDeclaration
                    THEN cache[p].declaration ELSE declaration
  /\ Forget(p)
  /\ UNCHANGED <<expressions, links, runs>>

Close(p) ==
  /\ \/ pc[p] = "open" /\ command[p] \in {"add-release-points", "settle"}
     \/ pc[p] = "windows" /\ windows[p] = {}
  /\ Leave(p)

(* A crash, a kill, or a failed statement that ends the command (or_exit). *)
(* An open transaction is rolled back.                                     *)
Crash(p) == pc[p] # "closed" /\ Leave(p)
-----------------------------------------------------------------------------
(* The steps of link-by-evidence and redesignations                        *)

(* Mutant: the runs are recorded before the links are written.             *)
MatchRunsFirst(p) ==
  /\ pc[p] = "open" /\ command[p] = "link-by-evidence"
  /\ toWrite' = [toWrite EXCEPT ![p] = Found("evidence", Adjacent(expressions), Bill)]
  /\ batch' = [batch EXCEPT ![p] = Adjacent(expressions)]
  /\ pc' = [pc EXCEPT ![p] = "runs"]
  /\ UNCHANGED <<file, lock, command, cache, windows, bill>>

(* link-by-evidence matches every window the dataset holds now.            *)
MatchByEvidence(p) ==
  /\ pc[p] = "open" /\ command[p] = "link-by-evidence"
  /\ toWrite' = [toWrite EXCEPT ![p] = Found("evidence", Adjacent(expressions), Bill)]
  /\ pc' = [pc EXCEPT ![p] = "links"]
  /\ UNCHANGED <<file, lock, command, cache, windows, bill, batch>>

(* With its links written, it lists the windows again, to record its runs. *)
ListWindows(p) ==
  /\ pc[p] = "links" /\ command[p] = "link-by-evidence" /\ toWrite[p] = {}
  /\ batch' = [batch EXCEPT ![p] = Adjacent(expressions)]
  /\ pc' = [pc EXCEPT ![p] = "runs"]
  /\ UNCHANGED <<file, lock, command, cache, windows, bill, toWrite>>

(* redesignations reads the bill a user names over every adjacent window,  *)
(* or over the one named by two dates the dataset holds. add-bills and     *)
(* build-dataset end with the same step, each bill they loaded over every  *)
(* adjacent window, with the windows listed once.                          *)
PlaceRedesignations(p) ==
  /\ pc[p] = "open" /\ command[p] = "redesignations"
  /\ \/ \E b \in Bill, w \in {v \in expressions \X expressions : v[1] < v[2]} :
          windows' = [windows EXCEPT ![p] = {<<b, w>>}]
     \/ \E bills \in SUBSET Bill :
          windows' = [windows EXCEPT ![p] = bills \X Adjacent(expressions)]
  /\ pc' = [pc EXCEPT ![p] = "windows"]
  /\ UNCHANGED <<file, lock, command, cache, bill, batch, toWrite>>

(* record_redesignations_over, one bill after another: it takes the bill's *)
(* next window with the bill's links in it,                                *)
NextWindow(p) ==
  /\ pc[p] = "windows"
  /\ \E b \in Bill, w \in Window :
       /\ <<b, w>> \in windows[p]
       /\ b = bill[p] \/ ~ \E v \in Window : <<bill[p], v>> \in windows[p]
       /\ windows' = [windows EXCEPT ![p] = @ \ {<<b, w>>}]
       /\ bill' = [bill EXCEPT ![p] = b]
       /\ batch' = [batch EXCEPT ![p] = {w}]
       /\ toWrite' = [toWrite EXCEPT ![p] = Found("redesignation", {w}, {b})]
  /\ pc' = [pc EXCEPT ![p] = "links"]
  /\ UNCHANGED <<file, lock, command, cache>>

(* and turns to the window's run when they are written.                    *)
WindowWritten(p) ==
  /\ pc[p] = "links" /\ command[p] = "redesignations" /\ toWrite[p] = {}
  /\ pc' = [pc EXCEPT ![p] = "runs"]
  /\ UNCHANGED <<file, lock, command, cache, windows, bill, batch, toWrite>>

(* add_link, one statement.                                                *)
AddLink(p) ==
  /\ pc[p] = "links" /\ lock = NoProc
  /\ \E l \in toWrite[p] :
       /\ links' = links \cup {l}
       /\ toWrite' = [toWrite EXCEPT ![p] = @ \ {l}]
  /\ UNCHANGED <<expressions, runs, declaration, lock, pc, command, cache,
                 windows, bill, batch>>

(* record_method_run: a run the copy holds already is not written again,   *)
KnownRun(p) ==
  /\ pc[p] = "runs"
  /\ \E w \in batch[p] :
       /\ Run(MethodOf(command[p]), w) \in cache[p].runs
       /\ batch' = [batch EXCEPT ![p] = @ \ {w}]
  /\ UNCHANGED <<file, lock, pc, command, cache, windows, bill, toWrite>>

(* Mutant: the new run takes the place of the list.                        *)
RecordRunAlone(p) ==
  /\ pc[p] = "runs"
  /\ \E w \in batch[p] :
       LET run == Run(MethodOf(command[p]), w) IN
       /\ run \notin cache[p].runs
       /\ cache' = [cache EXCEPT ![p].runs = {run}]
       /\ batch' = [batch EXCEPT ![p] = @ \ {w}]
  /\ pc' = [pc EXCEPT ![p] = "writeDeclaration"]
  /\ UNCHANGED <<file, lock, command, windows, bill, toWrite>>

(* and a new one is pushed on the copy, which set_metadata then writes.    *)
RecordRun(p) ==
  /\ pc[p] = "runs"
  /\ \E w \in batch[p] :
       LET run == Run(MethodOf(command[p]), w) IN
       /\ run \notin cache[p].runs
       /\ cache' = [cache EXCEPT ![p].runs = @ \cup {run}]
       /\ batch' = [batch EXCEPT ![p] = @ \ {w}]
  /\ pc' = [pc EXCEPT ![p] = "writeDeclaration"]
  /\ UNCHANGED <<file, lock, command, windows, bill, toWrite>>

RunsRecorded(p) ==
  /\ pc[p] = "runs" /\ batch[p] = {}
  /\ pc' = [pc EXCEPT ![p] = "windows"]
  /\ UNCHANGED <<file, lock, command, cache, windows, bill, batch, toWrite>>
-----------------------------------------------------------------------------
(* set_metadata: the copy is written, one row by one statement             *)

WriteDeclaration(p) ==
  /\ pc[p] = "writeDeclaration" /\ lock = NoProc
  /\ declaration' = IF cache[p].declaration # NoDeclaration
                    THEN cache[p].declaration ELSE declaration
  /\ pc' = [pc EXCEPT ![p] = "writeRuns"]
  /\ UNCHANGED <<expressions, links, runs, lock, command, cache, windows,
                 bill, batch, toWrite>>

WriteRuns(p) ==
  /\ pc[p] = "writeRuns" /\ lock = NoProc
  /\ runs' = cache[p].runs
  /\ pc' = [pc EXCEPT ![p] = "runs"]
  /\ UNCHANGED <<expressions, links, declaration, lock, command, cache,
                 windows, bill, batch, toWrite>>

(* A statement that fails, for a lock that is not given in time, a full    *)
(* disk or any other reason, ends the write, and set_metadata drops the    *)
(* error: the command goes on with the run in its copy alone.              *)
WriteFails(p) ==
  /\ pc[p] \in {"writeDeclaration", "writeRuns"}
  /\ pc' = [pc EXCEPT ![p] = "runs"]
  /\ UNCHANGED <<file, lock, command, cache, windows, bill, batch, toWrite>>
-----------------------------------------------------------------------------
(* The other commands                                                      *)

Declare(p) ==
  /\ pc[p] = "open" /\ command[p] = "declare"
  /\ \E d \in Declaration : cache' = [cache EXCEPT ![p].declaration = d]
  /\ pc' = [pc EXCEPT ![p] = "writeDeclaration"]
  /\ UNCHANGED <<file, lock, command, windows, bill, batch, toWrite>>

(* Mutant: the review takes the place of the link it reviews.              *)
SettleOver(p) ==
  /\ pc[p] = "open" /\ command[p] = "settle" /\ lock = NoProc
  /\ \E l \in links :
       links' = (links \ {l}) \cup {[l EXCEPT !.method = "review"]}
  /\ UNCHANGED <<expressions, runs, declaration, lock, pc, command, cache,
                 windows, bill, batch, toWrite>>

(* settle records its review of a link the dataset holds.                  *)
Settle(p) ==
  /\ pc[p] = "open" /\ command[p] = "settle" /\ lock = NoProc
  /\ \E l \in links : links' = links \cup {[l EXCEPT !.method = "review"]}
  /\ UNCHANGED <<expressions, runs, declaration, lock, pc, command, cache,
                 windows, bill, batch, toWrite>>

(* add-release-points: add_expression is one transaction.                  *)
BeginExpression(p) ==
  /\ pc[p] = "open" /\ command[p] = "add-release-points" /\ lock = NoProc
  /\ lock' = p
  /\ pc' = [pc EXCEPT ![p] = "transaction"]
  /\ UNCHANGED <<file, command, cache, windows, bill, batch, toWrite>>

CommitExpression(p) ==
  /\ pc[p] = "transaction"
  /\ \E d \in Date : expressions' = expressions \cup {d}
  /\ lock' = NoProc
  /\ pc' = [pc EXCEPT ![p] = "open"]
  /\ UNCHANGED <<links, runs, declaration, command, cache, windows, bill,
                 batch, toWrite>>
-----------------------------------------------------------------------------
Step(p) ==
  \/ \E c \in Command : Open(p, c) \/ OpenUnread(p, c)
  \/ Close(p) \/ Crash(p)
  \/ MatchByEvidence(p) \/ ListWindows(p)
  \/ PlaceRedesignations(p) \/ NextWindow(p) \/ WindowWritten(p)
  \/ AddLink(p) \/ KnownRun(p) \/ RecordRun(p) \/ RunsRecorded(p)
  \/ WriteDeclaration(p) \/ WriteRuns(p) \/ WriteFails(p)
  \/ Declare(p) \/ Settle(p)
  \/ BeginExpression(p) \/ CommitExpression(p)

Next == \E p \in Proc : Step(p)

Spec == Init /\ [][Next]_vars
-----------------------------------------------------------------------------
(* The state is of its type, and the process that holds the file's write   *)
(* lock is inside add_expression's transaction.                            *)
TypeOK ==
  /\ expressions \in SUBSET Date
  /\ links \in SUBSET Link
  /\ runs \in SUBSET MethodRun
  /\ declaration \in Declaration \cup {NoDeclaration}
  /\ lock \in Proc \cup {NoProc}
  /\ pc \in [Proc -> PC]
  /\ command \in [Proc -> Command]
  /\ cache \in [Proc -> Metadata]
  /\ windows \in [Proc -> SUBSET (Bill \X Window)]
  /\ bill \in [Proc -> Bill \cup {NoBill}]
  /\ batch \in [Proc -> SUBSET Window]
  /\ toWrite \in [Proc -> SUBSET Stated]
  /\ \A p \in Proc : lock = p <=> pc[p] = "transaction"

(* The links a run on record stands for: of evidence, every link evidence  *)
(* finds in the window; of a renumbering, every link some bill states of   *)
(* it, since the run that one bill leaves is the run of them all.          *)
Backing ==
  [r \in MethodRun |->
     IF r.method = "evidence" THEN {Found("evidence", {r.window}, Bill)}
     ELSE {Found("redesignation", {r.window}, {b}) : b \in Bill}]

(* A method run on record stands on links that are in the file, all that   *)
(* link-by-evidence finds in the window or all that a whole bill states    *)
(* (link_by_evidence.rs and record_redesignations_over write the links     *)
(* first, then the run). A crash may leave links with no run, never a run  *)
(* with links missing of what it was recorded for.                         *)
RunsHaveLinks == \A r \in runs : \E s \in Backing[r] : s \subseteq links

(* A method run, once recorded, is never lost (method.rs: it "stays true   *)
(* however much the dataset grows"), though record_method_run writes the   *)
(* whole list back from a copy read when the command opened the file.      *)
RunsKept == [][runs \subseteq runs']_vars

(* Only declare changes the declaration: no other command writes back an   *)
(* older one from its copy of the metadata.                                *)
DeclarationKept ==
  [][declaration' # declaration =>
       \E p \in Proc : command[p] = "declare" /\ pc[p] = "writeDeclaration"
                       /\ declaration' = cache[p].declaration]_vars

(* The file keeps the promises of Ledger, step by step.                    *)
Promised == INSTANCE Ledger
KeepsLedger == Promised!Spec
=============================================================================
