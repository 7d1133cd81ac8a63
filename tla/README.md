# words-to-data in TLA+

Models, model checks and proofs of [words-to-data](../src): a Rust library and
command line (`src/src/`, with `src/src/bin/words_to_data/`) that keeps the
words of United States law as data. A *dataset* holds printings of the Code
(*expressions*, one per release point), bills, votes, and *links* between them:
links found by a method, links made from citations, reviews of links. The
modules here are translated from the source, line ranges in `PROJECT.json`
under `map`.

Contents: [the system](#the-system) ·
[the modules](#the-modules) · [the runs](#the-runs) ·
[fairness](#fairness) · [the proofs](#the-proofs) ·
[where properties stop holding](#where-properties-stop-holding) ·
[what is not modelled](#what-is-not-modelled) · [the plan](#the-plan) ·
[running it](#running-it)

## The system

The program is a set of one-shot commands over files. Nothing inside a command
is concurrent except one thread pool, in the download of a bill. Two things make
it hard. The *file* outlives the commands: several commands may have it
open, each with its own cached copy of part of it; a command may be killed
between any two writes, most of which commit alone; and a dataset must come out
the same whether it was built at once or grown step by step. And what the
program says is *inferred*: which amendment made a change, which provision a
renumbered one was, what a citation means, where a writing ends. The inference
goes by steps, each of which builds on what the ones before it gave, over
records that may be incomplete.

| Component | State | Operations | Interacts with | What is hard | What makes it correct |
|---|---|---|---|---|---|
| Growing a dataset in place (`dataset/`, `storage/sqlite.rs`, `link_by_evidence`, `add_release_points`, `record_redesignations`) | SQLite tables; each process's copy of the metadata | open, add a release point, write links, record a method run, write the declaration | every growing command shares the file; SQLite's lock and a 5 s busy timeout | stale metadata written back whole; links and the run written apart, bill by bill; a failed metadata write dropped; kills | a run on record has the links of what was read for it; runs and declarations are not lost |
| Reviews (`review.rs`, `settle`, `citation/carry.rs`) | review records, themselves links | record a verdict, read the newest, carry reviews to a rebuilt dataset | reads links; carry reads one dataset and writes another | a record's identity leaves out its time, so writing may put an old time over a new one; a carry killed part way and run again | the verdict reported is the newest given; a carry leaves no review behind |
| Renumbering placement (`legislature/redesignation_window.rs`) | renumbering links; whether a statement is placed is read back from them | run the step over windows | runs when bills or release points are added; reviews refute its links | the order release points arrive in; two statements that give one link; refutations | a link is evidence of its move; a statement is placed once; grown is built |
| Loading bills (`congress_bills.rs`, `Dataset::load_bill_download`) | bills, documents, sponsors, members, roll calls, member votes | ask what is held, store each bill by a row of writes, record renumberings | two processes; the votes tables have no key on the vote | the bill row is written first, and marks it as held; roll calls without votes | a loaded bill is whole; a roll call is stored once; the two ways to read votes agree |
| Congress client, response cache, HTTP (`congress/client.rs`, `cache.rs`, `http.rs`) | cache files and their age; a flag that IPv6 is unreachable; a pool of workers | fetch through the cache, retry over IPv4, download a bill, offline mode | the disk outlives runs; workers share cache and flag | truncate-then-fill; first error stops the pool while others are in flight; roll calls told apart by number; no timeout | gaps are named; offline runs find what a whole download stored; a download ends or waits for an answer |
| Documents and the element index (`storage/memory.rs`, `storage/sqlite.rs`) | expressions, their elements, indexes | add an expression, neighbours, find nodes, search, load to memory, save from memory | two backends for one interface | an index row that outlives its document; tables read one by one; LIKE | the two backends answer alike where LIKE reads a path as written |
| Diff, history walk, report of a path (`diff/`, `link.rs`, `inspect.rs`) | renumbering links, printings | compare two printings, join the renumberings of windows, follow one path | reads printings and links | numbers given to other provisions, moves inside moved containers, cycles | a provision is compared with itself; history, path report and diff agree |
| Amendment addresses (`uslm/amendment_address.rs`) | none | say which provision an instruction of a bill acts on | feeds evidence matching | what holds in the levels above and the list items below; sections of Acts numbered like the Code's | no address in another document |
| Evidence matching (`legislature/evidence_matching/`) | none | find the changes each amendment made | reads laws, printings, renumberings; feeds `link-by-evidence` | laws take effect late, in any order, and some are not held; several amendments, one section | a change has one cause; a link is true; a printing more changes no link |
| Work list: residue, outdated links, section agreement (`legislature/`) | links, reviews, runs | what is left to do, what a newer matcher no longer makes | reads what runs, agents and reviewers wrote | nothing of it is stored: all is told from links of several versions and killed runs | a refuted amendment is work; a current link is not outdated; a run settles what it found |
| Citations (`citation/`), cases and reliance (`judicial/`, `add_opinions.rs`) | cases, citation links | read what an opinion cites, resolve it in the printing in force, tell who cites a path | printings may be added before, between and after | words cut by page breaks and footnote marks; several readers of one link; kills | links are what the words mean; silence is true; the readers agree |
| CourtListener (`courtlistener/`) | cached records | read a case's records, build its nodes | a quota of requests; feeds `add-opinions` | markup of several makers, marks of two reporters, writings split or combined | a case is whole, its writings apart, its pages true; what can be stored is in the end |
| Query, scope, search, text | none | select nodes | read expressions | two implementations of search | the backends agree |
| OLRC tables, release points | files on disk | download, unpack, locate | feed `add-release-points` | a folder unpacked part way | a release point is whole |
| USLM parsing, dates, compact format | none | parse, serialise | | text | round trips |
| Inspect and report commands | none | print | read everything | | |

Status of each in `PROJECT.json` under `components`; what can go wrong, at the
line where it can, under `hazards`.

## The modules

| Module | Models | Code |
|---|---|---|
| `GrowDataset` | the commands that grow one SQLite file, each a process | `storage/sqlite.rs` (open, metadata, `add_expression`, `add_link`), `dataset/mod.rs` 350-479, `add_release_points.rs`, `link_by_evidence.rs` |
| `Ledger` | what a dataset file promises: the abstract specification `GrowDataset` implements | method.rs, ADRs, as said in its properties |
| `Reviews` | verdicts on links and the carry of them | `review.rs`, `settle.rs` 454-490, `citation/carry.rs` |
| `RedesignationWindow` | where renumbering statements are placed as the dataset grows | `legislature/redesignation_window.rs`, `dataset/mod.rs` 296-442 |
| `AddBills` | `add-bills` over one file, by several runs | `congress_bills.rs`, `dataset/mod.rs` 725-802, votes in `storage/sqlite.rs` |
| `CongressClient` | the download of a bill over the cache, run again and again | `congress/client.rs`, `cache.rs`, `http.rs` |
| `Documents` | the data of a dataset's documents and links, and its assumptions | `document.rs`, `query.rs` |
| `DocumentStore` | the storage in memory: the abstract specification `SqliteStore` implements | `storage/memory.rs`, `storage/mod.rs` |
| `SqliteStore` | the same dataset in tables, with an element index | `storage/sqlite.rs`, `load.rs` 96-114 |
| `TreeDiff` | how two printings are compared, renumberings joined, a path followed | `diff/mod.rs`, `link.rs` 780-900, `inspect.rs` (`follow`) |
| `Printings` | the printings of a work as amendments make them, and what is asked of the comparison | `dataset/mod.rs` (`redesignations_over`), `link.rs` |
| `QuotedWords` | which change the words a bill quotes show | `evidence_matching/quoted_words.rs` |
| `Resolve` | the changes of a section given to the amendments addressed there | `evidence_matching/resolve.rs` |
| `WindowMatch` | the address, the window and the stages of `match_in_work` | `evidence_matching/mod.rs`, `olrc.rs` |
| `Addresses` | which provision an instruction in a bill acts on | `uslm/amendment_address.rs` |
| `EvidenceMatching` | laws enacted, taking effect and held, in any order, and what the matcher makes of it | `evidence_matching/mod.rs` |
| `WorkList` | the links that runs, agents and reviewers write, and the reports read from them | `link_by_evidence.rs`, `residue/`, `outdated.rs`, `section_agreement.rs` |
| `Citations` | what the words of an opinion cite, and where that leads | `citation/` |
| `Reliance` | the citation links and their readers | `judicial/reliance.rs`, `judicial/cites.rs`, `cases_citing.rs` |
| `Opinions` | `add-opinions` over a file that grows | `add_opinions.rs`, `judicial/mod.rs` |
| `Passages` | markup read into paragraphs, pages, footnotes | `courtlistener/structure.rs` |
| `Writings` | the writings in a combined record | `courtlistener/writings.rs` |
| `PlainText` | a slip opinion's pages read by how they are set | `courtlistener/plain.rs` |
| `CaseRecords` | records of a case made into nodes | `courtlistener/opinion.rs` |
| `AddCases` | records read through cache and quota, cases stored | `add_opinions.rs`, `courtlistener/client.rs` |
| `MC*` | an instance of each for TLC | |
| `*Proofs` | theorems about each, checked by TLAPS | |

The components meet in the file. A module that needs the effect of another
component has it as a step of its own: `GrowDataset` has settle's write
of a review link beside every other command and leaves its meaning to
`Reviews`; `AddBills` records its renumberings in one step and leaves where
they land to `RedesignationWindow`; `CongressClient` ends where `AddBills`
begins, with a download in memory. Five groups are composed by EXTENDS, each
module of a group building on the one before:

    TreeDiff, QuotedWords -> Resolve -> WindowMatch -> EvidenceMatching -> WorkList
    TreeDiff -> Printings
    Citations -> Reliance -> Opinions
    Passages -> Writings -> PlainText -> CaseRecords -> AddCases
    Documents -> DocumentStore, SqliteStore

and `MCEvidenceMatching` has an instance of `Addresses` read the drafts of its
laws, so that what the matcher is given is what the address reader answers.

**GrowDataset.** A process is a command (`command[p]`) at a place (`pc[p]`). It
opens the file and reads the metadata into `cache[p]`
(`SqliteStorage.metadata`); every metadata write stores the whole of `cache[p]`.
`windows`, `batch` and `toWrite` are its local variables: the windows left, each
with the bill read for it, those now being written, and the links found and not
yet written. Renumberings are recorded bill after bill, each over its windows
(`redesignations` has one bill, `add-bills` those it loaded). The links of one bill
in one window are written one per step, then the run, whose name has no bill in it. So `Backing` says, of
each run, the sets of links it may stand for: what evidence finds in the window, or
what one bill states of it. `lock` is the write transaction of
`add_expression`; other writes are one statement and wait for the lock. Any
metadata write may fail, and a failed one is dropped, as `set_metadata` does.
With `SlowWrites` a command that opens the file beside a long transaction reads
no metadata and goes on with none. A process may be killed at any step. `Beside`
says which commands a user runs at one time: the properties differ by it.

**Reviews.** `reviews[d][k]` is the time on the record of dataset `d` with
identity `k` (link, verdict, reviewer), 0 when there is none. Recording a
verdict takes two steps (take the time, write), so that two settle processes
cross. `carry` reads all of `old`, then writes copies one at a time, in no fixed
order, with the times they had; it may be killed and run again. `Again` is any
relation of links: a rebuild may keep, rename, split and merge them. `Merged`
tells the copies that reviews of two old links have in common. `said` is history: everything
ever said, overwritten or not.

**RedesignationWindow.** `document` is what each release point prints, chosen
at the start and never changed; `held` the dates present. A step runs
`record_redesignations` over any set of windows: for each statement in turn, in
the order of the windows, it writes the links the window resolves, unless links
in the dataset say that it is placed earlier. How the children of two printings
are aligned (`redesignation.rs`) is the operator `Resolved`: a move
resolves where each end holds its provision once. `inOrder` is history: windows
arrived oldest first, the step ran over each new one in turn, and no
refutation was withdrawn.

**AddBills.** `at[p]` is the write a process stands before. Tables are sets of
ids, `rows` the `roll_calls` table with its `member_votes`. A bill's row is
written first and everything later takes one step each, because each commits
alone. A run may end at any of them: killed, refused by a busy database, or by
markup with no day of approval (`Undated`). `LoadBillVotes` is the loader's way
to give votes to roll calls, as a fold. `beside` is history: a run was started
beside another.

**CongressClient.** `Parts` is what the API says of the bill: the head, the
actions, the roll calls. `Main` takes the parts in order, then `Worker`s take
the members. Each request goes look → network (any family, or IPv4) → create
the entry → fill it. The network answers, refuses by rate limit, fails, or
cannot be reached, or never answers at all. Looking, creating and filling are a
thread's own steps (`LocalStep`). Runs follow each other, online or offline, over one cache
whose entries age between runs; a run may be killed at any step. That the head
of a bill is one response is an abstraction: metadata, cosponsors and text are
the same request with the same errors three times.

**DocumentStore and SqliteStore.** A tree is the sequence of its nodes in
document order, and one query is asked throughout: a node has the fields that
say it. `DocumentStore` holds trees (`laws`), and answers by walking them.
`SqliteStore` holds `expressions`, the same trees as documents, and `index`, a
row per node keyed by work, date and ordinal; the `Sql*` operators are its
queries: rows that satisfy a WHERE clause, in an ORDER BY order. `adding[p]` is
a link a process has looked up and not yet written (`add_link` is two
statements), `loading` what `to_memory` has read so far, table by table.
`Saved` are the datasets somebody saves to the file's name; the command removes
the file first. `Likes` is what LIKE takes for beneath a path asked for; in the run it
is what is beneath the path, or would be in the other case of letters. The link table keeps of a
link its verification alone, and `runs` are named by a link each wrote.

**TreeDiff and Printings.** A provision has a number of its own, which the code
never sees: it is the truth against which a comparison is judged. `Mates`
pairs the provisions of two printings as `from_nodes_with` does (renumbered,
then by path and place among children of that path). `Then` joins the
renumberings of two windows. `Printings` drafts a printing by amendments (reword, strike,
insert, renumber), publishes it, and records the renumbering links of the window.

**EvidenceMatching and what it is built of.** The state is the world (`enacted`,
`effect`, `acted`, `draft`), the dataset (`printings`, `held`), and the answer
(`outcomes`), recomputed when either grows. Each amendment of a law takes effect
in its own window and acts on some provisions; the matcher sees the laws held,
the printings and the renumberings they state. A text is a sequence of tokens
and the order of stages and steps is the code's: renumberings, words, addresses,
provisions a new part carries, elimination. `book` is the set of laws of a
behaviour. `Addresses` is a function of a bill's levels: what each line names
is a record, and which level holds which unit, section, title or Act is computed
as in the source.

**WorkList.** A run of the matcher finds its links, writes one at a time, and
then records what it considered; it may be killed. `version` may be raised.
Agents link by hand (`link-amendment`) or conclude there is no link, reviewers
refute links or such conclusions, and laws and printings are added. `ResidueRows`,
`Outdated` and `Disagreeing` are what the three reports read.

**Citations, Reliance, Opinions.** A passage is a sequence of tokens (a title, a
reporter, a section sign, a number with what is below it, words that name
another law, an edition, a break). Passages are joined, footnote marks taken
out, citations read, bare numbers read in the stated Code, and each given back
to its passage. `text[c].means` is what a reader of the words says they cite,
against which links are judged. `add-opinions` stores its cases, then resolves
in the printings it sees, then writes link by link; printings are added, links
refuted and the command killed between any two. `Legible` says when the words of
a case are read as they are meant, in every printing there may be, so that what
the command does with words can be told apart from how it reads them.

**AddCases and what it is built of.** Markup is a sequence of tags, page marks,
footnote marks and runs of words; reading it is a fold. A run of words has
an identity (the writing it is of, its footnote, its place, its page) that no
rule sees and by which the nodes are judged, and says whether its first word may be
taken for a footnote's label (`first`) and whether a rule cut it (`cut`). `run` is the command: the opinion
asked for, its cluster, its siblings, then the cases built one at a time.
`cache` and `left` are the client's.

## The runs

Bounds are of values, not of depth: each run explores every behaviour of its
instance.

| Run | Instance | Shows |
|---|---|---|
| `grow_alone` | two processes, one work first held at dates 1 and 3 and then also at 2, two bills that renumber in the last window, evidence of one of them there, two declarations; any command beside `settle`, no other pair | a run on record has the links of what was read for it, runs and declarations are kept, and the file implements `Ledger`, though any metadata write may fail and an open may read no metadata |
| `grow_two_writers` (violation) | two commands that both write metadata | the second writes back its older copy, and a run on record is gone |
| `reviews` | two settle processes of two reviewers, two links, both of which the rebuild keeps, what the first says being said by the second too; three verdicts | the newest verdict stands in both datasets where no reviews merge, and a carry leaves nothing behind |
| `redesign_any_use` | two statements of one move in two subsections, four dates, all printings of them, any order of arrival, any set of windows, verdicts given and withdrawn | links are evidence; a statement is placed once and a grown dataset holds what a build gives, while it grows in order |
| `add_bills` | two processes, three bills (one undated), two members, one bill with two roll calls | a loaded bill is whole; votes once and readers agree while runs go one at a time |
| `congress_client` | two workers, two members, a roll call listed twice | gaps are named, no thread waits for IPv6 once one was told, offline finds all, a download that never ends waits for an answer |
| `backends_agree` | two works, one at up to three dates; a long document with two nodes at one path, and a shorter one; a link, two writers, a saved dataset in which a person confirmed it; eight locators; a LIKE that reads either case, over paths that differ in it | index and documents agree, both backends give one answer in one order, but that SQLite finds more where LIKE reads another path, a load has the links of its runs, and the file implements `DocumentStore` |
| `printings` | three segments, two levels, two windows of two amendments each, four provisions; three first printings (one in another, two beside each other, two of one number) | a diff over one window or two compares each provision with itself, where what was renumbered stays and no name is taken twice, and reads the same backwards; history, path report and diff agree where a number was one provision's |
| `evidence` | two sections; fifteen sets of laws of two to four amendments, drafted with such section and subsection, such title, section of an Act, margins, lists, plural citations, a new section, a table of sections, a new chapter of sections, a section renumbered; three windows, at most three amendments in one | a change has one cause, unless its words may have two, it holds the sections of both or a section moved; links are true; a new printing keeps them |
| `worklist` | two of such sets, two windows, two versions of the matcher, four commands, killed or not | a refuted amendment is work; nothing the matcher makes is outdated; a run settles what it found |
| `opinions` | a case of five possible texts and a case of one; three dates around two decisions, two trees, printings given again; one refutation | the words are read as they are meant (asked while nothing is held: they never change); links are what the words mean in a printing held; silence, search by what was typed, the readers and the tally are true |
| `cases` | a case of two writings, in one record (up to three pages of the official reporter and one of another at six places, footnotes inline or at the end, tags closed or not), split, or as a slip opinion of four pages; footnotes that print no label, stated or not, over words that begin with a number; beside it a case that may be unreadable or nameless; two requests a window, one lost answer | cases are whole, writings apart, pages true; what can be stored is, in the end |

Why these are enough to be interesting. Three dates make two windows become one
pair of neighbours and split again; four dates let one window lie before the
enactment and leave three after it in any order of arrival. Two processes are
enough for every lost update in the code, which are all of one write by
another; the proofs carry the properties to any number. Two bills that share a
member, one with two roll calls, are the least for votes to go to a wrong roll
call; the third is the one that cannot be loaded. Three verdicts are one to be
overwritten, one by another reviewer, and one that comes back. Two members and
two workers let the rate limit stop one worker while the other is at each place
of a fetch. A document of three nodes over one of two is the least that can
leave a row behind, and three dates are the least with a nearest and a farther
neighbour; the proofs carry the index to documents of any length. `MaxTime` (verdicts given) is the one bound on a counter.

For the modules of inference: two windows are the least in which a renumbering
of the first must be followed through the second and an amendment of a law
enacted early can take effect late; four provisions are two levels with a
sibling to take a number. The sets of laws of `evidence` are those in which two
amendments can be after one change (same words, one struck and one added,
one edits inside what the other adds or moves, few words shown, a number that
moved by the same law or by another); each of them breaks some property
when a rule of the matcher is dropped. Any law may not be held and may take
effect in any window, so a case of incomplete record comes up in each. Two
versions and four commands let a run be killed between two that end, with a
review before it or after. Three dates put a printing before, between and
after the decisions. A mark at each of six places of two writings is before,
inside, at the end of and between paragraphs, and in the footnote's writing.
`Work`, `Windows`, `Edits`, `Provisions`, `Refutations` and `MaxFailures` bound
what is given, not what the code keeps.

Deadlock is checked except where nothing is left to do: once every date is
held, window turned to and verdict given (`redesign_any_use`), every window
published (`printings`, `evidence`, `worklist`), and the command done (`cases`).

Every property of a passing run has a mutant of the code that breaks it
(`PROJECT.json`, `mutants`; the operators marked *Mutant* in the modules).

## Fairness

`DownloadEnds` assumes weak fairness of each thread's own steps (looking in the
cache, creating and filling an entry) and of the steps of the download: the
operating system runs a thread that can run. It assumes nothing of an answer. The
agent of `http.rs:41-45` sets no timeout, so a connection that stalls never
ends, and no step of the model ends it. So the property is that a run that goes on
for ever has a thread that waits for ever for one answer: nothing else holds a
download up, not the pool, not a failure, not an entry that expired.

`AllStored` assumes weak fairness of the command's steps, starting it again after
it ended on a refusal among them, and of the publisher's window rolling on
(`NewWindow`). That is what the command asks its user to do when the quota is spent;
without it a command that may ask for two records in a window ends at the third
for ever. It does not assume that answers arrive: `MaxFailures` of them are lost.
The agent is the same as above, so an answer that stalls is lost only when the user
stops the command and starts it again, and starting it again is what is assumed.

The other programs are sequential: a command ends unless it is killed, and
nothing waits on anything but SQLite's lock, with its timeout, or an answer over
HTTP, with none.

## The proofs

TLAPS proves, for every value of the constants that meets the assumptions of
the modules:

- `GrowDatasetProofs`: `TypeCorrect`; `RunsAreTrue` (`RunsHaveLinks`, if no
  release point arrives beside `link-by-evidence`); `RunsAreKept`,
  `DeclarationsAreKept` and `ImplementsLedger` (if only one command that writes
  metadata runs at a time). `RunsHaveLinks` is not inductive: a run is about
  to be written when its links are no longer waiting in `toWrite`, so the
  invariant says that at every place between finding links and recording the
  run, the links of the batch are in the file or still to be written, and that
  every run in anyone's cached copy already has its links. The batch is of one bill
  or of evidence, and its links are one of the `Backing`s of each of its runs
  (`BatchesHaveLinks`): more a run does not promise, since the same run stands
  for any bill of its window. `RunsKept` needs
  that a writer's copy of the metadata holds what the file holds, true while
  one writes at a time: that condition is the assumption `OneWriter`, which also
  leaves `SlowWrites` out (`grow_alone` sets it and finds the same properties of
  its instance).
- `LinksProofs`, of the two models whose state is links of a dataset. Of
  `Reviews`: `ReviewTypeCorrect`; `NewestAlwaysStands`; `AllIsCarried`. The
  conditions are one settle process per reviewer, and a rebuild in which nobody
  settles (or nothing to carry): it may be carried into any number of times, along
  any relation of old and new links. Where two old links became one, both theorems
  speak of the copies that can be told apart: the newest verdict stands
  except on a link with a merged copy, and every copy is there at the time of
  one of the reviews it is a copy of. The invariant relates each record to
  `said`: a record's time is the newest said under its identity, and a
  process's pending verdict is newer than its reviewer's others. Of
  `RedesignationWindow`: `TypeCorrect`; `LinksAreAlwaysEvidence`, whatever
  order and whatever windows; `StatementsArePlacedOnce`, from an invariant that
  links lie in windows turned to, and that windows turned to in order are older
  than new ones; `GrownAlwaysHoldsBuilt`, from the invariant that, as long as a
  dataset grows in order, the links of a statement in the oldest window turned to
  that resolves it are there: a new window is newer than that one, and a
  build writes those of that one alone.
- `PrintingsProofs`: `DiffReadsBackwards`, of any two printings, trees with any
  provisions and any numbers, doubled or not: wherever the renumberings can be
  read backwards (no two go to one path), the comparison the other way round
  pairs what the comparison pairs. The moves pair the same children both ways
  (`RenumberedBack`), so the same are left to pair by number (`LeftBack`), and
  those by number both ways (`PairedBack`); a child is paired once because a
  finite set of numbers has one member at each place (`PlaceTells`); and the
  pairing of the tree follows from its root down (`MatesBack`). `mate` is a
  recursive function down the tree, and that there is one at all is a lemma
  (`Downwards`, by the least provision at which it fails), which `Under` needs
  too. `ReadsBackwardsAlways` adds that the moves of a window can be read
  backwards. That is no property of one printing but of how printings come to be:
  an amendment gives a provision, with all below it, only paths nothing has
  (`InsertKeeps`, `RenumberKeeps`), so two that share a path after a window
  shared one before it, and two links of the window with one end have one start.
  The inductive invariant `PrintingsInv` says this of each two consecutive
  printings and of the last one and the draft, and that every printing is a tree,
  that numbers of struck provisions do not come again, and that each link names
  the two paths of one provision.

  `PairsProvisionsAlways` is of spans of any number of windows. It needs more of
  the invariant: a provision never changes what holds it, one struck is in no
  printing after (`StruckStay`), each renumbering of a window has its link
  (`AllNamed`), and paths that name one provision each at first do so ever after
  (`Follows`). Where the four conditions of the property hold, some way to join the
  renumberings of the span tells the truth (`Tell`): a provision whose own number
  differs at the two ends is led from its path to its path, one that is led
  somewhere is never led to a child of its own parent that is not itself, and each
  path is led to a provision still there at the end. `SpanTells` shows it window
  by window: links of one window do (`FirstTell`); and joining the next window keeps
  it (`ThenTells`), since what is known carries each provision of the middle
  printing back to where it was and the next window's links carry it on
  (`BackCarries`, `MovesCarry`, both down the tree), so a later move is named by the
  first path of its own provision. A comparison that reads such renumberings then
  pairs each provision with itself (`ItselfIsMate`) and no struck one with one that
  was there (`NoOtherIsMate`). That two provisions paired are what `from_nodes_with`
  takes for one needs none of this: it holds of any printings and any renumberings
  (`NeverRefuses`), as a comment there says. `NamesApart` became a condition in the
  proof: three windows, more than the run has, are needed to break the property
  without it (see below).

  `HistoryIsOwnAlways` is about the walk of `history_from_links`, a recursion over
  sequences that need not end. `GoesOnExists` shows that there is a function
  with its equation, whatever it says where it never stops; what it says where it
  stops is then followed step by step (`HistoryIs`). Where no path
  names two provisions, a link to or from a path of a provision is its own
  (`LinkIsOwn`), and one that never comes back to a number has one link to each
  path it went to: the walk finds the newest, then the one before it, back to the
  first printing, and has nothing left to look for forwards (`WalkTells`,
  `WalkIsOver`). So its steps are the provision's, all of them and in order.

  `PathAgreesWithDiffAlways` is of any path, of a provision or of two in
  the two printings. Of the diff: two provisions are paired exactly where the moves
  carry the path of the one to that of the other and back (`MateGoes`, down
  the tree). Of the report: a walk back through the links never repeats a start,
  so it is no longer than the links are many and ends (`ComesToAStop`), and where
  no links go round in a ring it has the link to the path and the link from
  it, if there are any (`HistoryTells`); so `follow` finds the one hop of the window
  (`OnwardsIs`, `BackwardsIs`), and the nearest container that moved carries the
  path where the renumberings of the diff carry it (`OutIsCarried`,
  `IntoIsCarried`). Where no move is inside another's container, what is carried
  there is carried back (`CarriedThereAndBack`), and both say the same
  (`AcrossIs`, `InPlaceIs`). That the numbers go round in no ring became a condition
  in the proof (see below).
- `AddBillsProofs`: `TypeCorrect`; `LoadedIsAlwaysWhole` for any number of runs
  at once; `VotesAreOnce`. The invariant follows a bill through the places of
  the run: what a run has `loaded` is whole, and while it stores, what it has
  stored so far is there. `ReadersAlwaysAgree`, if the position of every roll
  call can be read (`CallsAreRead`, without which the loader's count slips: see
  below), by what the loader's fold has given to roll calls after each row.
- `CongressClientProofs`: `TypeCorrect`; `EachWaitsOnce`, a step property of every thread and so of all of them together:
  once one was told the network cannot be reached over IPv6, none begins to ask over
  any family; `GapsAreAlwaysNamed`,
  if the numbers tell roll calls apart, from invariants that say everything a
  run is past is had or named; `OfflineAlwaysAnswers`, because whatever a run can
  ask for was had by the complete run before it, and no step removes an entry.

- `SqliteStoreProofs`: `TypeCorrect`; `IndexIsAlwaysDocuments`;
  `HasNodeIsTrue` and `HoldsAnyIsTrue`, which follow from it: rows are nodes,
  and a WHERE clause reaches the rows of the nodes a walk accepts. LIKE may reach
  more, so `holds_any` is proved never to miss what the walk finds, and to answer as
  the walk does for a locator for which LIKE reaches no other row (`LikeIsExact`);
  `LoadedRunsAlwaysHaveLinks`, by what each place of a load still needs from the
  file; `ImplementsMemory`, if no command writes a link as a person, because a
  link looked up then stays free to be written; and `ReadersAreAlwaysAlike`, whatever
  LIKE takes for beneath a path: `search` is one list in both where `LikeIsExact` of
  the locator asked, and elsewhere SQLite's has all that the memory's has. The index has its rows sorted, the memory walks its
  documents one after another, and both of them give lists. The proof is that each
  goes up by the order of the `ORDER BY`, that both have the same members, and
  that a set has one such list: at most one because a list that goes up is
  determined by what it holds (`OnlyOneList`), and at least one where the set is
  finite (`OrderedIs`). So it needs that finitely many documents are held, which
  no run says and every step keeps. That a walk goes up is a lemma about lists laid
  end to end (`FlattenGoesUp`), and that it can be told as it is met another
  (`FlattenEach`).

- `MatchingProofs`: `ResolvedIsOne`, for every set of contenders and every
  change: a change not edited in place is given to one of the amendments resolved
  together. Each step of the resolution is shown to give a change at most one
  cause and to leave what the steps before it gave; `One` chooses among those
  tied. `OneCauseAlways` adds that amendments of *different* groups do not meet,
  for any laws, any first printing and any order in which the laws take effect
  and are held. Its argument: the answers are always the matcher's of the
  printings and laws now held (nothing that took effect after the last printing is
  read, `OutcomesStand`); every printing, and the draft, is a tree whose paths
  extend those of their holders and have one section at most, whatever edits took
  effect (`DoneKeeps`, by kind of edit); what a law states names paths
  (`StatedByKeeps`, through the items and the classification). So an amendment is
  addressed below the section it names, and stays below it whatever the address
  goes through: the walk down its container, a later renumbering of its own law
  (here is where the window must renumber nothing that holds a section), another
  law's insertion (`PlacesAreSound`). Each step of the resolution
  gives a change only to those it is a candidate of (`CausedAmongCandidates`).
  Then a change two amendments are linked to is at or below both their
  addresses, and they were below one section and so resolved together, where
  `ResolvedIsOne` speaks, or it was added whole around both (`MatchedHaveOneCause`).
  The inductive invariant is `MatchInv`. It needs the first two of these because
  `OneCause` alone says nothing of a printing yet to come. `WorkLeavesMatching` is a
  refinement: the work list's specification implements the matching's, so
  `OneCause` holds there too (`WorkHasOneCause`).
  `LinksStandAlways`, and `WorkKeepsLinks` with it, is an action property from the
  same invariant. Only a printing published changes the answers while the laws
  held stay. It adds one view, of a window later than the others
  (`PlacesGrow`), so what was resolved in an older window *because it holds
  changes* is resolved there again. An amendment read *inside* what a window added
  (`added_inside`) may move to the newer window; but that provision is one
  the window added around its address, and it has an outcome that tells the
  address (`InsideIsAdded`), which is what `LinksStand` sets aside. So each other
  window keeps its groups whole (`ResolvedStands`), and a group that is the same is
  resolved the same (`LinkStands`).
  `LinksAlwaysSitInSection` follows the section through the address to the path of
  the change: what is linked is in the section the words or the table give, or is a
  provision added that holds sections. With it
  `FoundIsAlwaysSettled` proves, for every book, the part of `RunSettles` that does not
  hang on the book: where no section is renumbered, the list, which reads paths,
  finds settled what the run, which reads addresses, wrote. Both hypotheses are
  needed: with the books of `evidence` TLC refutes the first theorem without either.
  `RefutedIsAlwaysWork` holds in
  every state whatever is stored, because an amendment with no standing link of
  its own is in no category that settles it; and `OutdatedIsAlwaysTrue` comes
  from the invariant that
  no two links say the same, none is of a version above the matcher's, what was
  considered is of laws held and windows published, a run's links are written
  or still to write, and, where all that is held was considered at this version
  and no run was killed since, every link the matcher makes is in the file at its
  version or said by an agent. These two are for whatever the matcher answers:
  `Matched` is not opened for them.
- `OpinionsProofs`: `LinksAreAlwaysRead`, `SilentIsAlwaysTrue` and
  `AlwaysAskedAsWritten`, if the texts are legible in the first state, which is
  what `WordsAreRead` says and the run checks of each; `ReadersAlwaysAgree` and
  `TallyIsAlwaysTrue` whatever the words are. None of the five is inductive. The
  invariant says that every link in the file, and every one a run has still to
  write, is one that words of its case lead to in the printing it
  names; that this printing is held, unchanged; that a run that resolved has, of
  each of its cases, every link in the file or to do, by identity; and so that a
  case linked in all the printings held has all its links, though some
  were there before and were kept with the evidence of an older printing.
  The tally compares printings that are not
  neighbours: two that differ have a first window between them that differs. That
  a citation told of a path is about it needs `Comparable` on
  paths to be what `relation_to` decides, a lemma about prefixes.

`TypeOK` is proved in the six modules with a `TypeCorrect`. `Printings` and
`EvidenceMatching` state theirs too. No run lists a `TypeOK`.

The theorems stand on the named `ASSUME`s of the modules, which TLC evaluates on
each run. They say what a constant is (dates are numbers, a printing is a finite
set of provisions at paths, what is stated is a sequence), that a thing told
absent is none of those there, in `Printings` that a first printing is a tree whose
paths extend those of their holders, in `EvidenceMatching` that the first printing is a
tree in which no section is inside another (the schema's levels, and what the
index of sections takes an identifier to name), that an amendment renumbers a
provision within its level and adds provisions that hang below the place it names
(`DocAssumption`, `BooksAssumption`), and in `SqliteStore` that a tree has at most
`MaxNodes` nodes, that LIKE takes what is beneath a path for beneath it, that a
dataset somebody has in memory holds finitely many documents, and that readers ask
with locators.

Where a claim is about a recursive function of windows, rows or tokens, and the
prover cannot do induction over an operator, the proof takes the
least index at which the claim fails (a nonempty set of naturals has a least
member: `LeastMember` in the proof modules).

Only model-checked: what `cases`
checks and `WordsAreRead` (folds over tokens and recursive functions over trees, about
the data of the instance); `LinksAreTrue` and `RunSettles` (the same: a book may have
an amendment do other than it says, or a table put it in a section its items do not
name; `FoundIsAlwaysSettled` is what holds of every book); and the liveness
properties.
The violation is a counterexample and needs no proof.

## Where properties stop holding

These are the edges of the properties above, found by taking a condition away
or met while modelling. One is a run (`findings`); the others were
seen as counterexamples of a property stated without its condition, or read in
the code, and say where.

Growing and loading:

- *Two metadata writers* lose method runs and may bring an old declaration back
  (`grow_two_writers`; `declare` is such a writer too).
- *A release point added while `link-by-evidence` runs*: windows to record are
  listed after the links are written, so a window that appeared in between gets
  a run and no links. `add-release-points` is not documented as safe there.
- *`add-bills` killed between two bills*, or `redesignations` for one
  bill of a window, leaves the run of that window on record without the renumberings
  of the other bills: the run names method and window (`dataset/mod.rs:364-366`)
  and is recorded after each bill (`congress_bills.rs:138-152`).
- *Two old links that became one*, each reviewed with the same verdict by one
  reviewer, have one copy and two times. The one written last stays, the older as
  well as the newer (`citation/carry.rs:122-150`, `313-345`), and an older time may
  bring another verdict between them back to the front, though `carry.rs:20-22` says
  "so the newest review still wins on the new link". `NewestStands` leaves merged
  copies out: without that TLC finds it.
- *A carry into a dataset already reviewed*, or one run after new verdicts there,
  may put an older time on a record (`citation/carry.rs:343`), and a reviewer who
  returns to an earlier verdict replaces the record of it: the history of what was
  said is not kept, only the newest.
- *A release point added between two others* makes a new window before or after
  a statement's placement; *two statements that make the same link* leave one
  link, so that one of them looks unplaced; *a refuted placement* is work again
  only for a window not itself refuted.
- *Two `add-bills` at once* store roll calls twice; *a roll call with no readable
  position* shifts the votes of all later ones of its bill by one.
- *A bill with no day of approval* stays half loaded: the bill row is written
  first and marks it as held for ever after (`dataset/mod.rs:738`).
- *A statement whose window resolves nothing* takes that window in a build and
  a later one in a dataset that grew (`redesignation_window.rs:95`).
- *A connection that stalls* never ends: no timeout is set (`http.rs:41-45`), so the
  worker, the pool that joins it and the download wait as long as it does.
- *A cache entry half written* when the run is killed is the answer of every
  later run (`cache.rs:92`).
- *Two roll calls of one number*, from two sessions of a Congress, on one bill:
  the second is skipped as seen, and is not named as left out
  (`client.rs:239`).
- *A path in another case*, or one with an `_`, reaches what is beneath another path
  in SQLite, where LIKE reads either case and takes `_` for any letter, and nothing in
  memory (`storage/sqlite.rs:71-73`), though `storage/mod.rs:230-236` has both
  backends answer alike. `ReadersAlike` has `LikeIsExact` for it: without, TLC
  finds it in `backends_agree`. What SQLite finds there is more, never less.
- *A dataset saved over a file that holds another* (`Dataset::save_to_sqlite`
  without the command's removal of the file): index rows are put in place of
  those with their key and none is removed, so a shorter document leaves the
  last rows of the longer one, as `add_expression` did before #187.
- *A person's verdict written by `add_link` between the two statements of
  another `add_link`* is overwritten. No command writes one: they come in with
  a dataset, and reviews are links of their own.
- *The neighbour of an expression that is not held* is none in memory and the
  nearest date in SQLite (`storage/sqlite.rs:1110`).
- *A load while the file grows* may hold links about laws it has not read, though
  none of a run on record.

Following provisions:

- *A provision renumbered and later struck*: `Redesignations::then` continues
  the earlier move, so a diff over both windows pairs it with what took its number.
- *Two later moves that get one name* in `then`: the order of a hash map
  decides which stays (`diff/mod.rs:268`).
- *A later move whose name is taken* in `then`, by the move of a provision that
  was not there at first ("an earlier move already continued above wins",
  `diff/mod.rs:280`). A subsection (a) becomes (b) and a new (a) is put in its place
  with a new (a)(x); then the new (a)(x) becomes (a)(z); then the old one's
  (b)(x) becomes (b)(w). By its first path the last move is of (a)(x), where the
  move to (a)(z) is found, so it is dropped and the diff over the three windows
  tells the old (x) as removed, though the doc wants "where each provision went over
  the whole span". `PairsProvisions` has `NamesApart` for it: without, TLC
  finds it false of this history (three windows of three, one and one amendments).
- *A number used by two provisions at different dates*: `history_from_links` goes
  by paths and not by dates (`link.rs:818`), and a path's report then disagrees with the diff
  (`inspect.rs:1262`). `HistoryIsOwn` and `PathAgreesWithDiff` are of numbers
  that were one provision's.
- *Three provisions that take each other's numbers round in a ring in one window*, as
  (a) becomes (b), (b) becomes (c) and (c) becomes (a): the walk back of
  `history_from_links` passes the other two and stops where it would see the path
  again (`link.rs:836`), and the walk on finds the next number already seen. The
  history then has no step from the path, so `path` tells that the provision was
  removed where `diff` pairs it. "A cycle cannot happen in the
  law", says `link.rs:816`; in one window it can, through a number in between.
  `MovesApart` has the rings for it. Two that swap numbers it excluded before;
  three need four edits in one window, more than the run has, and were met when the
  proof of `PathAgreesWithDiff` did not go through; TLC then found the state.

Matching amendments:

- *A section renumbered in the same window*: two amendments
  addressed to its two numbers are resolved in two groups and may be linked to
  one change (`evidence_matching/mod.rs:929`, whose comment says each change is
  assigned with every amendment addressed to the section, and `resolve.rs` 4-6).
  `OneCause` has `SectionsStay` for it: without, TLC finds it with the book
  `SectionMoves`.
- *A provision added whole around two sections*, as a chapter is: an amendment
  that adds words to each of two of its sections in the window it is added in may
  be linked to the chapter, each resolved in the group of its own section, though
  a change "has one cause". `OneCause` has `HoldsSections` for it: without, TLC
  finds it with the book `TwoInChapter`.
- *A law added to the dataset* may take away a link found by elimination, and
  nothing flags the one stored.
- *A provision added whole around an address*: a window published later may
  change which window the amendment is linked in. `LinksStand` excludes it;
  `later_windows` is documented as "Never a second link".
- *An item whose section the same law renumbers*: the run writes its link and
  the residue keeps it as "unwritten", because the one reads addresses and the
  other paths. An item that only the OLRC's table addresses makes its link one
  that "disagrees".
- *The residue* says of a row "its every link was refuted" where some were.
- *A run killed part way at a newer version* makes links of the older one that
  still hold outdated, though `outdated.rs` says it "never gives a false one";
  `OutdatedIsTrue` is of a file whose last run was not killed.
- *A bill added after a run* over its windows is told as covered by `validate`
  (`inspect.rs:2283`); *two true links of one amendment* by two makers are told as a contradiction
  (`inspect.rs:3787`); `amending_bills` names every bill linked in any window.

Cases:

- *An `add-opinions` killed* after storing a case leaves it held with no links:
  it is told as silent until it is linked again.
- *A printing closer to the decision added later* makes `resolved_in` and
  `resolved_after_decision` of stored links stale, and a new run leaves the old
  links beside the new ones.
- *A section missing at one of two dates* is reported unchanged
  (`judicial/reliance.rs:779`); *a link that ends exactly at the asked path*, struck
  in the latest printing, is told as holding (`reliance.rs:590`).
- *A footnote that prints no label* loses words to it: with none stated, its first
  word is taken for the label whatever it is; with one stated, the label is taken off
  as so many letters, so that "18 U.S.C." under label 1 becomes "8 U.S.C."
  (`courtlistener/structure.rs:553-571`). `CaseIsWhole` lets the first words of such
  a footnote be cut, and no others: without that TLC finds it in `cases`.
- *A footnote mark on a later number of a list* is not taken off, since a mark is
  looked for behind the marker alone (`citation/mod.rs:312-317`): the number is read
  with it.
- *A printing given again at a date held*, with other text, would replace what links
  were resolved in. A release point does not change, and the model gives the same
  tree again (`release_points.rs:127`).
- *A page mark of another reporter before a paragraph*: the paragraph is given
  the page of the last paragraph that started on a kept one, though the text went on to a
  further page inside a paragraph (`structure.rs:158`); *an official page marked
  between paragraphs and at once followed by a parallel mark* is lost from the
  pages of a split writing; *a page mark inside a heading before its words* hides the heading, and
  the writing is not split.
- *A sibling record whose cluster is missing or another's* is left out without
  a word (`add_opinions.rs:174`); a sub-opinion whose address cannot be read too
  (`opinion.rs:340`).

## What is not modelled

Listed with reasons in `PROJECT.json`. In short:

- *Text.* The XML parsers, serialisers, the word-level diff and the letters of
  tokens (OCR repairs, near misses, HTML entities, regular expressions):
  what is hard in them is the text, which an abstraction leaves out. A line of
  a bill, a page or an opinion is what it names.
- *Reports that change nothing*, other than those named above: the coverage of
  `validate`, `contradictions`, refuted links in `follow`.
- *Of growing*: `add-classifications` and `add-opinions` in `GrowDataset`
  (they write no method run), `update_amendments`,
  `load_window`, the folders release points are unpacked in, two processes
  that create one file's schema at once (left to SQLite's lock).
- *Of matching*: datasets of several works, a provision's five text fields (they
  are one), rows of `code_edits.rs`, levels above a section but a chapter,
  two sections of one number, footnotes, `chapter_a_list_item_names`,
  redesignation links in `outdated`.
- *Of cases*: holdings, joined margin notes, source paragraph ids, duplicate footnote
  labels, the compact save at once, the thirty days an entry lives, the pace of
  requests and the client with no token, the watermark; a plain-text combined
  record's footnotes all go to its last writing and are not told apart.

## The plan

1. done: growing a dataset, reviews, renumberings, bills, the Congress client,
   and their proofs.
2. done: documents in two backends, with the refinement.
3. done: diff, history walk, path report.
4. done: evidence matching with the addresses it reads; the work list read
   from its links, with proofs.
5. done: citations, cases, reliance; the records of a case.
6. left: `update_amendments`; holdings; redesignation links in `outdated`;
   release points as folders; the coverage of `validate` as a module, where what
   it says of a bill added late could be a run.
7. done: the proofs of opinions, of grown and built placements, of the votes'
   readers; that two backends answer alike and in one order.
8. done: the proof that groups of `match_in_work` do not meet when no section
   moves (`OneCause`).
9. done: the proof that a diff over any windows compares each provision with
   itself and reads the same backwards.
10. done: the proof that the history of a path is its provision's, and that `path`
    and `diff` agree on a window.
11. done: the proof that links stand when a printing is published (`LinksStand`) and
    sit in the section their amendment names.
12. left to prove: that the links are true (`LinksAreTrue`), which depends on what a
    book says its amendments quote; and that the pages of a case are true as long as
    markup is read in order.

## Running it

    tlc -config GrowAlone.cfg MCGrowDataset
    tlapm GrowDatasetProofs.tla

and so on for each run of `PROJECT.json`. The longest run takes about three
minutes on two workers.
