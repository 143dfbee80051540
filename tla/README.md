# Bin-Tel: verification development

TLA+ modules, TLC configurations and TLAPS proofs about Bin-Tel, a desktop
application that answers questions about bank identification numbers from a
local SQLite database, keeps that database up to date, and lets a user correct,
watch and rebuild it.  Paths below are relative to the repository (`src/`).

Contents: 1 the system, 2 the plan, 3 the modules, 4 the runs, 5 fairness,
6 what is proved, 7 what is only model-checked, 8 where the code and its
documents part, 9 what is not modelled.

## 1. The system

Bin-Tel is one process with a Qt interface (`app/main.py`, `app/ui`), or a
command line (`app/cli.py`) around the same services.  `AppContext`
(`app/core/context.py`) builds every service over two SQLite files: the
*database*, which is published, replaced as a whole and read by every page, and
the *user store*, which holds what the user wrote.  Pages run jobs on a thread
pool; nothing but the order of calls coordinates the jobs.

### Components, their state and what makes them correct

| component | state it keeps | operations | what makes it correct |
|---|---|---|---|
| Update pipeline `services/update_service.py`, `update_journal.py`, `database/migrations.py`, `workers/update_worker.py` | the working database, downloads, staged copy, snapshot, journal | `check`, `install` (20 steps, 3 handlers), `_rollback`, journal `record` | readers see the old release or the new one; a failure or a kill loses neither; nothing unproved is installed; the journal says what happened |
| Updates page `ui/pages/updates_page.py`, provider chain `providers/manager.py` | what runs, the last manifest, the banner and its connections | check, install, cancel, retry | one install at a time, and the page knows it |
| Package verification `database/integrity.py`, `utils/hashing.py`, `providers/compression.py` | none | digest, decompress, `verify_database` | what passes is whole, and of a schema this build reads |
| HTTP download `providers/http_provider.py` | `.part` file, destination | `fetch_manifest`, `download` with resume | what arrives is one edition; progress is kept |
| Rebuild and rollback `services/rebuild_service.py` | candidate, `.previous`, staging | `rebuild`, `rollback` | a failed rebuild changes nothing; a rollback can be undone |
| Engine and relocation `database/engine.py`, `services/database_service.py` | the open engine, the path | `open`, `close`, sessions, `move_to` | a file is only copied or replaced when it is all there |
| Backups `database/backup.py`, `services/backup_service.py` | the snapshot directory | create, prune, delete, restore | the newest whole snapshots stay |
| Maintenance jobs `workers/maintenance_worker.py`, `ui/pages/{database,admin}_page.py` | busy flags, buttons, gauges | verify, reindex, vacuum, backup, restore, rebuild, rollback | the application always gets a whole database back; what was begun ends |
| Worker pool `workers/base.py`, `search_worker.py`, `bank_search_worker.py` | workers, tokens, answers in the event queue | start, cancel, deliver, shutdown | an answer is only shown for what it answers; shutdown ends |
| Pages that look things up `ui/pages/{bin_lookup,bank_lookup,analytics}_page.py`, `ui/widgets/command_palette.py` | what is asked, what is shown, caches, histories | search, select, filter, refresh, clear | what is shown belongs together; nothing loads for ever |
| Report Centre, reports and exports `ui/pages/reports_page.py`, `services/{report,export}_service.py`, `report_{pdf,xlsx}.py` | definition, templates | build, save, load, render | nothing is cut silently; a template is what was saved |
| Start and shutdown `main.py`, `core/context.py` | wiring | start, `apply_database_path`, shutdown | the start opens what it finds, or offers setup |
| Learning `services/learning_service.py`, `models/user_entities.py` | ledger of facts, claims | gather, record, approve, reject, apply | a curated value is only overruled by a person; decisions stand |
| Request budget `providers/binlist.py`, `services/enrichment_service.py` | times of requests, one file | claim, penalise, `seconds_until_free` | the service's allowance is kept, across restarts |
| Watchlists `services/watchlist_service.py`, `change_detection.py`, `ui/pages/watchlists_page.py` | lists, items with snapshots, events | create, rename, delete, add, remove, scan, acknowledge | every change is reported, once; the page shows what is stored |
| BIN list `services/bin_list.py` | list files and their directives | seed, read, correct | a correction counts; no digit is made up |
| Ingest, staging, deduplication `services/{ingest,staging,dedupe}_service.py`, `importers` | institutions, BINs, links, staged records | match, merge, promote, import | nothing is lost in a merge; the past does not overrule the present; again is nothing |
| Lookup `app/lookup`, `repositories/bin_repository.py`, `normalizers` | none | candidates, ranking, conflicts | the most specific and best supported answer; a conflict is shown |
| Portfolios, search, statistics `services/bank_service.py`, `repositories/*` | none | portfolio, search, charts | table, figures and charts agree |
| Quality and health `services/{quality,health}_service.py` | none | evaluate, grade, `remove_orphans` | figures that are shown together agree |
| Configuration, workspace, command line, first run, presentation, packaging | settings, rows, widgets | one assignment, one transaction or one rendering per call | see section 9 |

### How they interact

* `install`, `rebuild`, `rollback`, `move_to` and a restore all close the one
  `DatabaseManager`, replace or copy its file, and open it again.  Sessions of
  other workers may be open meanwhile: SQLite's write-ahead log is then not
  folded in by the close.
* Every read a page makes is a worker on the pool.  Its answer is a signal in
  the event queue of the GUI thread, applied by a later handler; in between, the
  user may have asked for something else, or a maintenance job may have
  replaced the database.
* A finished install starts a watchlist scan (`update_worker.py`) and refreshes
  the pages; the watchlist page starts scans of its own.
* A rebuild reads the BIN list, ingests it into a candidate, deduplicates,
  gathers local proposals on it and applies the approved ones, so learning spans
  two database files.
* Reports, exports and charts are made of what a page shows, or of a query that
  is run again for them.
* The application and `bintel learn` share the budget file and the databases
  but no lock.
* `apply_database_path` tells every service about a database that has moved,
  after the settings page saved where.

### What is hard about it

Kills between file operations; handlers that fail while handling; a log that
outlives the file it belongs to; servers that publish under a client that
resumes; answers that arrive for a question no longer asked; jobs of several
pages that replace one file; decisions that outlive the data they were taken
on; scans whose three transactions interleave with edits; rows about one BIN
that disagree and arrive in any order; figures and tables computed by separate
queries; two processes over one file.  `hazards` in `PROJECT.json` lists each of
these at the line where it bites, with the properties that cover it or the
reason that none does.

## 2. The plan

Done, in this order:

1. **UpdateInstall, AtomicUpdate** (proved): the component whose failure costs a
   user everything.
2. **HttpDownload** (proved): where its packages come from.
3. **RebuildSwap** (proved): the other way of replacing the database, with logs
   and sessions in the model.
4. **RequestBudget, LearnedFacts, WatchlistScan, Relocate** (proved): protocols
   over several steps; **Watchlists** (proved) composes the scan with lists and
   their page.
5. **Curation**, **BinList** (both proved): how records come to be.
6. **Lookup, Exports, Assessment** (proved): what is answered from them, as operators over
   every small database.
7. **Workbench, Maintenance, Reports, Updates**: the window, each extending the
   one before with more of its pages, checked as one system by `MCDesktop`; five
   of its invariants and two of its action properties are proved.

Left:

1. The second abstract specification, a durable cell that a crash leaves at its
   old or new value, for the swaps of RebuildSwap and Relocate.
2. The first-run window, which drives an install of its own, and the settings
   that other components read while they run.

## 3. The modules

Mutated forms (`... == ` preceded by "Mutated form of X") are never part of a
specification; they are X with a plausible mistake, kept beside it to show that
a property notices.  `map` in `PROJECT.json` gives the source lines of every
definition.

### UpdateInstall, AtomicUpdate, MCUpdateInstall, UpdateInstallProofs

`UpdateInstall` is `DatabaseUpdateService.install`.  `pc` is the step about to
run, in the order of the code: download, checksum, extract, verify, migrate,
backup, close, copy beside the live file, replace, open, index, stamp, analyse,
metadata, record, journal, cleanup.  Every step has its ways to fail; failures
lead to the handlers, which share `_rollback` (`RollbackRestores`,
`RollbackFails`, ...) and differ in the journal entry.  `Stop` ends the process
at any step: the files (`transfer`, `staged`, `incoming`, `live`), the snapshot
and the journal survive.  `Start` verifies and opens what is there.

A file is the facts the pipeline can find out about it: its release, the schema
its tables have, the schema it declares, whether `verify_database` would accept
it and whether its bytes are the published ones.  `before`, `swapped` and
`gaveUp` are history; the last says that a rollback raised part-way, be it at the
restore or at the opening of what it restored.  `AtomicUpdate` is what a reader may rely on: a cell
`db` that an update sets to its target or leaves, and that a failed update may
set back; `Atomic` in `UpdateInstall` is the refinement mapping.

Assumption about the surroundings: a publisher writes one schema number into a
package and its manifest (`PublisherAssumption`); `scripts/build_release.py`
does.

### HttpDownload, MCHttpDownload

`HttpProvider.download` and its caller against a server.  A file is a sequence
of chunks, each with its edition and its place; the publisher replaces the
package under its name (`Publish`), the server honours a `Range` header or not,
connections drop, renames are refused, the process stops with less on disk than
was written.  `resume` is `resume_from`, read before the request and used after
the answer.  The server side of `AnswerRange` is `scripts/serve_database.py`;
publishing is external.  Its names say what they belong to (`FetchSpec`,
`FetchTypeOK`, `place`), because `UpdateInstallProofs` extends it beside
`UpdateInstall`.

### RebuildSwap, MCRebuildSwap, RebuildSwapProofs

`rebuild()` and `rollback()` with the write-ahead log in the model: `live` is
the main file, `wal` the committed edits that are only in the log, `logOf` the
build whose log it is, `reader` what an open session sees.  `Close` folds the
log as far as an open session permits; such a session may still commit after the
close (`Edit`), and when it ends it is the last connection and folds the log into
the file, which is `stirred` if the service is copying it just then (`CopyOf`: the
copy may be torn).  The build of the candidate is one step;
keeping the previous database, clearing sidecars, replacing, reopening, and the
exchange of a rollback through staging are steps of their own, with a kill
possible between any two.  `Elsewhere` stands for other pages that leave the
manager closed or open.

### RequestBudget, MCRequestBudget, RequestBudgetProofs

The file `binlist-budget.json` and the processes that read it at their start,
keep the times in memory and rewrite it at every claim.  `Claim` appends to the
memory; `Truncate` and `Save` are the two halves of `write_text`, and `SaveFails`
is the `OSError` that `_save` swallows, before or after the file was emptied; then
the request is sent (`Send`) or fails to connect (`SendFails`), and its answer is
an `Answer` or a refusal (`Penalise`), which saves in the same way.  A process may
`Stop` between any two of these.  `claims` and `sent` are different histories
because of it: a claim counts whether or not its request was ever sent.  `world`
says whether processes overlap, what spans a refusal may name, whether a process
may be killed inside a write, and which of reading and writing may fail; it is
chosen at the beginning and never changes, so that one run covers several
circumstances and a property can name the one it holds in.  The clock is
monotone and does not tick between a claim and its request.

### LearnedFacts, MCLearnedFacts, LearnedFactsProofs

A fact is `(subject, source, value)` with a status.  Proposals are gathered
inside the database (`Readings`) or offered from outside, recorded
(`Recorded`: known ones are skipped, waiting ones overtaken), decided, applied
in the order of the ledger; edits change the records underneath, and a rebuild
starts with an empty ledger, notes local proposals on the candidate and swaps
it in.  Values are abstract: the normalisation of a value (`card_level`) is left
out, and so is that proposals about an institution leave no claim.

### WatchlistScan, MCWatchlistScan

Items with a snapshot of their target; a scan is three transactions (`Read`,
`Look`, `Record`), each on its own, and items are added (`Capture`, `Insert`) and
removed between them.  `Read` keeps the snapshot of a target's first row and the id
of its last, as the dictionaries of the code do.  Row ids are given as SQLite gives
them: one more than the largest in use.  `told` is history: the state the owner of
an item knows of, or `Crossed` once the code itself may have mixed the item up: its
target is on several lists or was read by two scans at once (`Mixed`), or its row
was written while a scan was under way that had read its target or its key
(`ReadBy`).  The properties leave out these items, and show that they disturb no
other.

### Relocate, MCRelocate, RelocateProofs

`DatabaseService.move_to` and the page that calls it: close, copy, verify, open
the copy, delete the original, save the setting, tell the other services.
Every place has a main file and a log; `Shown` is what opening it would show.
`faults` says what else may happen (open sessions, writing workers, an original
that cannot be deleted), chosen at the beginning.  The file and its sidecars are
deleted in one step.

### Watchlists, WatchlistsProofs

The lists around the scans, and the page that shows one of them: its items, its
changes and the count of what is unread.  Creating, renaming and deleting a
list, adding from a page of results through the modal dialog, and the three
queries of `_reload` are actions; `page.due` says that the page has yet to be
told of a scan.

### Curation, MCCuration, CurationProofs

`IngestService`, the staging pipeline and `DedupeService` over institutions,
BINs, links, ranges and staged rows.  `db` is what is committed plus what the
session has written, `saved` what is committed, `session` what is being done and
how far it is.  `Cached` stands for the session's identity map and the service's
own caches, which keep what was read (`expire_on_commit=False`).  `Fail` ends a
session anywhere and rolls it back.  Names are model values with their verdicts:
`Norm`, `Core`, `Words`, `Lead` and `Likeness` say what the normalizers and the
similarity make of each; the thresholds that are applied to them are the code's.

### BinList, MCBinList

The reader of list files, line by line: directives, headers, sections with
columns of their own, rows that are recorded, replace a record or are reported.
A BIN is a sequence of digits, because leading zeros are what the padding rules
are about.  `rows` is a history: what every row said and how it was read.  Its
proofs are in CurationProofs.

### Lookup, Exports, Assessment, MCLookup

`Lookup` puts a small database together link by link (`Assign`, `Relate`,
`Allocate`) and then answers one question of it: a lookup, a page of an
institution's portfolio, a search with its chart, a search for a bank.
`shown` is the answer.  Prefixes are sequences of digits after a common root, so
that assignments of six to nine digits nest as in the data; a range covers the
numbers between its bounds.  `Containing`, `Ranked`, `Rivals`, `Claims`, `Settled`,
`Confidence` and `Answer` are the resolver; `Portfolio`, `PageAt`, `TableOf` and
`ChartOf` the queries.  `AssignedAt` and `AllocatedAt` are the two statements behind
`candidates`.  What the code sorts by a key is `Sorted` by that key.

`Exports` makes files of what `shown` is: the record in three formats, tables,
reports in five formats with their notes and caps, and the column widths of the
PDF in exact fractions.  `SearchCap` and `PortfolioCap` are the limits of the queries
behind an exported table (250,000 and 100,000 rows), `SampleRows` the 250 rows that
the columns are measured on.  `Assessment` adds what can be wrong with a file (a
defect) and computes the seven scores, the grade, the published quality figures
and the removal of orphans.  The proofs of all three are in CurationProofs.

### Workbench, Maintenance, Reports, Updates, MCDesktop, DesktopInvariants, DesktopProofs

One window.  `Workbench` is the pool (`jobs`), the event queue (`inbox`) and the
pages that look things up; `Start`, `Finish` and `Deliver` are a thread that
picks a worker, a worker that ends, and the handler its answer reaches.  A
channel `<<page, part>>` names what an answer is shown in.  A token that is set
is looked at where the code polls it.  `CloseWindow` and `Teardown` are the
shutdown.

`Maintenance` adds the file, the snapshots, `.previous`, the staging names and
the jobs of the Database and administration pages, each in the steps in which
the code touches the disk (`Work`), with a kill possible anywhere (`Kill`,
`Restart`).  `Reports` adds the Report Centre and its templates.  `Updates` adds
the Updates page: checks from three places, the banner with its accumulating
connections (`wired`), installs in the steps that the other pages can notice,
and cancelling.  The inside of an install is `UpdateInstall`, the inside of a
rebuild's swap `RebuildSwap`; the window keeps of them what is visible outside.

`lapsed` and `tangled` are history: the channels whose answers were overtaken or
did not come, and whether two jobs that replace the file ran at once.  The
properties are stated without them where they hold regardless.

`DesktopInvariants` has what the proofs show to be inductive and what a step of the
window can do to the pool, the queue and the pages.  It is apart from the proofs
so that it can be read, and checked by TLC, without them.

## 4. The runs

| run | states | bounds | question |
|---|---|---|---|
| `update_install` | 604,000 | two releases, schemas 1 to 3 with this build reading 2, seven kinds of package, snapshot setting on and off, journal of two | safety, refinement and liveness of the pipeline |
| `http_download` | 3,900 | editions of 3, 4 and 2 chunks, three stops | contents of what arrives; progress |
| `rebuild_swap` | 5,439,000 | two builds, sizes 1 and 3, two edits of each, any number of rollbacks | logs and the two databases of a rollback |
| `budget` | 8,309,000 | allowance 2, window 3 of 6 ticks, four claims, four worlds, two processes | the allowance and its waits |
| `learned_facts` | 201,000 | one field, two values, a local and an unsettled source, two facts per ledger, one rebuild | decisions and their traces |
| `watchlist_scan` | 2,799,000 | two lists, a target for each of one state or absent, two items, two changes, additions and removals during a scan | every change, once; the page |
| `relocate` | 2,334,000 | three folders, four edits, all eight fault sets | nothing lost, only whole copies opened |
| `curation` | 19,700 | four sources of up to five rows, five names, two countries, two BINs, three sessions | matching, merging, staging |
| `bin_list` | 488,000 | two files of up to three lines out of twelve, three sets of directives | corrections and leading zeros |
| `lookup` | 1,467,000 | three nested assignments, two links out of eight forms, two ranges out of three, four defects, caps of 1 to 3 rows | answers, tables, charts, files, figures |
| `desktop` | 230,000 | twenty-two combinations of pages and jobs, two to five acts of the user, two threads, two starts, three databases | the window and everything behind it |

`lookup_parent` ends in a violation: section 8.

Why the bounds are enough:

* *update_install*: an install involves at most the release in use, the one
  offered and a leftover of an interrupted one; two releases give both "another"
  and "the same".  Schemas 1 to 3 around 2 give an older package (migrated), a
  current and a too new one.  Packages vary in each fact a check looks at:
  checksum published or not, compressed or not, declared schema missing, damaged
  by the publisher.  Two journal entries show the trimming.  Installs and stops
  are not bounded.
* *http_download*: sizes that grow and shrink give a resume inside, at and past
  the end of another edition; three stops give a download that is cut off,
  resumed and cut off again.
* *rebuild_swap*: with two builds, `live`, `.previous` and staging can hold
  three different databases; 1 is less than half of 3, for the guard.  Two edits are
  one before a close and one of a session that commits after it.
* *budget*: an allowance of 2 has a first, a middle and a refused request; a
  window of 3 in 6 ticks lets a full window pass and begin again.  The worlds are one
  process after another with nothing failing but they and the service (`Calm`), two at
  once that may be killed inside a write (`Together`), a disk that refuses to be read
  and written (`Faulty`), and refusals for spans of none, less than, just and more than
  a window (`Refusing`).
* *learned_facts*: two facts of one field are what superseding, competing and
  repeated proposals need.
* *watchlist_scan*: two items and two targets give an item whose target is
  unaffected and one that is removed, or written with the key of a removed one, under
  the scan; a state and absence give a target that leaves and comes back.  A target is
  on one list and one scan runs at a time, which the theorems do not need.  The two
  lists are exchanged together with their targets (`Swap`), which is a symmetry of the
  specification and of its properties.
* *relocate*: moves go among three folders without bound, so a leftover of any
  earlier move is met, at the place that a move goes to and at one it does not
  touch.
* *curation*: the rows of a source are chosen to meet: spellings whose cores agree
  and whose countries do not, a former issuer with better evidence before and
  after the present one, an abbreviation with its long form, a shared website, a
  row without issuer and one without BIN.  One source settles a conflict of the
  others by the number of its rows, so that an import which fails after it takes an
  uncommitted value back.  Three sessions give an import, a
  retry of it and a pass of deduplication, in every order.
* *bin_list*: a row can precede or follow any directive, header or restatement of
  it, in its file or the other.
* *lookup*: digits of base 2 after the root keep assignments nested, adjacent and
  disjoint, and give a query that is one digit longer than any of them; two ranges
  nest or overlap; the link forms differ in each column that ranking, standing or
  primacy reads.  Caps of one to three rows are below, at and above what there is.
* *desktop*: two acts are enough for one request to overtake another and three
  for a job of another page between them; a page alone gets up to five.  A pool
  of two has a worker that waits, which is when a cancelled one has not begun.
  Two starts show what a kill leaves.

Deadlock is checked in `update_install`, `rebuild_swap`, `learned_facts`,
`watchlist_scan`, `bin_list` and `lookup`.  It is off in `http_download`, where
an accepted package ends the behaviour, in `budget`, where the clock does, in
`relocate`, which ends in first-run setup, in `curation`, where the sessions are
used up, and in `desktop`, where the acts are.

### The properties

Section 6 proves many of these for every instance.  Theorems that it lists beside
them, such as `LiveStaysUsable`, are not repeated in a run.

Update: `HandlerKeepsPrevious` (a handler that rolled back has the previous
database in place, but for the two cases the code cannot repair),
`ImplementsAtomicUpdate`, `InstallEnds`, `RecoversAfterStop`.

Download: `ArrivesWhole` (the exception, a package published again under a
waiting `.part`, is what the checksum is for), `ResumeMakesProgress`.

Rebuild: `LogBelongs` (no log beside another database than its own, where SQLite
would apply it), `RollbackKeepsBoth`.

Budget: `AllowanceKept` has three parts: `SixthRefused` (a run of a process never
sends more than the allowance in a window, whatever runs beside it and whatever the
disk does, nor do processes one after another whose writes can be read, wherever
they are killed; counted from the last refusal by the service),
`RefusedOnlyWhenUsed` (the allowance was claimed in full, or the service refused),
`WaitIsEnough` (of a refused claim and of a 429); `PenaltyHonoured` (by the process
that was refused, always; by later ones if the refusal reached the file).

Learning: `LedgerSound` has three parts: `RaisedOnce`, `UnsettledWaits`,
`Traceable`; `DecisionsStand`.

Watchlists: `ValueReportedOnce`, `NothingMissed` (of every item that is not
`Crossed`), `PageIsStored`.

Relocation: `MoveIsSafe` has four parts: `NothingLost`, `WholeSomewhere`,
`OpenIsWhole`, `MovedWhole`.

Curation: `LinksFollow` (through every merge a BIN keeps each institution and
role a row gave it), `EveryValueTold` (what is shown, or a recorded
disagreement), `PastNeverRules` (from one commit to the next), `AgainIsNothing`
(what was read once changes nothing when it is read again).

BIN list: `LastWordCounts`, `NoDigitsMadeUp`.

Answers: `ConflictShown`, `RootNeverOverrides`, `PresentOnly`, `PortfolioAgrees`,
`ChartCoversTable`; files: `NothingCutSilently`, `ColumnsFit`; figures:
`FiguresAgree`.

Window: `ShownTogether` (what a page shows is the answer to what it last asked),
`Settles` (nothing loads for ever), `ClosingStartsNothing`, `LoadedIsSaved`,
`OneInstall`, `BusyEnds`, `OpenIsInstalled`, `InstalledWhole`, `ComesBack`,
`SnapshotSurvives`.

## 5. Fairness

* `UpdateInstall!FairSpec`: weak fairness of the steps of an install that runs,
  because a worker thread runs to its end while the process lives, and of
  `Start`, because `RecoversAfterStop` is about a user who starts the
  application again.  No fairness makes a step succeed, prevents a stop, or
  makes anybody begin an install.
* `HttpDownload!FairFetchSpec`: the user tries again until the package is in (`Request`
  weakly, `Check` strongly, `Accept` and `Reject` as the caller's next line), and
  chunks and the final rename, each of which may fail any number of times, get
  through every so often, and so do answers to a first request and partial answers to
  a resumed one (strong fairness of `AnswerFirst` and `AnswerRange`).  A full answer to
  a resumed request (`AnswerAnew`) is only tolerated by the client, and nothing makes a
  server give one: it has no fairness.  Nothing prevents an interruption after every
  chunk; that the download still ends is the point of resuming.
  `ResumeMakesProgress` is about behaviours in which, from some point on, no resumed
  request is answered from the start: a server that always does so starts again from
  nothing each time.
* `Updates!DesktopSpec`: weak fairness of the threads of the pool (`Start`,
  `Finish`, and the steps of a job, `Work` and `UpdateWork`) and of the event
  loop (one delivery of whichever kind heads the queue).  The pool starts
  waiting workers as threads come free, and Qt delivers queued signals in order.
  Whether a step succeeds, what the user does and when the process is killed
  stay open.  Liveness is asked while the process runs.

The other modules state no liveness.

## 6. What is proved

All theorems are about every value of the constants that satisfies the
assumptions of the module.

**UpdateInstallProofs.**  The inductive invariant has four parts.  `TypeInv` is
`TypeOK`, what is offered is one of the offers, and the files a step needs are
there (`FilesPresent`).  `StagingInv` says what each step has established about the file
it hands on: what was downloaded is the offered release; past the checksum it
has the published bytes if a checksum was published; past the verification it is
sound; past the migration this build can read it.  `LiveInv` says what the live file, the snapshot and `before` are before and
after the swap, and it is where the handlers' promise comes from.  `OpenInv`
relates the manager to the file.  Each is preserved by every action given the
ones before it.  From them: `TypeCorrect`, `LiveStaysUsable`,
`HandlersKeepPrevious`, `SnapshotsArePrevious`, `OpensAtRest`,
`OnlyProvedPackagesInstalled`, `SuccessEarned`, and `UpdateIsAtomic`: every step
maps to a step of AtomicUpdate or to a stutter.  `LiveUsable` is not inductive
on its own because the swap installs whatever is in `incoming`.

The module also holds the proofs of HttpDownload.  `FetchTypeInv` adds to
`FetchTypeOK` where a response has come to:
`Reading` (the `.part` file is as long as the response has delivered) and
`Asking` (it is as long as `resume` says).  `EditionInv` says that no chunk
of a `.part` file is older than its first one or newer than what the server
serves, and that while a response is read none is newer than its source: a file
whose first chunk is of the current edition is therefore of one edition.
Theorems: `FetchTypeCorrect`, `ChunksStayInPlace`,
`ArrivalsAreWhole`.

**RebuildSwapProofs.**  `TypeInv` is `TypeOK` and `Order` (a session sees no more
than was committed; the manager is closed while files are exchanged; once the
log is removed nothing writes one).  `SwapInv` is `LiveWhole`, `LogBelongs` and `Holds`:
until the log is removed the path shows what was closed or that with later writes
(`AtLeast`), from then on a copy of it, complete unless a session stirred the file, is
where the operation keeps it.  `ShrinkInv` carries the count of the
guard from the beginning of a rebuild to its end.  Theorems:
`TypeCorrect`, `LiveStaysWhole`, `LogStaysWithItsFile`, `SwapsExchange`,
`FailureIsSafe`, `ShrinksAreAllowed`.  For `RollbacksKeepBoth`, `CopyInv` says
where the copies of a rollback have come to: staging is free when one begins,
what it holds past the copying is the live build, and the file that is exchanged
is `.previous`.

**RelocateProofs.**  `Inv` has what holds whatever the workers do and what holds
while they rest.  `Safe`: nothing on disk is ahead of what was committed, which
of the two ends of a move is in service at each step, the manager has it open or
nothing, and it is whole.  `Quiet` implies `QuietLogs` (only the database in
service that the setting names has a log, and not during a move), `QuietMove`
(how far the copy, the original and the setting have come) and `QuietEdits`
(what is in service shows every edit, and so does what a start would open).
`QuietEdits` does not follow from the properties: a crash between the opening of
the copy and the saving of the setting starts from the original, which must
therefore still be complete or gone.  Theorems: `TypeCorrect`, `MovesAreSafe`.

**RequestBudgetProofs.**  `Inv` is built from parts that need different
circumstances.  `Safe`, in all of them: the types, the order of every list of times,
and that a claim not yet sent is its process's last.  `Remembered`: what a process or
the file holds are times of different claims (`Recalled`, an increasing map into
`claims`) or what a refusal left (`Penal`); this is `RefusedOnlyWhenUsed`.  `Covers`
says that each recent request is matched, counted from the last, by an entry of a list.
`RunCovered` says it of the memory of each process and the requests of its own run,
whatever the file holds; `FileCovered` of the file and all requests, if one process
runs at a time and what it writes can be read (`Quiet`).  `Spaced` follows from
either, and this is where the allowance is kept.  `Waits` carries the two announced
waits to their end, and `FilePenalty` says that a refusal which was recorded is in
the file, and read from it by whoever starts, until its span is over.  What `_prune`
keeps is characterised as a suffix by induction in the form of a least counterexample
(`KeptIsSuffix`), because the induction theorems of the library cannot be
instantiated.  Theorems: `TypeCorrect`, `AllowanceIsKept`, `PenaltyIsHonoured`.

**LearnedFactsProofs.**  The lemmas say what recording and deciding do to one
ledger (`RecordedSound`, ...); the invariant is that both ledgers are sound and
every learned value is claimed.  `Traceable` needs the second ledger: a rebuild
puts it in service.  Theorems: `TypeCorrect`, `LedgerIsSound`,
`DecisionsAreKept`.

**WatchlistsProofs.**  `PageAgrees` holds as it stands, with the types of the page
and that the modal dialog is not over it.  The two theorems about scans have no
hypotheses: any number of scanners, lists and targets, and items that come and go at
any moment; the statements except the items that are `Crossed`.  `ScanInv` is about
the others (`Followed`): their owner knows the state in their snapshot (`Known`), and a
scan under way that has read their target has read what is stored, under their own
key, which it holds for no other target, while no other scan has read it (`Current`).
Each action that could break this crosses the item it breaks it for, and no other:
`InsertKeeps` for a row written under a scan, `ReadKeeps` for a scan that begins,
`RecordKeeps` for one that ends.  Theorems: `PageAgrees`, `ValuesAreReportedOnce`,
`NothingIsMissed`.

**CurationProofs.**  `CurationInv` says that both the tables a session writes
(`db`) and the committed ones (`saved`) are sound, that the first succeed the
second, and what a session under way may hold (`SessionInv`).  Both, because a
failed session puts `saved` in the place of `db`: what held of `db` alone would be
lost there.  `Sound` is the types, links to institutions that are there and no two
for the same BIN, institution and role (`LinksLive`, `LinksUnique`), at most one
range of a BIN for an institution and none for one that is gone (`RangesBound`),
and the two properties of the run, `Followed` and `Told`.  `LinksUnique` is what a merge of two
institutions needs: it moves the links of the one that goes, except those the
survivor already has.  `Succeeds(saved, db)` carries `PastNeverRules` over a whole
session: it is transitive, every row and every merge adds to it, and a commit
makes it a fact about two successive states of `saved`.  `SessionInv` says that
what the caches hold is still there (`CacheLive`), and that only two different
institutions are compared.  The matching is characterised as far as these need it:
what is picked is a live institution, new identifiers are not in use, an
institution that is ensured is there afterwards (`Ensuring`).  Theorems:
`CurationTypes`, `LinksAlwaysFollow`, `EveryValueIsTold`, `PastNeverOverrules`.

The module also holds the proofs of BinList.  `ReaderInv`: what the reader was told
about lost zeros is in force only if the file it is in, or the caller, said so
(`PadTold`); a new file begins with none of it.  With `RecordOfRow`, which says what
`BinOf` and `Zeros` can make of a cell, `NothingIsMadeUp` follows.
`RecordsPlaced` is what `LastWordCounts` needs besides itself: the places of the
first rows (`Place`) are exactly the places of the records, and a record asserts the
same fact as the first row it stands for.  A row that restates a record then finds
the one place it may change (`RestatedPlaced`), any other becomes the first of its
fact and gets the next place (`NewPlaced`, by counting).  `ReportInv` has the
counters.  Theorems: `ListTypes`, `LastWordsCount`, `NothingIsMadeUp`.

Its last part is about Lookup, Exports and Assessment together.  What they show is a
function of the package, and the package only changes while nothing is shown; so the
invariant, `LookupInv`, is short: what a package holds (`PackageOK`: relationships of
the given forms, one of a kind with an institution, finitely many), that each result
is right (`ShownRight`, `OutputRight`), and what the actions that make a file of a
result must know of it (`ShownKnown`).  The work is in the lemmas about the operators.

* `SortedAll`: a finite set with keys that differ, sorted, is a list of its elements,
  each once, in the order of the keys; the order of tuples is total and transitive
  (`LexicalStrict` and what follows).  The candidates have keys that differ
  (`CandidatesKeyed`), so a `Ranked` list has all of them and its head is the most
  specific there is (`RankedForm`, `AnswerIsSpecific`).
* `IssuersForm`: the issuers of an allocation are those recorded as current, each
  institution once; with `AttributedHolds` this is `PresentOnly`.
* For `ConflictShown`: no institution has two claims, and the first ones are those of
  the first allocation that names anybody (`ClaimsForm`).  If the first two cannot be
  separated nothing is settled (`FirstTwoUnsettled`); if nothing is settled, two claims
  are as specific as the first (`UnsettledPair`), because a claim that is less specific
  never replaces the best so far.  `Settled` is a recursive function, so the second is
  an induction in the form of a least counterexample.
* For `RootNeverOverrides`: the head of a ranked list is before every other candidate
  in the order of the keys, so that each line of the property is a comparison of two
  ranks or of two spans.
* For `NothingCutSilently`: a table has a row for each assignment (`RowsListed`), of
  different BINs (`RowsDiffer`, `OneEach`), the first so many rows of a list are all of
  it or so many (`FirstRowsForm`, `RowsCut`), and what a format does to notes and
  sections (`FormatKeeps`).
* For `ColumnsFit`: a text is no shorter than its words (`TextCoversWords`), so that no
  floor is above what is desired (`WidthsAsked`).  If all floors fit side by side, each
  pass that is not the last one pins another column (`PassPins`): three passes are
  enough, and after them the columns that are not pinned share exactly what is left
  (`Shares`, `PassesEnough`).  That the shares add up to the page is
  arithmetic (`SharesFit`).  A floor is never zero because of the padding of a cell,
  which `ExportsAssumption` says is positive as it is in the code; `PassPins` needs it.
* For `FiguresAgree`: every score is a number (`ScoresCounted`), checks that all pass
  make a good mean (`PassingIsGood`), who issues a BIN resolves it (`IssuedIsResolved`),
  and nothing dangles after the repair (`RepairedForm`).

Theorems: `ConflictsAreShown`, `MostSpecificAnswers`, `NobodyFromThePast`,
`PortfoliosAgree`, `ChartsCoverTables`, `NoSilentCut`, `ColumnsAlwaysFit`,
`FiguresAlwaysAgree`.

**DesktopProofs.**  About the composed window, `DesktopSpec`, for any number of
threads, pages, acts, snapshots and databases; the invariants are those of
DesktopInvariants.  Its first part says what a step of the window can do to the pool and the queue (`Pool`): every action either
extends the pool by jobs that have not begun, goes on with one job, or ends one
and posts its answer.  The invariants use that, and `SavedInv` uses `WholeInv`:

* `OpenInv`, for `InstalledIsOpen`: if what is open is not what is installed, a
  job or an answer in the queue is still to open it (`Reopening`).
* `LoadedInv`, for `TemplatesAreShown`: while a template is shown as loaded, no
  request for filter values is on its way unless it was overtaken.
* `PageInv` and `OneInv`, for `InstallsAreSingle`: each slot of the banner is
  wired so that, whichever connections fire, the first request raises the flag
  the others look at; jobs in the pool and answers in the queue are counted
  together.
* `WholeInv`, for `InstalledIsWhole`: while nothing is `tangled` at most one job
  replaces the file (`Alone`), the file is whole, and each job finds what its
  next step needs (`Ready`): the snapshot a restore copies is whole (snapshots
  have different names, `NamedOnce`; a new one gets a free name, by counting),
  the outgoing database of a rollback is whole, and what is about to be swapped
  in was written to the end by the job that swaps it.
* `SavedInv`, for `SnapshotsSurvive`: each job that writes or has just written a
  snapshot has one of its own, unless the user deleted it; above the one a job
  has just finished there are only whole ones and ones still being written.  When
  that job prunes, fewer are being written than are kept, so that one of those
  kept is whole (`WholeIsLeft`); what a kill left half written lies below.
* `DrainInv`, for `NothingBegins`: the workers that have begun are the first ones on
  the pool, and once the window is closed every other one is cancelled.
* `ShownInv` and `FreshInv`, for `ShowsWhatWasAsked`.  `ShownTogether` only speaks of a
  channel on which nothing is on its way; what makes it true is what holds while
  something is.  On every channel that is not in `lapsed`, what is waited for is
  what the page last asked, and what is shown is that or is on its way
  (`AskedFor`), and an answer in the queue is of the kind its page expects
  (`Replies`).  Unless a replacement is still to be told (`Notice`), what the
  pages that reload hold, what the cache holds and what their workers have read is
  of the installed file; the gauges of a page that was never opened hold nothing
  (`NoGauges`).  An action touches few channels, so the proof first says what it
  leaves alone (`Elsewhere`), and `ShownSteps` lists what is left: an act of a
  page, a worker that ends, an answer that is handled, a reload.  `OpenInv` is
  needed because a reload reads what is open, not what is installed.

The assumptions are those of the modules.  Some of them are there for the proofs:
every kind of maintenance job is one a page may ask for (`JobKindsAssumption`); the
two pages that browse institutions are those of the window, and an empty query
is not a BIN (`WorkbenchAssumption`); the forms of relationships, ranges and defects
have the columns of the tables, and a package has finitely many rows
(`FormsAssumption`, `LookupAssumption`, `AssessmentAssumption`); a name of an institution
and a heading have words, and a cell has padding (`ExportsAssumption`); a name that is a term,
or begins with it, contains it (`SearchAssumption`).

### What the proofs changed

* `MovedWhole` said that after a move the copy in service is the only one.  The
  step of the proof for a restart fails: a crash between the opening of the copy
  and the deletion of the original leaves a whole copy that a later move to a
  third folder does not know of.  TLC finds it with three folders and could not
  with two.  The property now says what the code does, that the *original* of this move
  is gone, and the run has three folders.
* `tangled` was set by a job that was begun while the very answer that caused it,
  a refusal or a failure, was being handled, so that every "try again" made
  `InstalledWhole` and `ComesBack` say nothing of what followed.  It now looks at
  the queue behind that answer.
* `SnapshotSurvives` said that only what the user does can take the last whole
  snapshot.  The step of the proof for pruning fails, and TLC then finds it with
  a retention of 1 and two backups at once, and with a retention of 2 and one
  more start: the kill leaves a half-written snapshot for each place, the user
  deletes the new one before its job prunes, and pruning keeps the half-written
  ones and takes the last whole one.  The property now names both conditions (`Copying`,
  `Bereft`), and a job that prunes remembers the snapshot it made.
* `PastNeverRules` was stated on `db`.  The step of the proof for a failed session
  fails: a rollback takes an uncommitted value of the present issuer back to what
  was committed before it.  TLC finds it with a source that outweighs the others,
  which the run now has.  The property is now about what is committed.
* `Curation` wrote its maps with `:>` and `@@`, which the provers cannot expand;
  `Put` is their definition on one entry.
* `LastWordCounts` folded the rows once more, by sorting them, and compared the
  results.  It now says which row each record repeats, which needs neither sorting
  nor recursion and is what the proof is about; the lines of a list are assumed to
  hold cells (`LineAssumption`).
* `ConflictShown` took the figures of two relationships as they are recorded.  The
  proof fails where none is recorded: `_settle` counts it as a half, so that a record
  of 10 hundredths and one without a figure *are* separated.  `Inseparable` now
  compares what is weighed (`Figure`).
* Lookup and Exports sorted and counted by folds, and listed claims by one.  `Sorted`,
  `RowsOf`, `Claims` and `ReachedFrom` now say what the result is, and `Value` and
  `Settled` are recursive functions; `Weighed` and `Completeness` are written as the sums
  they are.  `Total` is the sum of the three columns, `Passed` the three passes, and
  `TextLength` a recursive function.  TLC finds the same states as before.
* `ClosingStartsNothing` counted the workers that run.  It now says of each place of
  the pool that it does not come to run, which implies the count because those that
  run are the first ones (`First`), and leaves no room for one beginning as another
  ends.

## 7. What is only model-checked

* Liveness and everything that needs ENABLED: `InstallEnds`,
  `RecoversAfterStop`, `ResumeMakesProgress`, `Settles`, `ComesBack`, `BusyEnds`.
* `AgainIsNothing` of Curation.  That a row finds its own institutions again depends
  on how the likenesses of the names relate (a name that is like two others need
  not be found by the second the way it was by the first); the constants of the
  proofs allow any likeness, the run has those of real names.
* What the recursive definitions compute for every input, as far as no theorem above
  needs it: it is checked over all inputs of the bounded size.

## 8. Where the code and its documents part

`lookup_parent` ends in a violation that the code really has: `candidates` asks
only for the ranges that contain the lowest value of a query, whatever its
length, so an account range that begins at the lowest value of a root answers a
lookup of the root, while the comment above it says that a child must not answer
for its parent.

While modelling, these consequences of the code as modelled came up, which no run
repeats; the properties say where they make an exception for one.

Update and download:

* `_rollback` closes the manager and swallows a restore that raises before it
  reaches the code that opens, while `install` says "the working database is
  always left in a usable state";
* a `.part` file that already has every byte (a kill or a refused rename after
  the last chunk) is asked for from its end, answered 416 and kept, at every
  retry;
* with `backup_before_update` off a failure after the swap leaves the new
  release in place (`HandlerKeepsPrevious` states the exception; docs/UPDATES.md
  line 60 does not);
* `install` stamps the manifest's schema number over the one the migration
  reached (`SuccessIsEarned` states it as it is);
* every check that finds a release connects the banner to `install_update` again
  and nothing disconnects it: a later "Try again" after being offline also
  installs the last release that was found;
* `_on_checked` enables the buttons during an install and replaces the manifest,
  so that after a cancelled one "Install" is enabled for a release that is not
  newer; the first provider that answers decides, also when a later one has a
  newer release; an incompatible release is shown as "up to date".

Rebuild, relocation, maintenance:

* a rollback that failed after its install leaves the superseded database in
  staging only, and the next one overwrites it; the comment says "so neither
  copy is ever discarded";
* the shrink guard counts nothing while the manager is closed (`ShrinkIsAllowed`
  is about databases that were open), which it is during a restore on the other
  page; a rebuild that found the manager closed and fails leaves it closed;
* all installs share one staging name, so that two of them at once can leave a
  torn file after a kill, and two restores share theirs (`tangled` in
  `InstalledWhole` and `ComesBack`); neither page looks at the
  other, and parts of one page re-arm its buttons while a job of its own runs;
* a close under an open session folds less than the whole log, and what that session
  commits after the close is in the log only.  If the session ends while the file is
  copied, the log is folded into the file under the copy: `.previous`, or the
  superseded database of a rollback, may be torn (`stirred`), and a rollback that has
  such a copy may lose the only whole one of a build;
* a restore tells only the page it was asked for on, so figures and charts of
  the other pages keep describing the database before;
* retention counts snapshots that a kill left half written or that another job is
  still writing, and can so delete the only whole one (`Bereft` and `Copying` in
  `SnapshotSurvives`);
* the `DatabaseError` of a failed verification of a move is no `OSError`, so the
  handler meant to open the original again is passed by; a move that ends
  between the deletion of the original and the saving of the setting starts in
  first-run setup; with sessions, writers or an original that cannot be deleted,
  committed edits can be lost (`Quiet` in `NothingLost`).

Budget, learning, watchlists:

* each run of a process keeps its own allowance, but two at once each spend a whole
  one, because neither reads the file again; a refusal with a short `Retry-After`
  replaces the record and so forgets the requests before it, so that `SixthRefused`
  counts from the last refusal;
* `_save` swallows a write that fails (`binlist.py` lines 237-241): the running process
  still knows of its claims and of a refusal, the next one does not, and with a file
  that was emptied first it knows of none (`fails` and `tears` in `SixthRefused`,
  `barred` in `PenaltyHonoured`); a claim whose request fails to connect, or whose
  process is killed before it, stays claimed;
* the wait that is announced after a 429 is a second short: `penalise` keeps the
  allowance empty for a second more than the span (line 282, `+ 1.0`), and
  `WaitIsEnough` says "a tick after it was told";
* a rebuild forgets what was declined; a fact is applied without comparing the
  value it was raised against, so that it overrules an edit made in between; two
  automatic approvals of one blank overrule each other;
* a target on two lists is compared with the first row's snapshot and reported
  to the last row only; two overlapping scans report a change twice; a row that is
  written, or a row id that is given again, during a scan receives a snapshot of
  another moment or of another target: all of these are `Crossed`, and the
  properties say nothing of such an item;
* a scan reports a target that is absent as removed every time;
* "Mark all read" marks the changes of every list, also those recorded since the
  page was loaded; removing an item deletes its unread changes.

Records and answers:

* a merge of institutions moves everything but the number ranges
  (`dedupe_service.py` line 381: "Move everything onto *keep*");
* a nine-digit query is an exact match of another nine-digit BIN with the same
  first eight;
* a query with more digits than a seven- or eight-digit assignment makes that a
  `ROOT_PREFIX` (`bin_repository.py` lines 232-233), the least specific match of all,
  and any wider issuer range then answers in its place, although docs/LOOKUP.md line 74
  and the head of `strategy.py` say that the more specific allocation wins;
  `RootNeverOverrides` states the order as it is;
* a search by exact name or by the beginning of one, or with a region, is charted with
  the names that contain the term and with the regions of any address, so the chart
  counts BINs that the table does not list, while `search_repository.py` line 95 says that
  the two "can never disagree"; `ChartCoversTable` claims equality only where it holds;
* an exported search stops at 250,000 rows and an exported portfolio at 100,000
  (`search_service.py` line 69, `bin_repository.py` line 377) without a note, and
  `NothingCutSilently` says exactly there;
* the columns of a PDF are measured on the first 250 rows (`report_pdf.py` line 392): a
  longer word further down may be broken, although the docstring says "never";
* the primary relationship of a search row takes its institution and its kind
  from two aggregates; a range supplies its address also when it has ended; which
  of three conflicting claims stands depends on their order;
* the statistics above a portfolio count the institution alone, its table the
  group; the chart of regions counts a BIN once for each primary link;
* `reports_page.py` line 294 calls `export_cap()`, which the search service does
  not have: previewing or generating a search report ends in an exception
  (docs/REPORTING.md line 3);
* the text record says "Stopped" of parents and processors that have not; the
  JSON report keeps the last of two relationships of a kind; an institution
  profile is cut without a note (both are exceptions in `NothingCutSilently`);
* the quality figures count any current relationship where their comment says
  current *issuing* ones; links that have lost both ends are counted twice; a
  corrupt file in which nothing else is wrong is graded fair, where the comment
  says it is unusable.

Pages:

* overlapping requests: an answer that was overtaken is shown when it comes last,
  and a part of a page whose worker failed keeps what it showed of the
  institution before (`lapsed` in `ShownTogether`);
* the bank page records names with `remember_search_history` off
  (`bank_lookup_page.py` line 185, docs/PRIVACY.md line 62), and "Clear search
  history" clears the state file and not the user store;
* a load of the charts that is asked for during another is dropped; late filter
  values reset the filters of a template that was loaded before them.

## 9. What is not modelled, and why

* The first-run window, layout, themes, painting and dialogs: the first-run
  window drives the same install as the Updates page, the rest keeps no state a
  step could get wrong.
* Settings are one assignment and one atomic save each; favourites, tags, notes
  and saved searches one row each.  Where another component reads a setting
  while it runs, its module has it as a constant or a switch.
* The readers of file formats, text normalizers, similarity of names and the SQL
  of each migration are modelled by their verdicts: TLC has no strings to match
  and no SQLite.  The distributions of the analytics page other than the one over
  regions are the same aggregate over another column.
* Commands of the command line that print what one service call returns.
* Sessions that were handed out but had not connected when the manager closed, and what
  a session commits once the log it writes has been unlinked (it is lost with the log);
  SQLite's automatic checkpoints, which fold parts of a log at any commit.
* The limit of 60 in each of the two statements of `candidates`: of more assignments or
  ranges than that which contain one query, 60 are read.  The archive of
  source rows, which grows by a row whenever one is read again: `AgainIsNothing` is
  about everything else.
* Deltas, which no build applies; the export of a copy of the database; "clear
  cache" during an update, two downloads into one `.part` file, two claims of one
  process at once, a clock that is set back, and snapshots made within one
  second.
* Support code, build scripts and packaging.
