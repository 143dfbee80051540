------------------------------- MODULE RebuildSwap -------------------------------
(***************************************************************************)
(* RebuildService: a new database is built from the personal BIN list and  *)
(* swapped in, the one it replaces is kept as ".previous", and rollback    *)
(* exchanges the two.                                                      *)
(*                                                                         *)
(* The database in use commits to a write-ahead log; closing the manager   *)
(* folds the log into the file, as far as the oldest reader allows.  The   *)
(* copies the service makes are file copies, which take the file without   *)
(* its log.  Steps fail, and the process stops, anywhere.                  *)
(***************************************************************************)
EXTENDS Integers

CONSTANTS
  Sizes,      \* numbers of BINs a list or a database may hold
  MaxBuilds,  \* bound on rebuilds
  MaxEdits,   \* bound on maintenance writes to one database
  NoFile,     \* the path does not exist
  NoReader    \* no session is open

\* One database file: which build it is, how many BINs it holds, how many
\* maintenance writes its pages include, and whether its copy was finished.
Db == [build : 0 .. MaxBuilds, size : Sizes, edits : 0 .. MaxEdits, whole : BOOLEAN]

ASSUME SizeAssumption == Sizes \subseteq Nat \ {0}
ASSUME BoundAssumption == MaxBuilds \in Nat /\ MaxEdits \in Nat
ASSUME NoneAssumption == NoFile \notin Db /\ NoReader \notin Nat

VARIABLES
  up,          \* the process is running
  pc,          \* the step of rebuild() or rollback() about to run
  built,       \* builds made so far
  open,        \* DatabaseManager.is_open
  wasOpen,     \* was_open of the running operation
  live,        \* the working database file
  wal,         \* committed writes that are only in its log
  reader,      \* how many writes the oldest open session sees
  candidate,   \* the staged file
  previous,    \* the .previous file
  superseded,  \* staging/bintel-superseded.sqlite
  outcome,     \* how the last operation ended
  allowed,     \* allow_shrink of the running rebuild
  current,     \* history: the working database, log included, at the close
  target,      \* history: what the operation puts in its place
  logOf,       \* history: the build whose writes the log holds
  cut,         \* history: a reader kept the close from folding the whole log
  leftover,    \* history: superseded was already there when rollback began
  stirred      \* history: the file changed while it was being copied

history == <<allowed, current, target, logOf, cut, leftover, stirred>>
vars == <<up, pc, built, open, wasOpen, live, wal, reader, candidate, previous,
          superseded, outcome, allowed, current, target, logOf, cut, leftover, stirred>>

RebuildSteps  == {"build", "verify", "close", "keep", "keeping", "clear", "replace", "reopen"}
RollbackSteps ==
  {"r_close", "r_copy", "r_copying", "r_clear", "r_replace", "r_exchange", "r_reopen"}
\* Between the close and the reopening, where a failure ends in the handler.
SwapSteps == (RebuildSteps \ {"build", "verify", "close", "reopen"})
             \cup (RollbackSteps \ {"r_close", "r_reopen"})

TypeOK ==
  /\ up \in BOOLEAN
  /\ pc \in RebuildSteps \cup RollbackSteps \cup {"idle"}
  /\ built \in 0 .. MaxBuilds
  /\ open \in BOOLEAN
  /\ wasOpen \in BOOLEAN
  /\ live \in Db \cup {NoFile}
  /\ wal \in 0 .. MaxEdits
  /\ live # NoFile => live.edits + wal <= MaxEdits
  /\ reader \in 0 .. MaxEdits \cup {NoReader}
  /\ candidate \in Db \cup {NoFile}
  /\ previous \in Db \cup {NoFile}
  /\ superseded \in Db \cup {NoFile}
  /\ outcome \in {"none", "refused", "failed", "rebuilt", "rolled_back"}
  /\ allowed \in BOOLEAN
  /\ current \in Db \cup {NoFile}
  /\ target \in Db \cup {NoFile}
  /\ logOf \in 0 .. MaxBuilds
  /\ cut \in BOOLEAN
  /\ leftover \in BOOLEAN
  /\ stirred \in BOOLEAN

Torn(f) == [f EXCEPT !.whole = FALSE]

\* What a file copy of f can end as: pages written meanwhile tear it.
CopyOf(f) == IF stirred THEN {f, Torn(f)} ELSE {f}

\* The file with its log applied: what a session sees.
Contents == IF live = NoFile THEN NoFile ELSE [live EXCEPT !.edits = live.edits + wal]

At(step) == up /\ pc = step

--------------------------------------------------------------------------------
\* The database in use

\* A maintenance write commits: a learned fact, a restored name, a verification
\* date.  A session that was open at the close may commit after it.
Edit ==
  /\ up
  /\ open \/ reader # NoReader
  /\ live # NoFile /\ live.edits + wal < MaxEdits
  /\ wal' = wal + 1
  /\ logOf' = live.build
  /\ UNCHANGED <<up, pc, built, open, wasOpen, live, reader, candidate, previous,
                 superseded, outcome, allowed, current, target, cut, leftover, stirred>>

\* A page's query runs in a session of its own ...
ReaderBegins ==
  /\ up /\ open /\ live # NoFile /\ reader = NoReader
  /\ reader' = live.edits + wal
  /\ UNCHANGED <<up, pc, built, open, wasOpen, live, wal, candidate, previous,
                 superseded, outcome, history>>

\* ... and ends; the last connection to a closed database folds its log, which
\* may be while the file is being copied.
ReaderEnds ==
  /\ up /\ reader # NoReader
  /\ reader' = NoReader
  /\ IF open
       THEN UNCHANGED <<live, wal, stirred>>
       ELSE /\ live' = Contents /\ wal' = 0
            /\ stirred' = (stirred \/ (pc \in {"keeping", "r_copying"} /\ wal > 0))
  /\ UNCHANGED <<up, pc, built, open, wasOpen, candidate, previous, superseded,
                 outcome, allowed, current, target, logOf, cut, leftover>>

\* Between operations another page may leave the manager closed, or open it.
Elsewhere ==
  /\ At("idle") /\ live # NoFile /\ reader = NoReader
  /\ open' = ~open
  /\ live' = Contents /\ wal' = 0
  /\ UNCHANGED <<up, pc, built, wasOpen, reader, candidate, previous, superseded,
                 outcome, history>>

\* DatabaseManager.close: fold the log up to what the oldest reader sees.
Close(next) ==
  LET seen   == live.edits + wal
      folded == IF reader = NoReader THEN seen
                ELSE IF reader < live.edits THEN live.edits ELSE reader
  IN
  /\ wasOpen' = open
  /\ open' = FALSE
  /\ current' = Contents
  /\ pc' = next
  /\ IF open /\ live # NoFile
       THEN /\ live' = [live EXCEPT !.edits = folded]
            /\ wal' = seen - folded
            /\ cut' = (folded < seen)
       ELSE /\ UNCHANGED <<live, wal>>
            /\ cut' = (wal > 0)

--------------------------------------------------------------------------------
\* rebuild()

\* The list has `size` BINs.  The guard counts the open database's.
StartRebuild(size, allow) ==
  /\ At("idle") /\ built < MaxBuilds
  /\ open /\ ~allow /\ live # NoFile => 2 * size >= live.size
  /\ built' = built + 1
  /\ target' = [build |-> built + 1, size |-> size, edits |-> 0, whole |-> TRUE]
  /\ allowed' = allow
  /\ stirred' = FALSE
  /\ candidate' = NoFile
  /\ outcome' = "none"
  /\ pc' = "build"
  /\ UNCHANGED <<up, open, wasOpen, live, wal, reader, previous, superseded,
                 current, logOf, cut, leftover>>

\* ShrinkRefused, or a list that cannot be read.
RefuseRebuild(size) ==
  /\ At("idle")
  /\ open /\ live # NoFile /\ 2 * size < live.size
  /\ outcome' = "refused"
  /\ UNCHANGED <<up, pc, built, open, wasOpen, live, wal, reader, candidate,
                 previous, superseded, history>>

\* _build_candidate; a build that goes wrong may still leave a file.
Build ==
  /\ At("build")
  /\ candidate' \in {target, Torn(target)}
  /\ pc' = "verify"
  /\ UNCHANGED <<up, built, open, wasOpen, live, wal, reader, previous, superseded,
                 outcome, history>>

VerifyCandidate ==
  /\ At("verify")
  /\ candidate.whole
  /\ pc' = "close"
  /\ UNCHANGED <<up, built, open, wasOpen, live, wal, reader, candidate, previous,
                 superseded, outcome, history>>

CloseForInstall ==
  /\ At("close")
  /\ Close("keep")
  /\ UNCHANGED <<up, built, reader, candidate, previous, superseded, outcome,
                 allowed, target, logOf, leftover, stirred>>

\* The copy to .previous overwrites the one that was there ...
KeepPrevious ==
  /\ At("keep")
  /\ IF live = NoFile
       THEN pc' = "clear" /\ UNCHANGED previous
       ELSE pc' = "keeping" /\ previous' = Torn(live)
  /\ UNCHANGED <<up, built, open, wasOpen, live, wal, reader, candidate,
                 superseded, outcome, history>>

\* ... and is complete.
Kept ==
  /\ At("keeping")
  /\ previous' \in CopyOf(live)
  /\ pc' = "clear"
  /\ UNCHANGED <<up, built, open, wasOpen, live, wal, reader, candidate,
                 superseded, outcome, history>>

\* Mutated form of ClearSidecars: the log stays for the next file.
SidecarsStay(step, next) ==
  /\ At(step)
  /\ pc' = next
  /\ UNCHANGED <<up, built, open, wasOpen, live, wal, reader, candidate, previous,
                 superseded, outcome, history>>

\* install_database, once its own copy is made: the outgoing log goes first (what
\* a session commits to it from now on is lost),
ClearSidecars(step, next) ==
  /\ At(step)
  /\ wal' = 0
  /\ reader' = NoReader
  /\ pc' = next
  /\ UNCHANGED <<up, built, open, wasOpen, live, candidate, previous, superseded,
                 outcome, history>>

\* then the new file takes the path.
Replace(file, step, next) ==
  /\ At(step)
  /\ live' = file
  /\ pc' = next
  /\ UNCHANGED <<up, built, open, wasOpen, wal, reader, candidate, previous,
                 superseded, outcome, history>>

Reopen(step, result) ==
  /\ At(step)
  /\ open' = TRUE
  /\ candidate' = NoFile
  /\ outcome' = result
  /\ pc' = "idle"
  /\ UNCHANGED <<up, built, wasOpen, live, wal, reader, previous, superseded, history>>

ClearForCandidate == ClearSidecars("clear", "replace")
InstallCandidate  == Replace(candidate, "replace", "reopen")
ReopenRebuilt     == Reopen("reopen", "rebuilt")

--------------------------------------------------------------------------------
\* rollback()

StartRollback ==
  /\ At("idle")
  /\ previous # NoFile /\ previous.whole
  /\ target' = previous
  /\ leftover' = (superseded # NoFile)
  /\ stirred' = FALSE
  /\ outcome' = "none"
  /\ pc' = "r_close"
  /\ UNCHANGED <<up, built, open, wasOpen, live, wal, reader, candidate, previous,
                 superseded, allowed, current, logOf, cut>>

\* Nothing to roll back to, or a previous database that fails verification.
RefuseRollback ==
  /\ At("idle")
  /\ previous # NoFile => ~previous.whole
  /\ outcome' = "refused"
  /\ UNCHANGED <<up, pc, built, open, wasOpen, live, wal, reader, candidate,
                 previous, superseded, history>>

CloseForRollback ==
  /\ At("r_close")
  /\ Close("r_copy")
  /\ UNCHANGED <<up, built, reader, candidate, previous, superseded, outcome,
                 allowed, target, logOf, leftover, stirred>>

\* Mutated form of Supersede: the previous database is restored over it.
SupersedeSkipped ==
  /\ At("r_copy")
  /\ pc' = "r_clear"
  /\ UNCHANGED <<up, built, open, wasOpen, live, wal, reader, candidate, previous,
                 superseded, outcome, history>>

\* Copy the database being rolled back from into staging ...
Supersede ==
  /\ At("r_copy")
  /\ IF live = NoFile
       THEN pc' = "r_clear" /\ UNCHANGED superseded
       ELSE pc' = "r_copying" /\ superseded' = Torn(live)
  /\ UNCHANGED <<up, built, open, wasOpen, live, wal, reader, candidate, previous,
                 outcome, history>>

Superseded ==
  /\ At("r_copying")
  /\ superseded' \in CopyOf(live)
  /\ pc' = "r_clear"
  /\ UNCHANGED <<up, built, open, wasOpen, live, wal, reader, candidate, previous,
                 outcome, history>>

ClearForPrevious == ClearSidecars("r_clear", "r_replace")
InstallPrevious  == Replace(previous, "r_replace", "r_exchange")

\* ... and, once the previous one is in place, rename that copy over it.
Exchange ==
  /\ At("r_exchange")
  /\ IF superseded # NoFile
       THEN previous' = superseded /\ superseded' = NoFile
       ELSE UNCHANGED <<previous, superseded>>
  /\ pc' = "r_reopen"
  /\ UNCHANGED <<up, built, open, wasOpen, live, wal, reader, candidate, outcome,
                 history>>

ReopenRolledBack == Reopen("r_reopen", "rolled_back")

--------------------------------------------------------------------------------
\* Failure and restart

\* The candidate cannot be built or does not verify: nothing is closed yet.
BuildFails ==
  /\ up /\ pc \in {"build", "verify"}
  /\ candidate' = NoFile
  /\ outcome' = "failed"
  /\ pc' = "idle"
  /\ UNCHANGED <<up, built, open, wasOpen, live, wal, reader, previous, superseded,
                 history>>

\* A copy, an unlink or a rename raises between the close and the reopening:
\* whatever was written so far stays, and the manager is reopened.
SwapFails ==
  /\ up /\ pc \in SwapSteps
  /\ open' = (wasOpen /\ live # NoFile)
  /\ candidate' = NoFile
  /\ outcome' = "failed"
  /\ pc' = "idle"
  /\ UNCHANGED <<up, built, wasOpen, live, wal, reader, previous, superseded,
                 history>>

\* Files and logs survive a stop; the start opens what verifies.
Stop ==
  /\ up
  /\ up' = FALSE
  /\ pc' = "idle"
  /\ open' = FALSE
  /\ reader' = NoReader
  /\ candidate' = NoFile
  /\ outcome' = "none"
  /\ UNCHANGED <<built, wasOpen, live, wal, previous, superseded, history>>

Start ==
  /\ ~up
  /\ up' = TRUE
  /\ open' = (live # NoFile /\ live.whole)
  /\ UNCHANGED <<pc, built, wasOpen, live, wal, reader, candidate, previous,
                 superseded, outcome, history>>

Init ==
  /\ up = FALSE /\ pc = "idle" /\ built = 0
  /\ open = FALSE /\ wasOpen = FALSE
  /\ live \in {NoFile} \cup {f \in Db : f.build = 0 /\ f.edits = 0 /\ f.whole}
  /\ wal = 0 /\ reader = NoReader
  /\ candidate = NoFile /\ previous = NoFile /\ superseded = NoFile
  /\ outcome = "none" /\ allowed = FALSE
  /\ current = live /\ target = NoFile /\ logOf = 0
  /\ cut = FALSE /\ leftover = FALSE /\ stirred = FALSE

Rebuild ==
  \/ \E size \in Sizes, allow \in BOOLEAN : StartRebuild(size, allow)
  \/ \E size \in Sizes : RefuseRebuild(size)
  \/ Build \/ VerifyCandidate \/ CloseForInstall \/ KeepPrevious \/ Kept
  \/ ClearForCandidate \/ InstallCandidate \/ ReopenRebuilt

Rollback ==
  \/ StartRollback \/ RefuseRollback \/ CloseForRollback
  \/ Supersede \/ Superseded \/ ClearForPrevious \/ InstallPrevious
  \/ Exchange \/ ReopenRolledBack

Use == Edit \/ ReaderBegins \/ ReaderEnds \/ Elsewhere

Next == Use \/ Rebuild \/ Rollback \/ BuildFails \/ SwapFails \/ Stop \/ Start

Spec == Init /\ [][Next]_vars
--------------------------------------------------------------------------------
\* Properties

\* An operation ends with this result.
Ends(result) == pc # "idle" /\ pc' = "idle" /\ outcome' = result

\* The working path never holds a database whose copy or build did not
\* finish, at no step and after no crash.
LiveWhole == live # NoFile => live.whole

\* A log is never beside another database than the one that wrote it, where
\* SQLite would apply it.
LogBelongs == wal > 0 => live # NoFile /\ live.build = logOf

\* f is g, or g with later writes.
AtLeast(f, g) ==
  IF g = NoFile THEN f = NoFile
  ELSE f # NoFile /\ f.edits >= g.edits /\ f = [g EXCEPT !.edits = f.edits]

\* A finished rebuild or rollback has put the database it was for in place, and
\* .previous is the one it replaced with every write committed before the close
\* (what sessions open at the close commit after it may be missing), unless such
\* a session kept the close from folding the log or folded it during the copy.
SwapExchanges ==
  [][Ends("rebuilt") \/ Ends("rolled_back") =>
       /\ live' = target
       /\ (current # NoFile /\ ~cut /\ ~stirred) => AtLeast(previous', current)]_vars

\* A swap that fails or is killed leaves the database it closed, every write
\* committed before the close included, or the one it was installing, complete.
FailureKeepsDatabase ==
  [][(pc \in SwapSteps /\ pc' = "idle" /\ ~cut) =>
       (AtLeast(Contents', current) \/ live' = target)]_vars

\* The builds that some complete file holds.
WholeFiles == {f \in {live, previous, superseded} \ {NoFile} : f.whole}
Builds     == {f.build : f \in WholeFiles}

\* No step of a rollback, failed ones included, loses the last copy of a
\* build, provided no earlier rollback left its copy behind in staging and no
\* session folded the log into the file while that was copied.
RollbackKeepsBoth ==
  [][(pc \in RollbackSteps /\ ~leftover /\ ~stirred) => Builds \subseteq Builds']_vars

\* A list of less than half the BINs replaces a database that was open only if
\* the user allowed it.
ShrinkIsAllowed ==
  [][(Ends("rebuilt") /\ wasOpen /\ current # NoFile /\ 2 * target.size < current.size)
       => allowed]_vars
================================================================================
