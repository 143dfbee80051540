----------------------------- MODULE UpdateInstall -----------------------------
(***************************************************************************)
(* DatabaseUpdateService.install: the pipeline that downloads a published  *)
(* package, proves it, and swaps it in for the working database.           *)
(*                                                                         *)
(* One action per step of the pipeline, in the order of the code, each     *)
(* with the ways it can fail; the three exception handlers share one       *)
(* rollback and differ in the journal entry they leave.  The process may   *)
(* stop between any two steps: files survive, everything else is lost.     *)
(*                                                                         *)
(* A file is abstracted to the release it holds and the facts the pipeline *)
(* can learn about it: whether its bytes are the published ones, whether   *)
(* verify_database accepts it, the schema its tables really have, and the  *)
(* schema number its database_metadata declares.                           *)
(***************************************************************************)
EXTENDS Integers, Sequences, FiniteSets

CONSTANTS
  Releases,        \* the versions a distribution server publishes
  MaxSchema,       \* MAX_SCHEMA_VERSION of this build
  Migrations,      \* the schema versions MIGRATIONS has a step to
  Schemas,         \* the schema numbers a manifest may carry
  NoFile,          \* the path does not exist
  NoOffer,         \* no install has been asked for yet
  Offers,          \* the manifests an install may be asked to run
  FirstLive,       \* what the database path may hold when modelling starts
  BackupSettings,  \* values the backup_before_update setting may have
  MaxEntries       \* MAX_ENTRIES of the update journal

\* database_metadata has no schema_version row (None in the code).
NoSchema == 0

(***************************************************************************)
(* A manifest together with the package it points at.  digest: whether a   *)
(* checksum is published.  schema: manifest.schema_version, which is also  *)
(* the schema of the package's tables.  declared: the schema_version row   *)
(* in the package's own database_metadata.  sound: the publisher's file    *)
(* passes verify_database.                                                 *)
(***************************************************************************)
Offer ==
  [version : Releases, schema : Schemas, declared : Schemas \cup {NoSchema},
   digest : BOOLEAN, compressed : BOOLEAN, sound : BOOLEAN]

File ==
  [release : Releases, schema : Schemas, declared : Schemas \cup {NoSchema},
   sound : BOOLEAN, intact : BOOLEAN]

ASSUME SchemaAssumption ==
  /\ Schemas \subseteq Nat \ {NoSchema}
  /\ MaxSchema \in Schemas
  /\ Migrations \subseteq Schemas

ASSUME FileAssumption == NoFile \notin File /\ NoOffer \notin Offer

ASSUME InputAssumption ==
  /\ Offers \subseteq Offer
  /\ FirstLive \subseteq File \cup {NoFile}
  /\ BackupSettings \subseteq BOOLEAN

\* A publisher writes one schema number into a package and its manifest.
ASSUME PublisherAssumption ==
  \A o \in Offers : o.declared \in {o.schema, NoSchema}

ASSUME MaxEntriesAssumption == MaxEntries \in Nat \ {0}

Status == {"success", "failed", "cancelled", "rolled_back"}
Entry  == [status : Status, to : Releases]

Steps ==
  {"download", "checksum", "extract", "verify", "migrate", "backup", "close",
   "copy", "replace", "open", "index", "stamp", "analyze", "metadata",
   "record", "journal", "cleanup", "cancel", "rollback", "record_failure"}

VARIABLES
  up,        \* the application process is running
  pc,        \* the step of install() about to run, or "idle"
  offer,     \* the manifest install() was called with
  transfer,  \* the compressed artefact, when the package is compressed
  staged,    \* downloads/bintel-<version>.sqlite
  incoming,  \* the .incoming copy next to the working database
  live,      \* the working database
  open,      \* DatabaseManager.is_open
  wasOpen,   \* install()'s was_open
  backup,    \* the snapshot this run took (backup_path), NoFile for None
  failure,   \* which handler runs: "none", "cancelled" or "error"
  outcome,   \* how the last install() ended
  journal,   \* update-history.json, newest first
  before,    \* history: the working database when install() was called
  swapped,   \* history: this run replaced the working database
  gaveUp     \* history: this run's rollback raised part-way

files   == <<transfer, staged, incoming, live>>
history == <<before, swapped, gaveUp>>
vars    == <<up, pc, offer, transfer, staged, incoming, live, open, wasOpen,
             backup, failure, outcome, journal, before, swapped, gaveUp>>

Outcomes == {"none", "running", "installed", "failed", "cancelled", "stopped"}

TypeOK ==
  /\ up \in BOOLEAN
  /\ pc \in Steps \cup {"idle"}
  /\ offer \in Offers \cup {NoOffer}
  /\ transfer \in File \cup {NoFile}
  /\ staged \in File \cup {NoFile}
  /\ incoming \in File \cup {NoFile}
  /\ live \in File \cup {NoFile}
  /\ open \in BOOLEAN
  /\ wasOpen \in BOOLEAN
  /\ backup \in File \cup {NoFile}
  /\ failure \in {"none", "cancelled", "error"}
  /\ outcome \in Outcomes
  /\ journal \in Seq(Entry) /\ Len(journal) <= MaxEntries
  /\ before \in File \cup {NoFile}
  /\ swapped \in BOOLEAN
  /\ gaveUp \in BOOLEAN

--------------------------------------------------------------------------------
\* Pure helpers

\* Mutated form of Verifies: the newest supported schema is refused.
VerifiesBelowMax(f) == f.sound /\ f.declared < MaxSchema

\* verify_database(quick=False): the schema a file declares may be missing
\* (a warning), but never newer than this build's.
Verifies(f) == f.sound /\ f.declared <= MaxSchema

\* migrations.can_migrate: every version on the way up is covered.
CanMigrate(from) ==
  /\ from # NoSchema
  /\ from <= MaxSchema
  /\ \A v \in (from + 1) .. MaxSchema : v \in Migrations

\* UpdateJournal.record: prepend and trim; a journal that cannot be written
\* is logged and stays as it was.
Prepend(entry) ==
  IF Len(journal) < MaxEntries
    THEN <<entry>> \o journal
    ELSE <<entry>> \o SubSeq(journal, 1, MaxEntries - 1)
Record(status) == journal' \in {Prepend([status |-> status, to |-> offer.version]), journal}

\* The path install() calls `transfer`: the staging path itself when the
\* package is not compressed.
Arrived == IF offer.compressed THEN transfer ELSE staged

\* What a download can leave behind: the published bytes, or bytes that were
\* damaged or replaced on the way, which verification may or may not notice.
Delivered(o) ==
  {[release |-> o.version, schema |-> o.schema, declared |-> o.declared,
    sound |-> o.sound, intact |-> TRUE]}
  \cup
  {[release |-> o.version, schema |-> o.schema, declared |-> o.declared,
    sound |-> s, intact |-> FALSE] : s \in BOOLEAN}

\* A copy the process did not finish writing: neither readable nor genuine.
Torn(f) == [f EXCEPT !.sound = FALSE, !.intact = FALSE]

At(step)  == up /\ pc = step
GoTo(step) == pc' = step /\ UNCHANGED failure
FailWith(kind) ==
  /\ pc' = IF kind = "cancelled" THEN "cancel" ELSE "rollback"
  /\ failure' = kind

Running == UNCHANGED <<up, offer, outcome>>

--------------------------------------------------------------------------------
\* install(): from the call to the proved, migrated staging file

\* install(manifest) is called; deltas have no applier, so the full package
\* is always fetched.  Leftovers of an earlier run are forgotten: each carries
\* another version's name, or is rewritten before this run reads it.
Begin(o) ==
  /\ At("idle")
  /\ offer' = o
  /\ before' = live
  /\ swapped' = FALSE
  /\ gaveUp' = FALSE
  /\ backup' = NoFile
  /\ outcome' = "running"
  /\ transfer' = NoFile /\ staged' = NoFile /\ incoming' = NoFile
  /\ GoTo("download")
  /\ UNCHANGED <<up, live, open, wasOpen, journal>>

Download ==
  /\ At("download")
  /\ \E f \in Delivered(offer) :
       IF offer.compressed
         THEN transfer' = f /\ UNCHANGED staged
         ELSE staged' = f /\ UNCHANGED transfer
  /\ GoTo("checksum")
  /\ Running
  /\ UNCHANGED <<incoming, live, open, wasOpen, backup, journal, history>>

\* A lost connection, an HTTP error, a full disk, or the cancel button.
DownloadFails(kind) ==
  /\ At("download")
  /\ FailWith(kind)
  /\ Running
  /\ UNCHANGED <<files, open, wasOpen, backup, journal, history>>

\* _verify_checksum: nothing to compare when no checksum is published.
ChecksumAccepts ==
  /\ At("checksum")
  /\ offer.digest => Arrived.intact
  /\ GoTo(IF offer.compressed THEN "extract" ELSE "verify")
  /\ Running
  /\ UNCHANGED <<files, open, wasOpen, backup, journal, history>>

\* The mismatching artefact is discarded.
ChecksumMismatch ==
  /\ At("checksum")
  /\ offer.digest /\ ~Arrived.intact
  /\ IF offer.compressed
       THEN transfer' = NoFile /\ UNCHANGED staged
       ELSE staged' = NoFile /\ UNCHANGED transfer
  /\ FailWith("error")
  /\ Running
  /\ UNCHANGED <<incoming, live, open, wasOpen, backup, journal, history>>

\* Cancelled while hashing, or a digest algorithm this build does not know.
ChecksumFails(kind) ==
  /\ At("checksum")
  /\ offer.digest
  /\ FailWith(kind)
  /\ Running
  /\ UNCHANGED <<files, open, wasOpen, backup, journal, history>>

\* decompress: expands beside the destination, moves it over, removes the
\* archive.
Extract ==
  /\ At("extract")
  /\ staged' = transfer
  /\ transfer' = NoFile
  /\ GoTo("verify")
  /\ Running
  /\ UNCHANGED <<incoming, live, open, wasOpen, backup, journal, history>>

ExtractFails(kind) ==
  /\ At("extract")
  /\ FailWith(kind)
  /\ Running
  /\ UNCHANGED <<files, open, wasOpen, backup, journal, history>>

VerifyAccepts ==
  /\ At("verify")
  /\ Verifies(staged)
  /\ GoTo("migrate")
  /\ Running
  /\ UNCHANGED <<files, open, wasOpen, backup, journal, history>>

VerifyRejects ==
  /\ At("verify")
  /\ ~Verifies(staged)
  /\ FailWith("error")
  /\ Running
  /\ UNCHANGED <<files, open, wasOpen, backup, journal, history>>

\* One registered migration: the step alters the tables, then the version
\* it produces is stamped.
MigrateStep ==
  /\ At("migrate")
  /\ CanMigrate(staged.declared)
  /\ staged.declared < MaxSchema
  /\ staged' = [staged EXCEPT !.schema = staged.declared + 1,
                              !.declared = staged.declared + 1]
  /\ UNCHANGED <<pc, failure>>
  /\ Running
  /\ UNCHANGED <<transfer, incoming, live, open, wasOpen, backup, journal, history>>

MigrateDone ==
  /\ At("migrate")
  /\ staged.declared = MaxSchema
  /\ GoTo("backup")
  /\ Running
  /\ UNCHANGED <<files, open, wasOpen, backup, journal, history>>

\* No declared schema, no path to MaxSchema, or a step that raised with its
\* tables altered and its version not yet stamped.
MigrateFails ==
  /\ At("migrate")
  /\ \/ UNCHANGED staged
     \/ /\ CanMigrate(staged.declared)
        /\ staged.declared < MaxSchema
        /\ staged' = [staged EXCEPT !.schema = staged.declared + 1]
  /\ FailWith("error")
  /\ Running
  /\ UNCHANGED <<transfer, incoming, live, open, wasOpen, backup, journal, history>>

--------------------------------------------------------------------------------
\* install(): backup, swap and the work after it

Backup ==
  /\ At("backup")
  /\ \E wanted \in BackupSettings :
       IF wanted /\ live # NoFile
         THEN backup' = live
         ELSE UNCHANGED backup
  /\ GoTo("close")
  /\ Running
  /\ UNCHANGED <<files, open, wasOpen, journal, history>>

\* create_backup raises: no space, a source SQLite cannot read, ...
BackupFails ==
  /\ At("backup")
  /\ TRUE \in BackupSettings /\ live # NoFile
  /\ FailWith("error")
  /\ Running
  /\ UNCHANGED <<files, open, wasOpen, backup, journal, history>>

CloseLive ==
  /\ At("close")
  /\ wasOpen' = open
  /\ open' = FALSE
  /\ GoTo("copy")
  /\ Running
  /\ UNCHANGED <<files, backup, journal, history>>

\* Mutated form of CopyIncoming: the working database is removed before the copy.
RemoveThenCopy ==
  /\ At("copy")
  /\ live' = NoFile
  /\ incoming' = Torn(staged)
  /\ GoTo("replace")
  /\ Running
  /\ UNCHANGED <<transfer, staged, open, wasOpen, backup, journal, history>>

\* install_database, first half: the copy to .incoming is being written ...
CopyIncoming ==
  /\ At("copy")
  /\ incoming' = Torn(staged)
  /\ GoTo("replace")
  /\ Running
  /\ UNCHANGED <<transfer, staged, live, open, wasOpen, backup, journal, history>>

\* ... and, second half, is complete and renamed over the working database.
ReplaceLive ==
  /\ At("replace")
  /\ live' = staged
  /\ incoming' = NoFile
  /\ swapped' = TRUE
  /\ GoTo("open")
  /\ Running
  /\ UNCHANGED <<transfer, staged, open, wasOpen, backup, journal, before, gaveUp>>

\* Either half raises OSError: the copy is removed and the database that is
\* still in place is reopened before the handler runs, if that succeeds.
InstallFails ==
  /\ pc \in {"copy", "replace"} /\ up
  /\ incoming' = NoFile
  /\ open' \in {wasOpen, FALSE}
  /\ FailWith("error")
  /\ Running
  /\ UNCHANGED <<transfer, staged, live, wasOpen, backup, journal, history>>

OpenNew ==
  /\ At("open")
  /\ open' = TRUE
  /\ GoTo("index")
  /\ Running
  /\ UNCHANGED <<files, wasOpen, backup, journal, history>>

\* rebuild_indexes and analyze change nothing the model keeps.
Maintain(step, next) ==
  /\ At(step)
  /\ GoTo(next)
  /\ Running
  /\ UNCHANGED <<files, open, wasOpen, backup, journal, history>>
BuildIndexes == Maintain("index", "stamp")
Analyze      == Maintain("analyze", "metadata")
\* _record_version_row and _record_history swallow what they raise.
RecordLineage == Maintain("record", "journal")

\* Both stamp_schema_version and _stamp_metadata write the manifest's schema
\* version into the database that was just installed.
Stamp(step, next) ==
  /\ At(step)
  /\ live' = [live EXCEPT !.declared = offer.schema]
  /\ GoTo(next)
  /\ Running
  /\ UNCHANGED <<transfer, staged, incoming, open, wasOpen, backup, journal, history>>
StampSchema   == Stamp("stamp", "analyze")
StampMetadata == Stamp("metadata", "record")

\* Opening the new database or any of the work on it raises.
PostInstallFails ==
  /\ up /\ pc \in {"open", "index", "stamp", "analyze", "metadata"}
  /\ FailWith("error")
  /\ Running
  /\ UNCHANGED <<files, open, wasOpen, backup, journal, history>>

RecordSuccess ==
  /\ At("journal")
  /\ Record("success")
  /\ GoTo("cleanup")
  /\ Running
  /\ UNCHANGED <<files, open, wasOpen, backup, history>>

\* Remove the staging files, run the hook (which may not fail the update),
\* and return.
CleanUp ==
  /\ At("cleanup")
  /\ staged' = NoFile
  /\ transfer' = NoFile
  /\ outcome' = "installed"
  /\ GoTo("idle")
  /\ UNCHANGED <<up, offer, incoming, live, open, wasOpen, backup, journal, history>>

\* One of the two unlink calls raises; the success is already journalled.
CleanUpFails ==
  /\ At("cleanup")
  /\ staged' \in {staged, NoFile}
  /\ FailWith("error")
  /\ Running
  /\ UNCHANGED <<transfer, incoming, live, open, wasOpen, backup, journal, history>>

--------------------------------------------------------------------------------
\* install(): the exception handlers

DiscardStaging ==
  /\ At("cancel")
  /\ staged' = NoFile
  /\ GoTo("rollback")
  /\ Running
  /\ UNCHANGED <<transfer, incoming, live, open, wasOpen, backup, journal, history>>

\* Mutated form of RollbackRestores: the snapshot is found but not put back.
RollbackLeavesNew ==
  /\ At("rollback")
  /\ backup # NoFile
  /\ open' = TRUE
  /\ GoTo("record_failure")
  /\ Running
  /\ UNCHANGED <<files, wasOpen, backup, journal, history>>

\* _rollback with a snapshot: close, verify it (quick), put it back, reopen.
RollbackRestores ==
  /\ At("rollback")
  /\ backup # NoFile /\ Verifies(backup)
  /\ live' = backup
  /\ open' = TRUE
  /\ GoTo("record_failure")
  /\ Running
  /\ UNCHANGED <<transfer, staged, incoming, wasOpen, backup, journal, history>>

\* Mutated form of RollbackFails: a restore that raises enters the handlers
\* again.
RollbackReenters ==
  /\ At("rollback")
  /\ backup # NoFile
  /\ open' = FALSE
  /\ GoTo("cancel")
  /\ Running
  /\ UNCHANGED <<files, wasOpen, backup, journal, history>>

\* restore_backup raises; _rollback swallows it with the manager closed.
RollbackFails ==
  /\ At("rollback")
  /\ backup # NoFile
  /\ open' = FALSE
  /\ gaveUp' = TRUE
  /\ GoTo("record_failure")
  /\ Running
  /\ UNCHANGED <<files, wasOpen, backup, journal, before, swapped>>

\* manager.open raises, after the restore or without a snapshot: swallowed as
\* well.
RollbackOpenFails ==
  /\ At("rollback")
  /\ \/ backup # NoFile /\ Verifies(backup) /\ live' = backup
     \/ backup = NoFile /\ ~open /\ live # NoFile /\ UNCHANGED live
  /\ open' = FALSE
  /\ gaveUp' = TRUE
  /\ GoTo("record_failure")
  /\ Running
  /\ UNCHANGED <<transfer, staged, incoming, wasOpen, backup, journal, before, swapped>>

\* _rollback without one: only makes sure something is open.
RollbackReopens ==
  /\ At("rollback")
  /\ backup = NoFile
  /\ open' = (open \/ live # NoFile)
  /\ GoTo("record_failure")
  /\ Running
  /\ UNCHANGED <<files, wasOpen, backup, journal, history>>

FailureStatus ==
  IF failure = "cancelled" THEN "cancelled"
  ELSE IF backup # NoFile THEN "rolled_back" ELSE "failed"

RecordFailure ==
  /\ At("record_failure")
  /\ Record(FailureStatus)
  /\ outcome' = IF failure = "cancelled" THEN "cancelled" ELSE "failed"
  /\ pc' = "idle"
  /\ failure' = "none"
  /\ UNCHANGED <<up, offer, files, open, wasOpen, backup, history>>

--------------------------------------------------------------------------------
\* The process

\* Killed, crashed, or quit: shutdown waits a few seconds for a worker and
\* then exits under it.
Stop ==
  /\ up
  /\ up' = FALSE
  /\ pc' = "idle"
  /\ open' = FALSE
  /\ wasOpen' = FALSE
  /\ backup' = NoFile
  /\ failure' = "none"
  /\ outcome' = IF pc = "idle" THEN "none" ELSE "stopped"
  /\ offer' = NoOffer
  /\ before' = live /\ swapped' = FALSE /\ gaveUp' = FALSE
  /\ UNCHANGED <<files, journal>>

\* main._run: open what is installed; with verify_on_startup, close it again
\* if its quick check fails.
Start ==
  /\ ~up
  /\ up' = TRUE
  /\ \E verify_on_startup \in BOOLEAN :
       open' = (live # NoFile /\ (verify_on_startup => Verifies(live)))
  /\ UNCHANGED <<pc, offer, files, wasOpen, backup, failure, outcome, journal, history>>

Init ==
  /\ up = FALSE
  /\ pc = "idle"
  /\ offer = NoOffer
  /\ transfer = NoFile /\ staged = NoFile /\ incoming = NoFile
  /\ live \in FirstLive
  /\ open = FALSE /\ wasOpen = FALSE
  /\ backup = NoFile
  /\ failure = "none"
  /\ outcome = "none"
  /\ journal = <<>>
  /\ before = live
  /\ swapped = FALSE /\ gaveUp = FALSE

Prepare ==
  \/ Download \/ (\E k \in {"cancelled", "error"} : DownloadFails(k))
  \/ ChecksumAccepts \/ ChecksumMismatch
  \/ \E k \in {"cancelled", "error"} : ChecksumFails(k)
  \/ Extract \/ (\E k \in {"cancelled", "error"} : ExtractFails(k))
  \/ VerifyAccepts \/ VerifyRejects
  \/ MigrateStep \/ MigrateDone \/ MigrateFails

Swap ==
  \/ Backup \/ BackupFails \/ CloseLive
  \/ CopyIncoming \/ ReplaceLive \/ InstallFails \/ OpenNew
  \/ BuildIndexes \/ StampSchema \/ Analyze \/ StampMetadata \/ PostInstallFails
  \/ RecordLineage \/ RecordSuccess \/ CleanUp \/ CleanUpFails

Handle ==
  \/ DiscardStaging
  \/ RollbackRestores \/ RollbackFails \/ RollbackOpenFails \/ RollbackReopens
  \/ RecordFailure

Install == Prepare \/ Swap \/ Handle
Next == (\E o \in Offers : Begin(o)) \/ Install \/ Stop \/ Start

Spec == Init /\ [][Next]_vars

\* The worker thread keeps running install() while the process lives, and
\* the user starts the application again.
FairSpec == Spec /\ WF_vars(Install) /\ WF_vars(Start)

--------------------------------------------------------------------------------
(***************************************************************************)
(* Properties                                                              *)
(***************************************************************************)

\* A file this build can serve lookups from.
Usable(f) == f.sound /\ f.schema = MaxSchema

\* At every moment, and so wherever the process is killed, the working
\* database is absent, the one this installation began with, or a complete,
\* verified and fully migrated package: install_database never exposes a
\* half-written file and nothing unproved reaches the path.
LiveUsable == live = NoFile \/ live \in FirstLive \/ Usable(live)

\* The working database only ever changes into the package being installed,
\* migrated and with the published bytes whenever a checksum was published,
\* or back into exactly what it was when install() was called.
OnlyProvedPackages ==
  [][live' # live =>
       \/ live' = before
       \/ /\ pc # "idle" /\ live' # NoFile
          /\ live'.release = offer.version
          /\ Usable(live')
          /\ offer.digest => live'.intact]_vars

\* When a handler has rolled back, the previous database is in place, except
\* in the two situations the code cannot repair: the swap had happened and no
\* snapshot existed, or the snapshot could not be restored.  A cancelled
\* update never loses it.
HandlerKeepsPrevious ==
  pc = "record_failure" =>
    \/ live = before
    \/ /\ failure = "error" /\ swapped
       /\ backup = NoFile \/ gaveUp

\* The snapshot a rollback would restore is the database the update started
\* from, byte for byte.
BackupIsPrevious == backup # NoFile => backup = before

\* "Installed" enters the journal only for the release that is in place, open
\* and stamped with its manifest's schema version.
SuccessIsEarned ==
  [][(journal' # journal /\ Head(journal').status = "success") =>
       /\ open /\ live # NoFile
       /\ live.release = Head(journal').to
       /\ live.declared = offer.schema]_vars

\* While the application runs and no install is under way, an installed
\* database that passes verification is open, unless a rollback gave up.
OpenAtRest ==
  (up /\ pc = "idle" /\ live # NoFile /\ Verifies(live)) => (open \/ gaveUp)

\* An install that starts comes to an end, with a result or with the process.
InstallEnds == (pc # "idle") ~> (pc = "idle")

\* Wherever an install is killed, the next start of the application opens
\* the database it finds.
RecoversAfterStop == (outcome = "stopped" /\ live # NoFile) ~> open

\* Readers see an atomic update: the pipeline, its handlers and its crashes
\* implement AtomicUpdate.
ReleaseOf(f) == IF f = NoFile THEN NoFile ELSE f.release
Atomic == INSTANCE AtomicUpdate WITH
  NoDatabase <- NoFile,
  db         <- ReleaseOf(live),
  updating   <- pc # "idle",
  kept       <- IF pc = "idle" THEN ReleaseOf(live) ELSE ReleaseOf(before),
  target     <- IF pc = "idle" THEN NoFile ELSE offer.version
ImplementsAtomicUpdate == Atomic!Spec
================================================================================
