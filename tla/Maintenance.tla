------------------------------- MODULE Maintenance -------------------------------
(***************************************************************************)
(* What the Database page and the Database administration page have done   *)
(* to the database that the rest of the window is reading: backups,        *)
(* restores, rebuilds and rollbacks, on the same pool as the lookups.      *)
(*                                                                         *)
(* A page believes that it is busy from _begin to _end; the worker in      *)
(* between closes the manager, replaces the file and opens it again, in    *)
(* steps that interleave with everything else.  Both pages have buttons    *)
(* that stay enabled while one of their own jobs runs, and neither looks   *)
(* at the other.  The process may be killed at any step.                   *)
(***************************************************************************)
EXTENDS Workbench

CONSTANTS
  Retention,  \* max_backups
  MaxStarts   \* bound on the times the program is started

ASSUME MaintenanceAssumption == Retention \in Nat \ {0} /\ MaxStarts \in Nat \ {0} /\ MaxContents >= 2

VARIABLES
  file,      \* the installed database: its content, whether that was whole where it came
             \* from, and the job still writing into it
  backups,   \* the snapshots, newest first: [id, content, whole]
  previous,  \* what the last rebuild replaced: [content, whole], content 0 for none
  staged,    \* per staging name beside the file, what is being copied there, or None
  busy,      \* per page, whether it believes that a job of its own runs
  armed,     \* the buttons of the Database page that a refresh re-enables
  made,      \* the databases that there have been
  starts,    \* how often the program was started
  tangled    \* history variable: two jobs that replace the file were there at once

onDisk == <<file, backups, previous, staged, made>>
panel  == <<busy, armed, tangled>>
mvars  == <<onDisk, panel, starts>>
all    == <<vars, mvars>>

Pages == {"database", "admin"}

\* What only reads the database or tidies it, what copies it, and what replaces it.
Checks    == {"verify", "reindex", "vacuum"}
Replacing == {"restore", "rebuild", "rollback", "install"}

ASSUME JobKindsAssumption == Checks \cup {"backup"} \cup Replacing \subseteq JobKinds

Job(p, kind) == <<p, kind>>

\* On the pool, or in a queue of answers that have not been handled.
UnderwayIn(kinds, queue) ==
  \/ \E k \in DOMAIN jobs : jobs[k].want.ch[2] \in kinds
  \/ \E k \in DOMAIN queue : queue[k].want.ch[2] \in kinds

Underway(kinds) == UnderwayIn(kinds, inbox)

NoFile == [content |-> 0, whole |-> FALSE]

Armable == {"rebuild"} \cup (IF previous.content # 0 THEN {"rollback"} ELSE {})

--------------------------------------------------------------------------------
\* The buttons

\* _begin, then the worker is submitted; the queue is what is still to be handled.
BeginJob(want, queue) ==
  /\ busy' = [busy EXCEPT ![want.ch[1]] = TRUE]
  /\ armed' = IF want.ch[1] = "database" THEN {} ELSE armed
  /\ jobs' = Append(jobs, Worker(want, FALSE))
  /\ tangled' = (tangled \/ (want.ch[2] \in Replacing /\ UnderwayIn(Replacing, queue)))

\* Checks, indexes, vacuum and a backup.
StartJob(p, kind) ==
  /\ Acting(kind) /\ p \in visited
  /\ ~busy[p]
  /\ BeginJob(Request(Job(p, kind), None, None), inbox)
  /\ UNCHANGED <<visited, gauges, inbox, bin, inst, ana, palette, kept, db, life, lapsed, onDisk, starts>>

\* The commands of the palette go to the administration page and do not ask whether
\* it is busy.
PaletteCommand(kind) ==
  /\ kind \in {"verify", "backup"}
  /\ Acting(kind) /\ {"palette", "admin"} \subseteq visited
  /\ BeginJob(Request(Job("admin", kind), None, None), inbox)
  /\ UNCHANGED <<visited, gauges, inbox, bin, inst, ana, palette, kept, db, life, lapsed, onDisk, starts>>

\* The snapshot is chosen from a list that may be out of date; the manager is closed
\* before the worker is asked for.
StartRestore(p, b) ==
  /\ Acting("restore") /\ p \in visited
  /\ ~busy[p]
  /\ db' = [db EXCEPT !.open = FALSE]
  /\ BeginJob(Request(Job(p, "restore"), b.id, None), inbox)
  /\ UNCHANGED <<visited, gauges, inbox, bin, inst, ana, palette, kept, life, lapsed, onDisk, starts>>

\* The first rebuild is never allowed to shrink the database.
StartRebuild ==
  /\ Acting("rebuild") /\ "rebuild" \in armed
  /\ BeginJob(Request(Job("database", "rebuild"), "refuse_shrink", None), inbox)
  /\ UNCHANGED <<visited, gauges, inbox, bin, inst, ana, palette, kept, db, life, lapsed, onDisk, starts>>

StartRollback ==
  /\ Acting("rollback") /\ "rollback" \in armed
  /\ BeginJob(Request(Job("database", "rollback"), None, None), inbox)
  /\ UNCHANGED <<visited, gauges, inbox, bin, inst, ana, palette, kept, db, life, lapsed, onDisk, starts>>

\* The page is shown again, or the padding of short BINs is switched: the status of
\* the list is read and its buttons are enabled, whatever runs.
RefreshListStatus ==
  /\ Acting("list")
  /\ armed' = Armable
  /\ UNCHANGED <<visited, gauges, jobs, inbox, bin, inst, ana, palette, kept, db, life, lapsed,
                 onDisk, busy, tangled, starts>>

\* Runs on the GUI thread between a _begin and an _end of its own, whatever runs.
GatherLearning ==
  /\ Acting("learn")
  /\ busy' = [busy EXCEPT !["database"] = FALSE]
  /\ armed' = Armable
  /\ UNCHANGED <<visited, gauges, jobs, inbox, bin, inst, ana, palette, kept, db, life, lapsed,
                 onDisk, tangled, starts>>

DeleteBackup(i) ==
  /\ Acting("delete") /\ "admin" \in visited
  /\ backups' = RemoveAt(backups, i)
  /\ UNCHANGED <<visited, gauges, jobs, inbox, bin, inst, ana, palette, kept, db, life, lapsed,
                 file, previous, staged, made, panel, starts>>

\* The administration page is shown: it measures what is open.
ShowAdmin ==
  /\ Acting("health")
  /\ db.open
  /\ Submit(Measures(~busy["admin"]))
  /\ lapsed' = Overtaken(Gauges)
  /\ UNCHANGED <<visited, gauges, inbox, bin, inst, ana, palette, kept, db, life, mvars>>

--------------------------------------------------------------------------------
\* The worker threads: a job runs in steps

At(k, kind, place) ==
  /\ life # "closed"
  /\ jobs[k].begun /\ jobs[k].want.ch[2] = kind /\ jobs[k].at = place

Goes(k, place, note) == jobs' = [jobs EXCEPT ![k].at = place, ![k].note = note]

Ends(k, outcome) ==
  /\ jobs' = RemoveAt(jobs, k)
  /\ inbox' = Append(inbox, Answered(jobs[k].want, outcome, jobs[k].saw))

\* A job's own steps change nothing that the pages hold.
Behind == <<visited, gauges, bin, inst, ana, palette, kept, life, acts, lapsed, panel, starts>>

\* Mutated form of Opened: an engine that is there already is kept.
OpenedOnce == IF db.open THEN db ELSE [open |-> TRUE, content |-> file.content]

\* DatabaseManager.open disposes of the engine that is there.
Opened == [open |-> TRUE, content |-> file.content]

\* Verification reads the file and always has a report; the others need the manager.
RunCheck(k) ==
  \E kind \in Checks :
    /\ At(k, kind, "start")
    /\ Ends(k, IF kind = "verify" \/ db.open THEN "found" ELSE "failed")
    /\ UNCHANGED <<Behind, db, onDisk>>

UsedIds ==
  {b.id : b \in Range(backups)}
    \cup {jobs[k].note : k \in {j \in DOMAIN jobs : jobs[j].want.ch[2] = "backup"}}
    \cup {jobs[k].want.of : k \in {j \in DOMAIN jobs : jobs[j].want.ch[2] = "restore"}}
FreshId == CHOOSE n \in 1 .. Cardinality(UsedIds) + 1 : n \notin UsedIds

\* create_backup: the file is there, under its name, from the first page on.
BeginBackup(k) ==
  /\ At(k, "backup", "start")
  /\ backups' = <<[id |-> FreshId, content |-> file.content, whole |-> FALSE]>> \o backups
  /\ Goes(k, "copying", FreshId)
  /\ UNCHANGED <<Behind, inbox, db, file, previous, staged, made>>

\* The last page is written, and the file is the newest.
CompleteBackup(k) ==
  /\ At(k, "backup", "copying")
  /\ \E i \in DOMAIN backups :
       /\ backups[i].id = jobs[k].note
       /\ backups' = <<[backups[i] EXCEPT !.whole = file.sound]>> \o RemoveAt(backups, i)
  /\ Goes(k, "pruning", jobs[k].note)
  /\ UNCHANGED <<Behind, inbox, db, file, previous, staged, made>>

FailBackup(k) ==
  /\ At(k, "backup", "copying")
  /\ \/ \E i \in DOMAIN backups :
          backups[i].id = jobs[k].note /\ backups' = RemoveAt(backups, i)
     \/ ~(\E i \in DOMAIN backups : backups[i].id = jobs[k].note) /\ UNCHANGED backups
  /\ Ends(k, "failed")
  /\ UNCHANGED <<Behind, db, file, previous, staged, made>>

\* Mutated form of Pruned: one too many goes.
PrunedShort(entries) == Newest(entries, Retention - 1)

Pruned(entries) == Newest(entries, Retention)

\* Retention counts whatever is in the folder.
PruneBackups(k) ==
  /\ At(k, "backup", "pruning")
  /\ backups' = Pruned(backups)
  /\ Ends(k, "found")
  /\ UNCHANGED <<Behind, db, file, previous, staged, made>>

--------------------------------------------------------------------------------
\* Replacing the file

\* Mutated form of Restorable: any file that is there.
RestorableUnverified(b) == b.id # 0

\* The snapshot is verified before the live file is touched.
Restorable(b) == b.whole

Chosen(k) == {b \in Range(backups) : b.id = jobs[k].want.of}

VerifyBackup(k) ==
  /\ At(k, "restore", "start")
  /\ IF \E b \in Chosen(k) : Restorable(b)
     THEN Goes(k, "copy", [new |-> 0, was |-> FALSE, kept |-> NoFile]) /\ UNCHANGED inbox
     ELSE Ends(k, "failed")
  /\ UNCHANGED <<Behind, db, onDisk>>

\* read_bin_list, the comparison with the database that is open, and a candidate
\* built and verified; the comparison is with nothing while the manager is closed.
BuildCandidate(k) ==
  /\ At(k, "rebuild", "start")
  /\ \/ /\ made < MaxContents
        /\ made' = made + 1
        /\ Goes(k, "close", [new |-> made + 1, was |-> FALSE, kept |-> NoFile])
        /\ UNCHANGED inbox
     \/ /\ Ends(k, "failed")
        /\ UNCHANGED made
     \/ /\ jobs[k].want.of = "refuse_shrink" /\ db.open
        /\ Ends(k, "shrinks")
        /\ UNCHANGED made
  /\ UNCHANGED <<Behind, db, file, backups, previous, staged>>

VerifyPrevious(k) ==
  /\ At(k, "rollback", "start")
  /\ IF previous.content # 0 /\ previous.whole
     THEN Goes(k, "close", [new |-> 0, was |-> FALSE, kept |-> NoFile]) /\ UNCHANGED inbox
     ELSE Ends(k, "failed")
  /\ UNCHANGED <<Behind, db, onDisk>>

Swaps == {"rebuild", "rollback"}

\* Whether the manager was open is noted, then it is closed.
CloseForSwap(k) ==
  \E kind \in Swaps :
    /\ At(k, kind, "close")
    /\ db' = [db EXCEPT !.open = FALSE]
    /\ Goes(k, "keep", [jobs[k].note EXCEPT !.was = db.open])
    /\ UNCHANGED <<Behind, inbox, onDisk>>

\* The outgoing database is copied over the one that was kept before it, in place; a
\* rollback copies it aside.
BeginKeeping(k) ==
  \/ /\ At(k, "rebuild", "keep")
     /\ previous' = [content |-> file.content, whole |-> FALSE]
     /\ Goes(k, "keeping", jobs[k].note)
     /\ UNCHANGED <<Behind, inbox, db, file, backups, staged, made>>
  \/ /\ At(k, "rollback", "keep")
     /\ Goes(k, "copy", [jobs[k].note EXCEPT !.kept = [content |-> file.content, whole |-> file.sound]])
     /\ UNCHANGED <<Behind, inbox, db, onDisk>>

FinishKeeping(k) ==
  /\ At(k, "rebuild", "keeping")
  /\ previous' = [previous EXCEPT !.whole = file.sound]
  /\ Goes(k, "copy", jobs[k].note)
  /\ UNCHANGED <<Behind, inbox, db, file, backups, staged, made>>

\* One name beside the installed file for every installation, one for every restore.
StagingName(k) == IF jobs[k].want.ch[2] = "restore" THEN ".restore-tmp" ELSE ".incoming"

\* What is copied there: the chosen snapshot if it still is, what was kept, the candidate.
Source(k) ==
  CASE jobs[k].want.ch[2] = "restore"  -> Chosen(k)
    [] jobs[k].want.ch[2] = "rollback" -> {previous}
    [] OTHER                           -> {[content |-> jobs[k].note.new, whole |-> TRUE]}

BeginCopy(k) ==
  \E kind \in Replacing :
    /\ At(k, kind, "copy")
    /\ \E f \in Source(k) :
         /\ staged' = [staged EXCEPT ![StagingName(k)] =
                          [content |-> f.content, sound |-> f.whole, writer |-> jobs[k].want]]
         /\ Goes(k, "replace", jobs[k].note)
    /\ UNCHANGED <<Behind, inbox, db, file, backups, previous, made>>

\* What a job has written is whole once it is done, wherever the file is by now.
Written(f, want) == IF f # None /\ f.writer = want THEN [f EXCEPT !.writer = None] ELSE f

Replace(k) ==
  \E kind \in Replacing :
    /\ At(k, kind, "replace")
    /\ staged[StagingName(k)] # None
    /\ file' = Written(staged[StagingName(k)], jobs[k].want)
    /\ staged' = [staged EXCEPT ![StagingName(k)] = None]
    /\ IF kind = "restore"
       THEN Ends(k, "found")
       ELSE Goes(k, "open", jobs[k].note) /\ UNCHANGED inbox
    /\ UNCHANGED <<Behind, db, backups, previous, made>>

\* Mutated form of Reopened: the application is left without its database.
ReopenedNever(was) == db

\* Nothing was replaced; the manager is opened again if it was open.
Reopened(was) == IF was THEN Opened ELSE db

\* The snapshot is gone, the copy fails, or the staging file is no longer there.
FailReplace(k) ==
  \E kind \in Replacing :
    /\ At(k, kind, "copy") \/ At(k, kind, "replace")
    /\ file' = Written(file, jobs[k].want)
    /\ staged' = [staged EXCEPT ![StagingName(k)] = None]
    /\ db' = IF kind = "restore" THEN db ELSE Reopened(jobs[k].note.was)
    /\ Ends(k, "failed")
    /\ UNCHANGED <<Behind, backups, previous, made>>

\* The manager is opened on the new file; a rollback has put what it replaced in the
\* place of what it restored by then.
OpenAfterSwap(k) ==
  \E kind \in Swaps :
    /\ At(k, kind, "open")
    /\ previous' = IF kind = "rollback" THEN jobs[k].note.kept
                   ELSE previous
    /\ db' = Opened
    /\ Ends(k, "found")
    /\ UNCHANGED <<Behind, file, backups, staged, made>>

Work(k) ==
  \/ RunCheck(k)
  \/ BeginBackup(k) \/ CompleteBackup(k) \/ FailBackup(k) \/ PruneBackups(k)
  \/ VerifyBackup(k) \/ BuildCandidate(k) \/ VerifyPrevious(k)
  \/ CloseForSwap(k) \/ BeginKeeping(k) \/ FinishKeeping(k)
  \/ BeginCopy(k) \/ Replace(k) \/ FailReplace(k) \/ OpenAfterSwap(k)

--------------------------------------------------------------------------------
\* What the pages do when a job has ended

End(p) ==
  /\ busy' = [busy EXCEPT ![p] = FALSE]
  /\ armed' = IF p = "database" THEN Armable ELSE armed
  /\ tangled' = tangled

\* After a check that may have changed something the health is assessed again.
OnJobDone(m) ==
  /\ \/ m.want.ch[2] \in Checks \cup {"backup"}
     \/ m.want.ch[2] \in Swaps /\ m.outcome = "failed"
  /\ End(m.want.ch[1])
  /\ IF m.outcome = "found" /\ m.want.ch \in {Job("admin", "verify"), Job("admin", "reindex")}
        /\ "health" \in visited /\ db.open
     THEN Submit(<<Request(Health, None, None)>>) /\ lapsed' = Overtaken({Health})
     ELSE UNCHANGED <<jobs, lapsed>>
  /\ UNCHANGED <<bin, ana, db>>

\* What is asked for again when the window is told of a new database.
Reloaded == {Snapshot} \cup Gauges

\* The window is told, and every page reloads, unless another job has closed the
\* manager by then.
OnReplaced(m) ==
  /\ m.want.ch[2] \in Swaps /\ m.outcome = "found"
  /\ End("database")
  /\ Reload(db.open, ~busy["admin"])
  /\ lapsed' = Overtaken(Reloaded) \cup (IF db.open THEN {} ELSE Reloaded)
                 \cup (IF busy["admin"] THEN {Health} ELSE {})
  /\ UNCHANGED db

\* Asked whether it was meant: a second rebuild is begun, or none.
OnShrinkRefused(m) ==
  /\ m.outcome = "shrinks"
  /\ \/ /\ End("database") /\ UNCHANGED jobs
     \/ BeginJob(Request(Job("database", "rebuild"), "allow_shrink", None), Tail(inbox))
  /\ UNCHANGED <<bin, ana, db, lapsed>>

\* Only the administration page tells the window; the Database page reloads itself.
OnRestored(m) ==
  /\ m.want.ch[2] = "restore" /\ m.outcome = "found"
  /\ db' = Opened
  /\ End(m.want.ch[1])
  /\ IF m.want.ch[1] = "admin"
     THEN Reload(TRUE, TRUE) /\ lapsed' = Overtaken(Reloaded)
     ELSE UNCHANGED <<jobs, bin, ana>> /\ lapsed' = lapsed \cup Reloaded

OnRestoreFailed(m) ==
  /\ m.want.ch[2] = "restore" /\ m.outcome = "failed"
  /\ db' = Opened
  /\ End(m.want.ch[1])
  /\ UNCHANGED <<jobs, bin, ana, lapsed>>

DeliverJob ==
  /\ life = "running"
  /\ inbox # <<>>
  /\ inbox' = Tail(inbox)
  /\ \E m \in {Head(inbox)} :
       \/ OnJobDone(m) \/ OnReplaced(m) \/ OnShrinkRefused(m)
       \/ OnRestored(m) \/ OnRestoreFailed(m)
  /\ UNCHANGED <<visited, gauges, inst, palette, kept, life, acts, onDisk, starts>>

--------------------------------------------------------------------------------
\* The process is killed at any step, and started again on what is on the disk

Kill ==
  /\ "kill" \in visited /\ life = "running" /\ starts < MaxStarts
  /\ life' = "closed"
  /\ jobs' = <<>> /\ inbox' = <<>>
  /\ db' = [db EXCEPT !.open = FALSE]
  /\ UNCHANGED <<visited, gauges, bin, inst, ana, palette, kept, acts, lapsed, mvars>>

Restart ==
  /\ "kill" \in visited /\ life = "closed" /\ starts < MaxStarts
  /\ starts' = starts + 1
  /\ life' = "running"
  /\ db' = Opened
  /\ bin' = NoBin /\ inst' = [p \in Browsers |-> NoInst(p)]
  /\ ana' = NoAna /\ gauges' = [ch \in Gauges |-> 0] /\ palette' = NoPalette
  /\ lapsed' = {}
  /\ busy' = [p \in Pages |-> FALSE] /\ armed' = Armable
  /\ UNCHANGED <<visited, jobs, inbox, kept, acts, tangled, onDisk>>

--------------------------------------------------------------------------------
\* The second database is installed, and there is a snapshot of the first.
MInit ==
  /\ Init
  /\ file = [content |-> 2, sound |-> TRUE, writer |-> None]
  /\ backups = <<[id |-> 1, content |-> 1, whole |-> TRUE]>> /\ previous = NoFile
  /\ staged = [name \in {".incoming", ".restore-tmp"} |-> None]
  /\ busy = [p \in Pages |-> FALSE] /\ armed = {"rebuild"}
  /\ made = 2 /\ starts = 1 /\ tangled = FALSE

Next ==
  \/ Lookups /\ UNCHANGED mvars
  \/ \E p \in Pages :
       \/ \E kind \in Checks \cup {"backup"} : StartJob(p, kind)
       \/ \E b \in Range(backups) : StartRestore(p, b)
  \/ \E kind \in JobKinds : PaletteCommand(kind)
  \/ StartRebuild \/ StartRollback \/ RefreshListStatus \/ GatherLearning
  \/ \E i \in DOMAIN backups : DeleteBackup(i)
  \/ ShowAdmin
  \/ \E k \in DOMAIN jobs : Work(k)
  \/ DeliverJob
  \/ Kill \/ Restart

\* The threads of the pool run, and the event loop handles what has arrived.
Fairness ==
  /\ WF_all((\E k \in DOMAIN jobs : Start(k)) /\ UNCHANGED mvars)
  /\ WF_all((\E k \in DOMAIN jobs : Finish(k)) /\ UNCHANGED mvars)
  /\ WF_all(\E k \in DOMAIN jobs : Work(k))
  /\ WF_all((Deliver /\ UNCHANGED mvars) \/ DeliverJob)

Spec == MInit /\ [][Next]_all /\ Fairness

--------------------------------------------------------------------------------
Whole(f) == f.sound /\ f.writer = None

\* When no job is under way, what the window reads is what is installed, whole: whatever
\* was closed, replaced and opened in whichever order, the file and the manager agree.
OpenIsInstalled ==
  life = "running" /\ ~Underway(Replacing) /\ db.open => db.content = file.content

\* What is installed is always whole, at every step and after a kill at any step, and it
\* is a database that was whole where it came from, as long as only one job at a time
\* replaces the file: a snapshot or an outgoing database that a kill left half written
\* is never put in its place.
InstalledWhole ==
  ~tangled => Whole(file)

\* The application keeps working: a database that a job has closed is opened again,
\* whether the job succeeds, fails or is refused, as long as only one at a time
\* replaces the file.
ComesBack == ~db.open /\ ~tangled ~> db.open \/ tangled \/ life # "running"

\* The jobs whose snapshot is being written.
Copying == {k \in DOMAIN jobs : At(k, "backup", "copying")}

\* The snapshot of a job that has yet to prune was deleted under it.
Bereft ==
  \E k \in DOMAIN jobs :
    At(k, "backup", "pruning") /\ \A b \in Range(backups) : b.id # jobs[k].note

\* Retention never costs the last good snapshot, although it counts those that are being
\* written and those that a kill left half written: a step that is not a deletion leaves
\* a whole one if there was one, unless as many are being written as are kept, or the
\* user deleted what the job that prunes has just made.
SnapshotSurvives ==
  [][(/\ \E b \in Range(backups) : b.whole
      /\ ~(\E i \in DOMAIN backups : DeleteBackup(i))
      /\ ~tangled /\ ~Bereft /\ Cardinality(Copying) < Retention)
       => \E b \in Range(backups') : b.whole]_all
================================================================================
